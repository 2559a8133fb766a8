---------------------------- MODULE FileSyncProofs ----------------------------
(***************************************************************************)
(* Theorems of FileSync, for every set of files, clients, downloads and    *)
(* copies, every cache size, threshold and bound.                          *)
(***************************************************************************)
EXTENDS FileSyncInvariant, FoldLemmas, TLAPS

-------------------------------------------------------------------------------
(* Type correctness *)

\* Every program counter is one of PC.
LEMMA PcType ==
  /\ "idle" \in PC /\ "load" \in PC /\ "join" \in PC /\ "row" \in PC
  /\ "read" \in PC /\ "add" \in PC /\ "evict" \in PC /\ "done" \in PC
  /\ "lock" \in PC /\ "persist" \in PC /\ "publish" \in PC
  /\ "snapshot" \in PC /\ "stage" \in PC /\ "write" \in PC /\ "rename" \in PC /\ "hash" \in PC
  /\ "get" \in PC /\ "object" \in PC
BY DEF PC

\* The initial job is a job record.
LEMMA IdleType == Idle \in JobRecord
BY PcType DEF Idle, JobRecord, Cells

\* Every client, every download and the ticker is a goroutine.
LEMMA ProcType == Clients \subseteq Procs /\ Readers \subseteq Procs /\ Ticker \in Procs
BY DEF Procs

\* The updates of a job the actions make keep it a job record.
LEMMA JobType ==
  ASSUME NEW r \in JobRecord, NEW s \in PC
  PROVE  /\ [r EXCEPT !.pc = s] \in JobRecord
         /\ \A n \in Nat : [r EXCEPT !.pc = s, !.seen = n] \in JobRecord
         /\ \A x \in Cells : /\ [r EXCEPT !.pc = s, !.cell = x] \in JobRecord
                             /\ [r EXCEPT !.pc = s, !.victim = x] \in JobRecord
         /\ \A ops \in SUBSET Nat : [r EXCEPT !.pc = s, !.against = ops] \in JobRecord
BY DEF JobRecord

LEMMA FreshJobType ==
  ASSUME NEW s \in PC, NEW f \in Files, NEW x \in Cells, NEW n \in Nat
  PROVE  /\ [Idle EXCEPT !.pc = s, !.file = f, !.cell = x, !.base = n] \in JobRecord
         /\ [Idle EXCEPT !.pc = s, !.file = f, !.cell = x] \in JobRecord
         /\ [Idle EXCEPT !.pc = s, !.file = f, !.seen = n] \in JobRecord
BY IdleType DEF JobRecord

\* A job replaced by a job record leaves the table of jobs well typed.
LEMMA JobsType ==
  ASSUME NEW j \in [Procs -> JobRecord], NEW p \in Procs, NEW r \in JobRecord
  PROVE  [j EXCEPT ![p] = r] \in [Procs -> JobRecord]
OBVIOUS

\* A snapshot taken of a typed table leaves it well typed.
LEMMA SnapshotType ==
  ASSUME NEW rows \in Seq(SnapshotRow), NEW v \in Nat, NEW t \in SUBSET Nat
  PROVE  WithSnapshot(rows, v, t) \in Seq(SnapshotRow)
<1>1. [version |-> v, kind |-> "file", from |-> {}, to |-> t] \in SnapshotRow
  BY DEF SnapshotRow
<1>2. ASSUME NEW base \in Texts
      PROVE  [version |-> v, kind |-> "diff", from |-> base, to |-> t] \in SnapshotRow
  BY DEF SnapshotRow, Texts
<1> QED BY <1>1, <1>2 DEF WithSnapshot

\* Taking a snapshot adds at most one row, which leads to the text taken.
LEMMA VersionAdded ==
  ASSUME NEW s \in Seq(Nat), NEW v \in Nat
  PROVE  /\ Append(s, v) \in Seq(Nat)
         /\ \A i \in DOMAIN Append(s, v) :
              \/ i \in DOMAIN s /\ Append(s, v)[i] = s[i]
              \/ i = Len(s) + 1 /\ i \notin DOMAIN s /\ Append(s, v)[i] = v
OBVIOUS

LEMMA AllStillIn ==
  ASSUME NEW s \in Seq(Nat), NEW v \in Nat, NEW S,
         \A i \in DOMAIN s : s[i] \in S, v \in S
  PROVE  \A i \in DOMAIN Append(s, v) : Append(s, v)[i] \in S
BY VersionAdded, Zenon

LEMMA StillNot ==
  ASSUME NEW s \in Seq(Nat), NEW v \in Nat, NEW w,
         \A i \in DOMAIN s : s[i] # w, v # w
  PROVE  \A i \in DOMAIN Append(s, v) : Append(s, v)[i] # w
BY VersionAdded, Zenon

LEMMA StillDifferent ==
  ASSUME NEW s \in Seq(Nat), NEW v \in Nat,
         \A i, j \in DOMAIN s : s[i] = s[j] => i = j,
         \A i \in DOMAIN s : s[i] # v
  PROVE  \A i, j \in DOMAIN Append(s, v) : Append(s, v)[i] = Append(s, v)[j] => i = j
<1> SUFFICES ASSUME NEW i \in DOMAIN Append(s, v), NEW j \in DOMAIN Append(s, v),
                    Append(s, v)[i] = Append(s, v)[j]
             PROVE  i = j
  OBVIOUS
<1>1. /\ (i \in DOMAIN s /\ Append(s, v)[i] = s[i]) \/ (i = Len(s) + 1 /\ Append(s, v)[i] = v)
      /\ (j \in DOMAIN s /\ Append(s, v)[j] = s[j]) \/ (j = Len(s) + 1 /\ Append(s, v)[j] = v)
  BY VersionAdded, Zenon
<1> QED BY <1>1, Zenon

LEMMA SnapshotAdded ==
  ASSUME NEW rows, NEW v, NEW t
  PROVE  \/ WithSnapshot(rows, v, t) = rows
         \/ \E row : WithSnapshot(rows, v, t) = Append(rows, row) /\ row.to = t
BY DEF WithSnapshot

LEMMA TypeInit == Init => TypeOK
<1> SUFFICES ASSUME Init PROVE TypeOK OBVIOUS
<1>1. heap \in [Copies -> Copy]
  BY WarmAssumption DEF Init, Copy, Blank
<1>2. cache \in [Files -> Cells]
  BY WarmAssumption DEF Init
<1>3. job \in [Procs -> JobRecord]
  BY IdleType DEF Init
<1>4. \A f \in Files : <<>> \in Seq(SnapshotRow) /\ <<>> \in Seq(Nat)
  OBVIOUS
<1> QED
  BY <1>1, <1>2, <1>3, <1>4 DEF TypeOK, NoText, Init

\* The end of a flush.
LEMMA AfterFlushType ==
  ASSUME job \in [Procs -> JobRecord], owner \in [Copies -> Procs \cup {NoProc}],
         NEW p \in Procs, NEW ok, AfterFlush(p, ok)
  PROVE  /\ job' \in [Procs -> JobRecord]
         /\ owner' \in [Copies -> Procs \cup {NoProc}]
<1>1. NoCopy \in Cells
  BY DEF Cells
<1>2. job' \in [Procs -> JobRecord]
  BY <1>1, IdleType, PcType DEF AfterFlush, Goto, Finish, JobRecord
<1> QED BY <1>2 DEF AfterFlush, Release

LEMMA TypeStep == TypeOK /\ MutexInv /\ CopyInv /\ [Next]_vars => TypeOK'
<1> SUFFICES ASSUME TypeOK, MutexInv, CopyInv, [Next]_vars PROVE TypeOK' OBVIOUS
<1> DEFINE JobsOK == job \in [Procs -> JobRecord]
           HeapOK == heap \in [Copies -> Copy]
           OwnerOK == owner \in [Copies -> Procs \cup {NoProc}]
<1>a. JobsOK /\ OwnerOK /\ NoCopy \in Cells
  BY DEF TypeOK, Cells
<1>b. HeapOK
  BY DEF TypeOK
<1>c. rowVersion \in [Files -> Nat] /\ oplog \in [Files -> SUBSET Nat]
  BY DEF TypeOK
<1>d. cache \in [Files -> Cells]
  BY DEF TypeOK
<1>e. \A p \in Procs : /\ job[p].pc # "idle" => job[p].file \in Files
                       /\ job[p].pc \in WithCell =>
                            job[p].cell \in Copies /\ heap[job[p].cell].file \in Files
                       /\ job[p].pc \in Locked =>
                            Flushed(p) \in Copies /\ heap[Flushed(p)].file \in Files
                       /\ job[p].cell \in Cells /\ job[p].seen \in Nat
  <2>1. TAKE p \in Procs
  <2>2. job[p] \in JobRecord
    BY <1>a
  <2>3. job[p].cell \in Cells /\ job[p].seen \in Nat
    BY <2>2 DEF JobRecord
  <2>4. job[p].pc # "idle" => job[p].file \in Files
    BY DEF CopyInv
  <2>5. job[p].pc \in WithCell =>
          job[p].cell \in Copies /\ heap[job[p].cell].file \in Files
    BY <2>4 DEF CopyInv, WithCell
  <2>6. job[p].pc \in Locked =>
          Flushed(p) \in Copies /\ heap[Flushed(p)].file \in Files
    BY <2>4 DEF CopyInv, MutexInv, Flushed, Locked
  <2> QED BY <2>3, <2>4, <2>5, <2>6
<1>1. ASSUME NEW c \in Clients, NEW f \in Files, ReceiveChunk(c, f) PROVE TypeOK'
  <2>1. PICK v \in 0..rowVersion[f] :
          job' = [job EXCEPT ![c] = [Idle EXCEPT
                   !.pc = IF cache[f] = NoCopy THEN "load" ELSE "lock",
                   !.file = f, !.cell = cache[f], !.base = v]]
    BY <1>1 DEF ReceiveChunk
  <2>2. v \in Nat /\ cache[f] \in Cells /\ c \in Procs
    BY <1>c, <1>d, ProcType
  <2>3. JobsOK'
    BY <1>a, <2>1, <2>2, FreshJobType, PcType, Zenon
  <2> QED BY <1>1, <2>3 DEF TypeOK, ReceiveChunk, db, store, mem, env
<1>2. ASSUME NEW c \in Clients, LoaderDo(c) PROVE TypeOK'
  <2>1. JobsOK'
    BY <1>2, <1>a, ProcType, PcType DEF LoaderDo, Goto, JobRecord
  <2>2. flight' \in [Files -> Clients \cup {NoProc}]
    BY <1>2 DEF TypeOK, LoaderDo
  <2> QED BY <1>2, <2>1, <2>2 DEF TypeOK, LoaderDo, db, store, env
<1>3. ASSUME NEW c \in Clients, FetchRow(c) PROVE TypeOK'
  <2>1. rowVersion[job[c].file] \in Nat
    BY <1>3, <1>c, <1>e, ProcType DEF FetchRow, At
  <2>2. JobsOK'
    BY <1>3, <2>1, <1>a, ProcType, PcType, SMTT(30) DEF FetchRow, JobRecord
  <2> QED BY <1>3, <2>2 DEF TypeOK, FetchRow, db, store, mem, env
<1>4. ASSUME NEW c \in Clients, ReadObject(c) PROVE TypeOK'
  <2>1. job[c].file \in Files /\ job[c].seen \in Nat
    BY <1>4, <1>e, ProcType DEF ReadObject, At
  <2>2. PICK x \in Copies :
          /\ heap' = [heap EXCEPT ![x] = [file |-> job[c].file, version |-> job[c].seen,
                                          text |-> disk[job[c].file], pending |-> 0]]
          /\ job' = [job EXCEPT ![c].pc = "add", ![c].cell = x]
    BY <1>4 DEF ReadObject, Unreferenced
  <2>3. JobsOK'
    BY <1>a, <2>2, ProcType, PcType DEF JobRecord, Cells
  <2>4. disk[job[c].file] \in SUBSET Nat
    BY <2>1 DEF TypeOK
  <2>5. HeapOK'
    BY <1>b, <2>1, <2>2, <2>4 DEF Copy
  <2> QED BY <1>4, <2>3, <2>5 DEF TypeOK, ReadObject, db, store, env
<1>5. ASSUME NEW c \in Clients, CacheAdd(c) PROVE TypeOK'
  <2>1. job[c].cell \in Cells /\ c \in Procs
    BY <1>e, ProcType
  <2>2. JobsOK'
    <3>1. PICK r : /\ \/ r = [job[c] EXCEPT !.pc = "done"]
                      \/ \E g \in Files : r = [job[c] EXCEPT !.pc = "evict", !.victim = cache[g]]
                   /\ job' = [job EXCEPT ![c] = r]
      BY <1>5, <1>a, <2>1 DEF CacheAdd, Goto
    <3>2. ASSUME NEW g \in Files PROVE [job[c] EXCEPT !.pc = "evict", !.victim = cache[g]] \in JobRecord
      <4>1. job[c] \in JobRecord /\ cache[g] \in Cells /\ "evict" \in PC
        BY <1>a, <1>d, <2>1, PcType
      <4> QED BY <4>1 DEF JobRecord
    <3>3. [job[c] EXCEPT !.pc = "done"] \in JobRecord
      <4>1. job[c] \in JobRecord /\ "done" \in PC
        BY <1>a, <2>1, PcType
      <4> QED BY <4>1 DEF JobRecord
    <3>4. r \in JobRecord
      BY <3>1, <3>2, <3>3
    <3> QED BY <1>a, <3>1, <3>4
  <2>3. cache' \in [Files -> Cells]
    BY <1>5, <1>a, <1>d, <2>1 DEF CacheAdd
  <2> QED BY <1>5, <2>2, <2>3 DEF TypeOK, CacheAdd, db, store, env
<1>6. ASSUME NEW c \in Clients, EvictLock(c) PROVE TypeOK'
  <2>1. JobsOK'
    BY <1>6, <1>a, ProcType, PcType DEF EvictLock, Goto, JobRecord
  <2>2. OwnerOK'
    BY <1>6, <1>a, ProcType DEF EvictLock, Acquire
  <2> QED BY <1>6, <2>1, <2>2 DEF TypeOK, EvictLock, db, store, env
<1>7. ASSUME NEW c \in Clients, LoadDone(c) PROVE TypeOK'
  <2>1. job[c].cell \in Cells
    BY <1>e, ProcType
  <2>2. \A p \in Procs : [job[p] EXCEPT !.pc = "lock", !.cell = job[c].cell] \in JobRecord
    BY <1>a, <2>1, JobType, PcType
  <2>3. JobsOK'
    BY <1>7, <1>a, <2>2 DEF LoadDone
  <2> QED BY <1>7, <2>3 DEF TypeOK, LoadDone, db, store, env
<1>8. ASSUME NEW c \in Clients, LoadFails(c) PROVE TypeOK'
  <2>1. JobsOK'
    BY <1>8, <1>a, IdleType DEF LoadFails
  <2>2. failures' \in Nat
    BY <1>8 DEF TypeOK, LoadFails, Fault
  <2>3. flight' \in [Files -> Clients \cup {NoProc}]
    BY <1>8 DEF TypeOK, LoadFails
  <2> QED BY <1>8, <2>1, <2>2, <2>3 DEF TypeOK, LoadFails, db, store
<1>9. ASSUME NEW c \in Clients, TransformStaleChunks(c) PROVE TypeOK'
  <2>1. heap[job[c].cell].file \in Files
    BY <1>9, <1>e, ProcType DEF TransformStaleChunks, At, WithCell
  <2>2. Concurrent(c) \in SUBSET Nat
    BY <1>c, <2>1 DEF Concurrent
  <2>3. JobsOK'
    BY <1>9, <1>a, <2>2, ProcType, PcType, IdleType DEF TransformStaleChunks, Finish, JobRecord
  <2>4. OwnerOK'
    BY <1>9, <1>a, ProcType DEF TransformStaleChunks, Acquire
  <2> QED BY <1>9, <2>3, <2>4 DEF TypeOK, TransformStaleChunks, db, store, env
<1>10. ASSUME NEW c \in Clients, PersistChunkOperation(c) PROVE TypeOK'
  <2>1. job[c].cell \in Copies /\ c \in Procs
    BY <1>10, <1>e, ProcType DEF PersistChunkOperation, At, WithCell
  <2>2. heap[job[c].cell].version + 1 \in Nat
    BY <2>1, <1>b DEF Copy
  <2>3. JobsOK'
    BY <1>10, <1>a, <2>1, PcType, IdleType DEF PersistChunkOperation, Goto, Finish, JobRecord
  <2>4. OwnerOK'
    BY <1>10, <1>a DEF PersistChunkOperation, Release
  <2>5. oplog' \in [Files -> SUBSET Nat] /\ rowVersion' \in [Files -> Nat]
    BY <1>10, <1>c, <2>2 DEF PersistChunkOperation
  <2> QED BY <1>10, <2>3, <2>4, <2>5 DEF TypeOK, PersistChunkOperation, store, env
<1>11. ASSUME NEW c \in Clients, PersistFails(c) PROVE TypeOK'
  <2>1. JobsOK' /\ OwnerOK'
    BY <1>11, <1>a, IdleType DEF PersistFails, Finish, Release
  <2> QED BY <1>11, <2>1 DEF TypeOK, PersistFails, Fault, db, store
<1>12. ASSUME NEW c \in Clients, Publish(c) PROVE TypeOK'
  <2> DEFINE x == job[c].cell
  <2>1. x \in Copies /\ heap[x].file \in Files
    BY <1>12, <1>e, ProcType DEF Publish, At, WithCell
  <2>2. heap[x].version + 1 \in Nat
    BY <2>1, <1>b DEF Copy
  <2>a. heap[x].text \cup {heap[x].version + 1} \in SUBSET Nat
    BY <1>b, <2>1, <2>2 DEF Copy
  <2>b. heap[x].pending + 1 \in Nat
    BY <1>b, <2>1 DEF Copy
  <2>3. HeapOK'
    BY <1>12, <1>b, <2>1, <2>2, <2>a, <2>b DEF Publish, Copy
  <2>4. broadcast' \in [Files -> Seq(Nat)]
    <3>1. /\ broadcast \in [Files -> Seq(Nat)]
          /\ broadcast' = [broadcast EXCEPT ![heap[x].file] = Append(@, heap[x].version + 1)]
      BY <1>12 DEF Publish, TypeOK
    <3>2. Append(broadcast[heap[x].file], heap[x].version + 1) \in Seq(Nat)
      BY <2>1, <2>2, <3>1, VersionAdded
    <3> QED BY <2>1, <3>1, <3>2
  <2>5. JobsOK' /\ OwnerOK'
    BY <1>12, <1>a, IdleType DEF Publish, Finish, Release
  <2> QED BY <1>12, <2>3, <2>4, <2>5 DEF TypeOK, Publish, db, store
<1>13. ASSUME NEW f \in Files, ProcessFile(f) PROVE TypeOK'
  <2>1. cache[f] \in Cells
    BY <1>d
  <2>2. [Idle EXCEPT !.pc = "lock", !.file = f, !.cell = cache[f]] \in JobRecord
    BY <2>1, FreshJobType, PcType, Zenon
  <2>3. JobsOK'
    BY <1>13, <1>a, <2>2 DEF ProcessFile
  <2> QED BY <1>13, <2>3 DEF TypeOK, ProcessFile, db, store, mem, env
<1>14. ASSUME SkipFile PROVE TypeOK'
  <2>1. JobsOK'
    BY <1>14, <1>a, IdleType DEF SkipFile, Finish
  <2> QED BY <1>14, <2>1 DEF TypeOK, SkipFile, db, store, mem, env
<1>15. ASSUME StartFlush PROVE TypeOK'
  <2>1. JobsOK' /\ OwnerOK'
    BY <1>15, <1>a, ProcType, PcType DEF StartFlush, Goto, Acquire, JobRecord
  <2> QED BY <1>15, <2>1 DEF TypeOK, StartFlush, db, store, env
<1>16. ASSUME CreateFileSnapshot PROVE TypeOK'
  <2> DEFINE x == job[Ticker].cell
  <2>1. x \in Copies /\ heap[x].file \in Files
    BY <1>16, <1>e, ProcType DEF CreateFileSnapshot, At, WithCell
  <2>2. heap[x].version \in Nat /\ heap[x].text \in SUBSET Nat
    BY <1>b, <2>1 DEF Copy
  <2>3. WithSnapshot(snaps[heap[x].file], heap[x].version, heap[x].text) \in Seq(SnapshotRow)
    BY <2>1, <2>2, SnapshotType DEF TypeOK
  <2>4. snaps' \in [Files -> Seq(SnapshotRow)]
    <3>1. \/ snaps' = snaps
          \/ snaps' = [snaps EXCEPT ![heap[x].file] =
                         WithSnapshot(@, heap[x].version, heap[x].text)]
      BY <1>16 DEF CreateFileSnapshot
    <3>2. snaps \in [Files -> Seq(SnapshotRow)]
      BY DEF TypeOK
    <3> QED BY <2>3, <3>1, <3>2
  <2>5. failures' \in Nat
    BY <1>16 DEF TypeOK, CreateFileSnapshot, Fault
  <2>6. JobsOK'
    BY <1>16, <1>a, ProcType, PcType DEF CreateFileSnapshot, Goto, JobRecord
  <2> QED BY <1>16, <2>4, <2>5, <2>6 DEF TypeOK, CreateFileSnapshot, store, mem
<1>17. ASSUME NEW p \in Procs, StageObject(p) PROVE TypeOK'
  <2>1. tmp' \in [Files -> SUBSET Nat] /\ fd' \in [Procs -> {"none", "tmp", "object"}]
    BY <1>17 DEF StageObject, TypeOK
  <2>2. JobsOK'
    BY <1>17, <1>a, PcType DEF StageObject, Goto, JobRecord
  <2> QED BY <1>17, <2>1, <2>2 DEF TypeOK, StageObject, db, mem, env
<1>17a. ASSUME NEW p \in Procs, CopyContent(p) PROVE TypeOK'
  <2> DEFINE x == Flushed(p)
  <2>1. x \in Copies /\ heap[x].file \in Files
    BY <1>17a, <1>e DEF CopyContent, At, Locked
  <2>2. heap[x].text \in SUBSET Nat
    BY <1>b, <2>1 DEF Copy
  <2>3. PICK t \in {heap[x].text, {}} :
          /\ tmp' = tmp \/ tmp' = [tmp EXCEPT ![heap[x].file] = t]
          /\ disk' = disk \/ disk' = [disk EXCEPT ![heap[x].file] = t]
    BY <1>17a DEF CopyContent, Written
  <2>3a. tmp' \in [Files -> SUBSET Nat] /\ disk' \in [Files -> SUBSET Nat]
    <3>1. t \in SUBSET Nat
      BY <2>2, <2>3
    <3>2. tmp \in [Files -> SUBSET Nat] /\ disk \in [Files -> SUBSET Nat]
      BY DEF TypeOK
    <3> QED BY <2>3, <3>1, <3>2
  <2>4. fd' \in [Procs -> {"none", "tmp", "object"}]
    BY <1>17a DEF CopyContent, TypeOK
  <2>5. JobsOK'
    BY <1>17a, <1>a, PcType DEF CopyContent, Goto, JobRecord
  <2> QED BY <1>17a, <2>3a, <2>4, <2>5 DEF TypeOK, CopyContent, db, mem, env
<1>18. ASSUME NEW p \in Procs, RenameObject(p) PROVE TypeOK'
  <2>1. heap[Flushed(p)].file \in Files
    BY <1>18, <1>e DEF RenameObject, At, Locked
  <2>2. tmp' \in [Files -> SUBSET Nat] /\ disk' \in [Files -> SUBSET Nat]
    BY <1>18, <2>1 DEF RenameObject, TypeOK, NoText
  <2>3. JobsOK'
    BY <1>18, <1>a, PcType DEF RenameObject, Goto, JobRecord
  <2>4. fd' \in [Procs -> {"none", "tmp", "object"}]
    BY <1>18 DEF RenameObject, AfterRename, TypeOK
  <2> QED BY <1>18, <2>2, <2>3, <2>4 DEF TypeOK, RenameObject, db, mem, env
<1>19. ASSUME NEW p \in Procs, UpdateFileHash(p) PROVE TypeOK'
  <2> DEFINE x == Flushed(p)
  <2>1. x \in Copies
    BY <1>19, <1>e DEF UpdateFileHash, At, Locked
  <2>2. heap[x].text \in SUBSET Nat
    BY <1>b, <2>1 DEF Copy
  <2>3. rowHash' \in [Files -> SUBSET Nat]
    BY <1>19, <2>2 DEF UpdateFileHash, TypeOK
  <2>4. HeapOK'
    BY <1>19, <1>b, <2>1 DEF UpdateFileHash, Copy
  <2>5. JobsOK' /\ OwnerOK'
    BY <1>19, <1>a, AfterFlushType DEF UpdateFileHash
  <2> QED BY <1>19, <2>3, <2>4, <2>5 DEF TypeOK, UpdateFileHash, store, env
<1>20. ASSUME NEW p \in Procs, FlushFails(p) PROVE TypeOK'
  <2>1. JobsOK' /\ OwnerOK'
    BY <1>20, <1>a, AfterFlushType DEF FlushFails
  <2>2. failures' \in Nat
    BY <1>20 DEF TypeOK, FlushFails, Fault
  <2>3. /\ tmp' \in [Files -> SUBSET Nat] /\ disk' \in [Files -> SUBSET Nat]
        /\ fd' \in [Procs -> {"none", "tmp", "object"}]
    <3>1. CASE CopyFails(p)
      <4>1. /\ tmp' = [tmp EXCEPT ![heap[Flushed(p)].file] = NoText]
            /\ disk' = disk \/ disk' = [disk EXCEPT ![heap[Flushed(p)].file] = {}]
        BY <3>1 DEF CopyFails
      <4>2. fd' \in [Procs -> {"none", "tmp", "object"}]
        BY <3>1 DEF CopyFails, TypeOK
      <4>3. /\ NoText \in SUBSET Nat /\ {} \in SUBSET Nat
            /\ tmp \in [Files -> SUBSET Nat] /\ disk \in [Files -> SUBSET Nat]
        BY DEF TypeOK, NoText
      <4> QED BY <4>1, <4>2, <4>3
    <3>2. CASE UNCHANGED store
      BY <3>2 DEF TypeOK, store
    <3> QED BY <1>20, <3>1, <3>2 DEF FlushFails, store
  <2> QED BY <1>20, <2>1, <2>2, <2>3 DEF TypeOK, FlushFails, db
<1>21. ASSUME NEW r \in Readers, NEW f \in Files, RequestFile(r, f) PROVE TypeOK'
  <2>1. [Idle EXCEPT !.pc = "get", !.file = f, !.seen = rowVersion[f]] \in JobRecord
    BY <1>a, <1>c, FreshJobType, PcType, Zenon
  <2>2. JobsOK'
    BY <1>21, <1>a, <2>1, ProcType DEF RequestFile
  <2> QED BY <1>21, <2>2 DEF TypeOK, RequestFile, db, store, mem, env
<1>22. ASSUME NEW r \in Readers, LookUpCopy(r) PROVE TypeOK'
  <2>1. job[r].file \in Files
    BY <1>22, <1>e, ProcType DEF LookUpCopy, At
  <2>2. cache[job[r].file] \in Cells
    BY <1>d, <2>1
  <2>3. JobsOK'
    BY <1>22, <1>a, <2>2, ProcType, PcType DEF LookUpCopy, JobRecord
  <2> QED BY <1>22, <2>3 DEF TypeOK, LookUpCopy, db, store, mem, env
<1>23. ASSUME NEW r \in Readers, LockForRead(r) PROVE TypeOK'
  <2>1. JobsOK' /\ OwnerOK'
    BY <1>23, <1>a, ProcType, PcType DEF LockForRead, Goto, Acquire, JobRecord
  <2> QED BY <1>23, <2>1 DEF TypeOK, LockForRead, db, store, env
<1>24. ASSUME NEW r \in Readers, ReplyFile(r) PROVE TypeOK'
  <2>1. job[r].file \in Files /\ job[r].seen \in Nat
    BY <1>24, <1>e, ProcType DEF ReplyFile, At
  <2>2. disk[job[r].file] \in SUBSET Nat
    BY <2>1 DEF TypeOK
  <2>a. [file |-> job[r].file, version |-> job[r].seen, text |-> disk[job[r].file]]
          \in [file : Files \cup {NoFile}, version : Nat, text : SUBSET Nat]
    BY <2>1, <2>2
  <2>b. reply \in [Readers -> [file : Files \cup {NoFile}, version : Nat, text : SUBSET Nat]]
    BY DEF TypeOK
  <2>3. reply' \in [Readers -> [file : Files \cup {NoFile}, version : Nat, text : SUBSET Nat]]
    BY <1>24, <2>a, <2>b DEF ReplyFile
  <2>4. failures' \in Nat
    BY <1>24 DEF TypeOK, ReplyFile, Fault
  <2>5. JobsOK'
    BY <1>24, <1>a, IdleType DEF ReplyFile, Finish
  <2> QED BY <1>24, <2>3, <2>4, <2>5 DEF TypeOK, ReplyFile, db, store, mem
<1>25. ASSUME PurgeCache PROVE TypeOK'
  BY <1>25 DEF TypeOK, PurgeCache, store, mem, env
<1>26. ASSUME Crash PROVE TypeOK'
  <2>1. HeapOK' /\ OwnerOK' /\ JobsOK'
    BY <1>26, IdleType DEF Crash, Copy, Blank
  <2>2. /\ cache' \in [Files -> Cells] /\ crashes' \in Nat
        /\ fd' \in [Procs -> {"none", "tmp", "object"}]
    BY <1>26, <1>a DEF Crash, TypeOK
  <2> QED BY <1>26, <2>1, <2>2 DEF TypeOK, Crash, db, store
<1>27. ASSUME UNCHANGED vars PROVE TypeOK'
  BY <1>27 DEF TypeOK, vars, db, store, mem, env
<1> QED
  BY <1>1, <1>2, <1>3, <1>4, <1>5, <1>6, <1>7, <1>8, <1>9, <1>10, <1>11, <1>12,
     <1>13, <1>14, <1>15, <1>16, <1>17, <1>17a, <1>18, <1>19, <1>20, <1>21, <1>22, <1>23,
     <1>24, <1>25, <1>26, <1>27
  DEF Next, HandlerStep, FlushStep, DownloadStep, TickerStep

-------------------------------------------------------------------------------
(* Mutual exclusion *)

\* A goroutine in a critical section still owns the mutex of its copy after
\* any step, its own or another's.
LEMMA MutexStep == TypeOK /\ MutexInv /\ CopyInv /\ [Next]_vars => MutexInv'
<1> SUFFICES ASSUME TypeOK, MutexInv, CopyInv, [Next]_vars PROVE MutexInv' OBVIOUS
<1> DEFINE Safe(q) == job[q].pc \in Locked =>
                        Flushed(q) \in Copies /\ owner[Flushed(q)] = q
<1>a. job \in [Procs -> JobRecord] /\ owner \in [Copies -> Procs \cup {NoProc}]
  BY DEF TypeOK
<1>b. \A q \in Procs : Safe(q)
  BY DEF MutexInv
<1>c. \A p \in Procs : job[p].pc \in WithCell => job[p].cell \in Copies
  BY DEF CopyInv
<1>d. \A p \in Procs : job[p].pc = "evict" => job[p].victim \in Copies
  BY DEF CopyInv
<1>e. \A p \in Procs : job[p].pc \notin WithVictim => job[p].victim \notin Copies
  BY DEF CopyInv
<1>f. \A p \in Procs : job[p].victim \in Copies \/ job[p].victim = NoCopy
  BY <1>a DEF JobRecord, Cells
<1>g. NoProc \notin Procs /\ NoCopy \notin Copies
  BY ProcsAssumption
<1> SUFFICES \A q \in Procs : Safe(q)'
  BY DEF MutexInv
<1> TAKE q \in Procs
<1> USE ProcType DEF Flushed
<1>1. ASSUME NEW c \in Clients, NEW f \in Files, ReceiveChunk(c, f) PROVE Safe(q)'
  BY <1>1, <1>a, <1>b DEF ReceiveChunk, mem, Locked, JobRecord, Idle
<1>2. ASSUME NEW c \in Clients, LoaderDo(c) PROVE Safe(q)'
  BY <1>2, <1>a, <1>b DEF LoaderDo, Goto, Locked, JobRecord
<1>3. ASSUME NEW c \in Clients, FetchRow(c) PROVE Safe(q)'
  BY <1>3, <1>a, <1>b DEF FetchRow, mem, Locked, JobRecord
<1>4. ASSUME NEW c \in Clients, ReadObject(c) PROVE Safe(q)'
  BY <1>4, <1>a, <1>b DEF ReadObject, Locked, JobRecord
<1>5. ASSUME NEW c \in Clients, CacheAdd(c) PROVE Safe(q)'
  BY <1>5, <1>a, <1>b DEF CacheAdd, Goto, Locked, JobRecord
<1>6. ASSUME NEW c \in Clients, EvictLock(c) PROVE Safe(q)'
  BY <1>6, <1>a, <1>b, <1>d, <1>g DEF EvictLock, At, Free, Goto, Acquire, Locked, JobRecord
<1>7. ASSUME NEW c \in Clients, LoadDone(c) PROVE Safe(q)'
  <2>1. job'[q] = job[q] \/ job'[q].pc = "lock"
    BY <1>7, <1>a DEF LoadDone, JobRecord
  <2>2. owner' = owner
    BY <1>7 DEF LoadDone
  <2> QED BY <2>1, <2>2, <1>b DEF Locked
<1>8. ASSUME NEW c \in Clients, LoadFails(c) PROVE Safe(q)'
  BY <1>8, <1>a, <1>b DEF LoadFails, Locked, Idle
<1>9. ASSUME NEW c \in Clients, TransformStaleChunks(c) PROVE Safe(q)'
  <2>1. job[c].cell \in Copies /\ owner[job[c].cell] = NoProc /\ Flushed(c) = job[c].cell
    BY <1>9, <1>c, <1>e, <1>f DEF TransformStaleChunks, At, Free, WithCell, WithVictim
  <2>2. CASE job' = [job EXCEPT ![c] = Idle] /\ owner' = owner
    BY <2>2, <1>a, <1>b DEF Locked, Idle
  <2>3. CASE /\ job' = [job EXCEPT ![c].pc = "persist", ![c].against = Concurrent(c)]
             /\ owner' = [owner EXCEPT ![job[c].cell] = c]
    BY <2>1, <2>3, <1>a, <1>b, <1>g DEF JobRecord
  <2> QED BY <1>9, <2>2, <2>3 DEF TransformStaleChunks, Finish, Acquire
<1>10. ASSUME NEW c \in Clients, PersistChunkOperation(c) PROVE Safe(q)'
  BY <1>10, <1>a, <1>b, <1>e, <1>f
  DEF PersistChunkOperation, At, Goto, Finish, Release, Locked, WithVictim, JobRecord, Idle
<1>11. ASSUME NEW c \in Clients, PersistFails(c) PROVE Safe(q)'
  BY <1>11, <1>a, <1>b, <1>e, <1>f
  DEF PersistFails, At, Finish, Release, Locked, WithVictim, Idle
<1>12. ASSUME NEW c \in Clients, Publish(c) PROVE Safe(q)'
  <2>1. /\ job[c].pc = "publish" /\ job' = [job EXCEPT ![c] = Idle]
        /\ owner' = [owner EXCEPT ![job[c].cell] = NoProc]
    BY <1>12 DEF Publish, At, Finish, Release
  <2> QED BY <2>1, <1>a, <1>b, <1>e, <1>f DEF Locked, WithVictim, Idle
<1>13. ASSUME NEW f \in Files, ProcessFile(f) PROVE Safe(q)'
  BY <1>13, <1>a, <1>b DEF ProcessFile, mem, Locked, Idle
<1>14. ASSUME SkipFile PROVE Safe(q)'
  BY <1>14, <1>a, <1>b DEF SkipFile, mem, Finish, Locked, Idle
<1>15. ASSUME StartFlush PROVE Safe(q)'
  BY <1>15, <1>a, <1>b, <1>c, <1>e, <1>f, <1>g
  DEF StartFlush, At, Free, Goto, Acquire, Locked, WithCell, WithVictim, JobRecord
<1>16. ASSUME CreateFileSnapshot PROVE Safe(q)'
  BY <1>16, <1>a, <1>b DEF CreateFileSnapshot, At, mem, Goto, Locked, JobRecord
<1>17. ASSUME NEW p \in Procs, StageObject(p) PROVE Safe(q)'
  <2>1. job[p].pc = "stage" /\ owner' = owner /\ job' = [job EXCEPT ![p].pc = "write"]
    BY <1>17 DEF StageObject, At, mem, Goto
  <2> QED BY <2>1, <1>a, <1>b DEF Locked, JobRecord
<1>17a. ASSUME NEW p \in Procs, CopyContent(p) PROVE Safe(q)'
  <2>1. job[p].pc = "write" /\ owner' = owner /\ job' = [job EXCEPT ![p].pc = "rename"]
    BY <1>17a DEF CopyContent, At, mem, Goto
  <2> QED BY <2>1, <1>a, <1>b DEF Locked, JobRecord
<1>18. ASSUME NEW p \in Procs, RenameObject(p) PROVE Safe(q)'
  <2>1. job[p].pc = "rename" /\ owner' = owner /\ job' = [job EXCEPT ![p].pc = "hash"]
    BY <1>18 DEF RenameObject, At, mem, Goto
  <2> QED BY <2>1, <1>a, <1>b DEF Locked, JobRecord
<1>18a. ASSUME NEW p \in Procs, NEW ok, job[p].pc \in Locked, AfterFlush(p, ok)
        PROVE  Safe(q)'
  <2>1. job'[p].pc \notin Locked /\ \A r \in Procs \ {p} : job'[r] = job[r]
    BY <1>18a, <1>a DEF AfterFlush, Goto, Finish, Locked, JobRecord, Idle
  <2>2. owner' = [owner EXCEPT ![Flushed(p)] = NoProc]
    BY <1>18a DEF AfterFlush, Release
  <2>3. Safe(p) /\ Safe(q)
    BY <1>b
  <2> QED BY <1>18a, <1>a, <2>1, <2>2, <2>3
<1>19. ASSUME NEW p \in Procs, UpdateFileHash(p) PROVE Safe(q)'
  <2>1. job[p].pc \in Locked /\ AfterFlush(p, TRUE)
    BY <1>19 DEF UpdateFileHash, At, Locked
  <2> QED BY <1>18a, <2>1, Zenon
<1>20. ASSUME NEW p \in Procs, FlushFails(p) PROVE Safe(q)'
  <2>1. job[p].pc \in Locked /\ AfterFlush(p, FALSE)
    BY <1>20 DEF FlushFails, CopyFails, At, Locked
  <2> QED BY <1>18a, <2>1, Zenon
<1>21. ASSUME NEW r \in Readers, NEW f \in Files, RequestFile(r, f) PROVE Safe(q)'
  BY <1>21, <1>a, <1>b DEF RequestFile, mem, Locked, Idle
<1>22. ASSUME NEW r \in Readers, LookUpCopy(r) PROVE Safe(q)'
  BY <1>22, <1>a, <1>b DEF LookUpCopy, mem, Locked, JobRecord
<1>23. ASSUME NEW r \in Readers, LockForRead(r) PROVE Safe(q)'
  BY <1>23, <1>a, <1>b, <1>c, <1>e, <1>f, <1>g
  DEF LockForRead, At, Free, Goto, Acquire, Locked, WithCell, WithVictim, JobRecord
<1>24. ASSUME NEW r \in Readers, ReplyFile(r) PROVE Safe(q)'
  BY <1>24, <1>a, <1>b DEF ReplyFile, mem, Finish, Locked, Idle
<1>25. ASSUME PurgeCache PROVE Safe(q)'
  BY <1>25, <1>b DEF PurgeCache, mem
<1>26. ASSUME Crash PROVE Safe(q)'
  BY <1>26 DEF Crash, Locked, Idle
<1>27. ASSUME UNCHANGED vars PROVE Safe(q)'
  BY <1>27, <1>b DEF vars, mem
<1> QED
  BY <1>1, <1>2, <1>3, <1>4, <1>5, <1>6, <1>7, <1>8, <1>9, <1>10, <1>11, <1>12,
     <1>13, <1>14, <1>15, <1>16, <1>17, <1>17a, <1>18, <1>19, <1>20, <1>21, <1>22, <1>23,
     <1>24, <1>25, <1>26, <1>27
  DEF Next, HandlerStep, FlushStep, DownloadStep, TickerStep

-------------------------------------------------------------------------------
(* What each variable's changes come from *)

\* The cached copies change when one is loaded, edited, flushed or lost.
LEMMA HeapFrame ==
  ASSUME [Next]_vars
  PROVE  \/ heap' = heap
         \/ \E c \in Clients : ReadObject(c) \/ Publish(c)
         \/ \E p \in Procs : UpdateFileHash(p)
         \/ Crash
<1> USE DEF mem, db, store, env
<1>1. ASSUME NEW c \in Clients, HandlerStep(c) PROVE heap' = heap \/ ReadObject(c) \/ Publish(c)
  BY <1>1, Zenon DEF HandlerStep, LoaderDo, FetchRow, CacheAdd, EvictLock, LoadDone,
              LoadFails, TransformStaleChunks, PersistChunkOperation, PersistFails
<1>2. ASSUME NEW p \in Procs, FlushStep(p) PROVE heap' = heap \/ UpdateFileHash(p)
  BY <1>2 DEF FlushStep, StageObject, CopyContent, RenameObject, FlushFails
<1>3. ASSUME NEW r \in Readers, DownloadStep(r) PROVE heap' = heap
  BY <1>3 DEF DownloadStep, LookUpCopy, LockForRead, ReplyFile
<1>4. TickerStep => heap' = heap
  BY DEF TickerStep, SkipFile, StartFlush, CreateFileSnapshot
<1>5. ASSUME NEW c \in Clients, NEW f \in Files, ReceiveChunk(c, f) PROVE heap' = heap
  BY <1>5 DEF ReceiveChunk
<1>6. ASSUME NEW f \in Files, ProcessFile(f) PROVE heap' = heap
  BY <1>6 DEF ProcessFile
<1>7. ASSUME NEW r \in Readers, NEW f \in Files, RequestFile(r, f) PROVE heap' = heap
  BY <1>7 DEF RequestFile
<1>8. PurgeCache \/ UNCHANGED vars => heap' = heap
  BY DEF PurgeCache, vars
<1> QED BY <1>1, <1>2, <1>3, <1>4, <1>5, <1>6, <1>7, <1>8 DEF Next

\* The version and the history change when a message is persisted or when old
\* operations are purged.
LEMMA RowFrame ==
  ASSUME [Next]_vars
  PROVE  \/ rowVersion' = rowVersion /\ oplog' = oplog
         \/ \E c \in Clients : PersistChunkOperation(c)
         \/ PurgeCache
<1> USE DEF mem, db, store, env
<1> DEFINE Same == rowVersion' = rowVersion /\ oplog' = oplog
<1>1. ASSUME NEW c \in Clients, HandlerStep(c) PROVE Same \/ PersistChunkOperation(c)
  BY <1>1, Zenon DEF HandlerStep, LoaderDo, FetchRow, ReadObject, CacheAdd, EvictLock, LoadDone,
              LoadFails, TransformStaleChunks, PersistFails, Publish
<1>2. ASSUME NEW p \in Procs, FlushStep(p) PROVE Same
  BY <1>2 DEF FlushStep, StageObject, CopyContent, RenameObject, UpdateFileHash, FlushFails
<1>3. ASSUME NEW r \in Readers, DownloadStep(r) PROVE Same
  BY <1>3 DEF DownloadStep, LookUpCopy, LockForRead, ReplyFile
<1>4. TickerStep => Same
  BY DEF TickerStep, SkipFile, StartFlush, CreateFileSnapshot
<1>5. ASSUME NEW c \in Clients, NEW f \in Files, ReceiveChunk(c, f) PROVE Same
  BY <1>5 DEF ReceiveChunk
<1>6. ASSUME NEW f \in Files, ProcessFile(f) PROVE Same
  BY <1>6 DEF ProcessFile
<1>7. ASSUME NEW r \in Readers, NEW f \in Files, RequestFile(r, f) PROVE Same
  BY <1>7 DEF RequestFile
<1>8. Crash \/ UNCHANGED vars => Same
  BY DEF Crash, vars
<1> QED BY <1>1, <1>2, <1>3, <1>4, <1>5, <1>6, <1>7, <1>8 DEF Next

\* The broadcast and the snapshots and the store change at one step each.
LEMMA OutputFrame ==
  ASSUME [Next]_vars
  PROVE  /\ broadcast' = broadcast \/ \E c \in Clients : Publish(c)
         /\ snaps' = snaps \/ CreateFileSnapshot
         /\ \/ disk' = disk /\ tmp' = tmp
            \/ \E p \in Procs :
                 StageObject(p) \/ CopyContent(p) \/ RenameObject(p) \/ FlushFails(p)
<1> USE DEF mem, db, store, env
<1> DEFINE Same == broadcast' = broadcast /\ snaps' = snaps /\ disk' = disk /\ tmp' = tmp
<1>1. ASSUME NEW c \in Clients, HandlerStep(c)
      PROVE  Same \/ (Publish(c) /\ snaps' = snaps /\ disk' = disk /\ tmp' = tmp)
  BY <1>1, Zenon DEF HandlerStep, LoaderDo, FetchRow, ReadObject, CacheAdd, EvictLock, LoadDone,
              LoadFails, TransformStaleChunks, PersistChunkOperation, PersistFails, Publish
<1>2. ASSUME NEW p \in Procs, FlushStep(p)
      PROVE  /\ broadcast' = broadcast /\ snaps' = snaps
             /\ \/ disk' = disk /\ tmp' = tmp
                \/ StageObject(p) \/ CopyContent(p) \/ RenameObject(p) \/ FlushFails(p)
  BY <1>2 DEF FlushStep, StageObject, CopyContent, RenameObject, UpdateFileHash, FlushFails
<1>3. ASSUME NEW r \in Readers, DownloadStep(r) PROVE Same
  BY <1>3 DEF DownloadStep, LookUpCopy, LockForRead, ReplyFile
<1>4. TickerStep => (broadcast' = broadcast /\ disk' = disk /\ tmp' = tmp)
                    /\ (snaps' = snaps \/ CreateFileSnapshot)
  BY DEF TickerStep, SkipFile, StartFlush, CreateFileSnapshot
<1>5. ASSUME NEW c \in Clients, NEW f \in Files, ReceiveChunk(c, f) PROVE Same
  BY <1>5 DEF ReceiveChunk
<1>6. ASSUME NEW f \in Files, ProcessFile(f) PROVE Same
  BY <1>6 DEF ProcessFile
<1>7. ASSUME NEW r \in Readers, NEW f \in Files, RequestFile(r, f) PROVE Same
  BY <1>7 DEF RequestFile
<1>8. PurgeCache \/ Crash \/ UNCHANGED vars => Same
  BY DEF PurgeCache, Crash, vars
<1> QED BY <1>1, <1>2, <1>3, <1>4, <1>5, <1>6, <1>7, <1>8 DEF Next

\* While something points to a copy it stays a copy of the same file, but for
\* a crash.
LEMMA FileKept ==
  ASSUME TypeOK, MutexInv, CopyInv, [Next]_vars, ~Crash,
         NEW x \in Copies, x \notin Unreferenced
  PROVE  heap'[x].file = heap[x].file
<1>a. heap \in [Copies -> Copy] /\ job \in [Procs -> JobRecord]
  BY DEF TypeOK
<1>1. ASSUME NEW c \in Clients, ReadObject(c) PROVE heap'[x].file = heap[x].file
  BY <1>1, <1>a DEF ReadObject
<1>2. ASSUME NEW c \in Clients, Publish(c) PROVE heap'[x].file = heap[x].file
  <2>1. job[c].cell \in Copies
    BY <1>2, ProcType DEF CopyInv, Publish, At, WithCell
  <2> QED BY <1>2, <1>a, <2>1 DEF Publish
<1>3. ASSUME NEW p \in Procs, UpdateFileHash(p) PROVE heap'[x].file = heap[x].file
  <2>1. heap' = heap \/ heap' = [heap EXCEPT ![Flushed(p)].pending = 0]
    BY <1>3 DEF UpdateFileHash
  <2> QED BY <2>1, <1>a DEF Copy
<1> QED BY <1>1, <1>2, <1>3, HeapFrame

-------------------------------------------------------------------------------
(* Copies belong to the files they are held for *)

\* Whatever a goroutine points to after a step other than a load or a crash
\* was of the right file before it.
LEMMA JobStep ==
  ASSUME TypeOK, CopyInv, MutexInv, [Next]_vars, ~Crash,
         \A c \in Clients : ~ReadObject(c), NEW q \in Procs
  PROVE  /\ job'[q].pc # "idle" => job'[q].file \in Files
         /\ job'[q].pc \in WithCell => job'[q].cell \in Copies
         /\ job'[q].pc = "evict" => job'[q].victim \in Copies
         /\ job'[q].cell \in Copies =>
              job'[q].cell \notin Unreferenced /\ heap[job'[q].cell].file = job'[q].file
         /\ job'[q].victim \in Copies =>
              /\ job'[q].victim \notin Unreferenced
              /\ heap[job'[q].victim].file \in Files
              /\ job'[q].pc \in WithVictim /\ job'[q].cell \in Copies
<1> DEFINE Good(r) ==
             /\ r.pc # "idle" => r.file \in Files
             /\ r.pc \in WithCell => r.cell \in Copies
             /\ r.pc = "evict" => r.victim \in Copies
             /\ r.cell \in Copies => r.cell \notin Unreferenced /\ heap[r.cell].file = r.file
             /\ r.victim \in Copies => /\ r.victim \notin Unreferenced
                                       /\ heap[r.victim].file \in Files
                                       /\ r.pc \in WithVictim /\ r.cell \in Copies
<1>a. job \in [Procs -> JobRecord] /\ cache \in [Files -> Cells]
  BY DEF TypeOK
<1>b. \A p \in Procs : Good(job[p])
  BY <1>a DEF CopyInv, Unreferenced
<1>c. \A f \in Files : cache[f] \in Copies =>
        cache[f] \notin Unreferenced /\ heap[cache[f]].file = f
  BY DEF CopyInv, Unreferenced
<1>d. \A p \in Procs : job[p].victim \in Copies \/ job[p].victim = NoCopy
  BY <1>a DEF JobRecord, Cells
<1>e. NoCopy \notin Copies
  BY ProcsAssumption
<1>f. \A f \in Files : cache[f] \in Copies \/ cache[f] = NoCopy
  BY <1>a DEF Cells
<1>g. Good(Idle)
  BY <1>e DEF Idle, WithCell
<1> HIDE DEF Good
<1> SUFFICES Good(job'[q])
  BY DEF Good
<1> USE ProcType
<1>1. ASSUME NEW c \in Clients, NEW f \in Files, ReceiveChunk(c, f) PROVE Good(job'[q])
  BY <1>1, <1>a, <1>b, <1>c, <1>e, <1>f DEF ReceiveChunk, Good, Idle, WithCell, JobRecord
<1>2. ASSUME NEW c \in Clients, LoaderDo(c) PROVE Good(job'[q])
  BY <1>2, <1>a, <1>b DEF LoaderDo, At, Goto, Good, WithCell, WithVictim, JobRecord
<1>3. ASSUME NEW c \in Clients, FetchRow(c) PROVE Good(job'[q])
  BY <1>3, <1>a, <1>b DEF FetchRow, At, Good, WithCell, WithVictim, JobRecord
<1>5. ASSUME NEW c \in Clients, CacheAdd(c) PROVE Good(job'[q])
  <2>1. Good(job[c]) /\ job[c].pc = "add"
    BY <1>5, <1>b DEF CacheAdd, At
  <2>2. CASE q # c
    BY <1>5, <1>a, <1>b, <2>2 DEF CacheAdd, Goto
  <2>3. CASE job' = [job EXCEPT ![c].pc = "done"]
    BY <1>a, <1>b, <2>1, <2>3 DEF Good, WithCell, WithVictim, JobRecord
  <2>4. ASSUME NEW g \in Files, cache[g] # NoCopy,
               job' = [job EXCEPT ![c].pc = "evict", ![c].victim = cache[g]]
        PROVE  Good(job'[q])
    BY <1>a, <1>b, <1>c, <1>f, <2>1, <2>4 DEF Good, WithCell, WithVictim, JobRecord
  <2> QED BY <1>5, <2>2, <2>3, <2>4 DEF CacheAdd, Goto
<1>6. ASSUME NEW c \in Clients, EvictLock(c) PROVE Good(job'[q])
  BY <1>6, <1>a, <1>b, <1>e DEF EvictLock, At, Goto, Good, WithCell, WithVictim, JobRecord
<1>7. ASSUME NEW c \in Clients, LoadDone(c) PROVE Good(job'[q])
  <2>1. Good(job[c]) /\ job[c].pc = "done" /\ job[c].cell \in Copies
    BY <1>7, <1>b DEF LoadDone, At, Good, WithCell
  <2>2. job[q] \in JobRecord /\ Good(job[q])
    BY <1>a, <1>b
  <2>3. CASE q = c \/ q \in Joined(job[c].file)
    <3>1. job'[q] = [job[q] EXCEPT !.pc = "lock", !.cell = job[c].cell]
      BY <1>7, <2>3 DEF LoadDone
    <3>2. job[q].file = job[c].file /\ job[q].pc \in {"done", "join"}
      BY <2>1, <2>3 DEF Joined, At
    <3>3. job[q].victim \notin Copies
      BY <2>2, <3>2 DEF Good, WithVictim
    <3>4. /\ job'[q].pc = "lock" /\ job'[q].cell = job[c].cell
          /\ job'[q].file = job[c].file /\ job'[q].victim = job[q].victim
      BY <2>2, <3>1, <3>2 DEF JobRecord
    <3> QED BY <2>1, <3>3, <3>4 DEF Good
  <2>4. CASE ~(q = c \/ q \in Joined(job[c].file))
    BY <1>7, <2>2, <2>4 DEF LoadDone
  <2> QED BY <2>3, <2>4
<1>8. ASSUME NEW c \in Clients, LoadFails(c) PROVE Good(job'[q])
  BY <1>8, <1>b, <1>g DEF LoadFails
<1>9. ASSUME NEW c \in Clients, TransformStaleChunks(c) PROVE Good(job'[q])
  <2>1. CASE job' = [job EXCEPT ![c] = Idle]
    BY <2>1, <1>a, <1>b, <1>g
  <2>2. CASE job' = [job EXCEPT ![c].pc = "persist", ![c].against = Concurrent(c)]
    BY <1>9, <2>2, <1>a, <1>b
    DEF TransformStaleChunks, At, Good, WithCell, WithVictim, JobRecord
  <2> QED BY <1>9, <2>1, <2>2 DEF TransformStaleChunks, Finish
<1>10. ASSUME NEW c \in Clients, PersistChunkOperation(c) PROVE Good(job'[q])
  <2>1. CASE job' = [job EXCEPT ![c] = Idle]
    BY <2>1, <1>a, <1>b, <1>g
  <2>2. CASE job' = [job EXCEPT ![c].pc = "publish"]
    BY <1>10, <2>2, <1>a, <1>b
    DEF PersistChunkOperation, At, Good, WithCell, WithVictim, JobRecord
  <2> QED BY <1>10, <2>1, <2>2 DEF PersistChunkOperation, Finish, Goto
<1>11. ASSUME NEW c \in Clients, PersistFails(c) \/ Publish(c) PROVE Good(job'[q])
  BY <1>11, <1>a, <1>b, <1>g, Zenon DEF PersistFails, Publish, Finish
<1>13. ASSUME NEW f \in Files, ProcessFile(f) PROVE Good(job'[q])
  BY <1>13, <1>a, <1>b, <1>c, <1>e, <1>f DEF ProcessFile, Good, Idle, WithCell
<1>14. ASSUME SkipFile PROVE Good(job'[q])
  BY <1>14, <1>a, <1>b, <1>g DEF SkipFile, Finish
<1>15. ASSUME StartFlush PROVE Good(job'[q])
  BY <1>15, <1>a, <1>b DEF StartFlush, At, Goto, Good, WithCell, WithVictim, JobRecord
<1>16. ASSUME CreateFileSnapshot PROVE Good(job'[q])
  BY <1>16, <1>a, <1>b DEF CreateFileSnapshot, At, Goto, Good, WithCell, WithVictim, JobRecord
<1>17. ASSUME NEW p \in Procs, StageObject(p) PROVE Good(job'[q])
  BY <1>17, <1>a, <1>b DEF StageObject, At, Goto, Good, WithCell, WithVictim, JobRecord
<1>17a. ASSUME NEW p \in Procs, CopyContent(p) PROVE Good(job'[q])
  BY <1>17a, <1>a, <1>b DEF CopyContent, At, Goto, Good, WithCell, WithVictim, JobRecord
<1>18. ASSUME NEW p \in Procs, RenameObject(p) PROVE Good(job'[q])
  BY <1>18, <1>a, <1>b DEF RenameObject, At, Goto, Good, WithCell, WithVictim, JobRecord
<1>19. ASSUME NEW p \in Procs, NEW ok, AfterFlush(p, ok),
              job[p].pc \in {"stage", "write", "rename", "hash"}
       PROVE  Good(job'[q])
  <2>1. CASE job' = [job EXCEPT ![p] = Idle]
    BY <2>1, <1>a, <1>b, <1>g
  <2>2. CASE job[p].victim = NoCopy /\ job' = [job EXCEPT ![p].pc = "object"]
    BY <1>19, <2>2, <1>a, <1>b, <1>e DEF Good, WithCell, WithVictim, JobRecord
  <2>3. CASE job[p].victim # NoCopy
             /\ job' = [job EXCEPT ![p].pc = "done", ![p].victim = NoCopy]
    <3>1. Good(job[p]) /\ job[p].victim \in Copies
      BY <1>b, <1>d, <2>3
    <3> QED BY <2>3, <3>1, <1>a, <1>b, <1>e DEF Good, WithCell, WithVictim, JobRecord
  <2> QED BY <1>19, <2>1, <2>2, <2>3 DEF AfterFlush, Finish, Goto
<1>21. ASSUME NEW r \in Readers, NEW f \in Files, RequestFile(r, f) PROVE Good(job'[q])
  BY <1>21, <1>a, <1>b, <1>e DEF RequestFile, Good, Idle, WithCell
<1>22. ASSUME NEW r \in Readers, LookUpCopy(r) PROVE Good(job'[q])
  <2>1. Good(job[q]) /\ Good(job[r]) /\ job[r].pc = "get"
    BY <1>22, <1>b DEF LookUpCopy, At
  <2>2. CASE q # r
    BY <1>22, <1>a, <2>1, <2>2 DEF LookUpCopy
  <2>3. CASE q = r
    <3> DEFINE x == cache[job[r].file]
    <3>1. job[r].file \in Files /\ job[r].victim \notin Copies
      BY <2>1 DEF Good, WithVictim
    <3>2. x \in Copies => x \notin Unreferenced /\ heap[x].file = job[r].file
      BY <1>c, <3>1
    <3>3. x = NoCopy \/ x \in Copies
      BY <1>a, <3>1 DEF Cells
    <3>4. /\ job'[q].pc = IF x = NoCopy THEN "object" ELSE "lock"
          /\ job'[q].file = job[r].file /\ job'[q].victim = job[r].victim
          /\ job'[q].cell = x
      BY <1>22, <1>a, <2>3 DEF LookUpCopy, JobRecord
    <3> QED BY <1>e, <3>1, <3>2, <3>3, <3>4 DEF Good, WithCell, WithVictim
  <2> QED BY <2>2, <2>3
<1>23. ASSUME NEW r \in Readers, LockForRead(r) PROVE Good(job'[q])
  BY <1>23, <1>a, <1>b, SMTT(30) DEF LockForRead, At, Goto, Good, WithCell, WithVictim, JobRecord
<1>24. ASSUME NEW r \in Readers, ReplyFile(r) PROVE Good(job'[q])
  BY <1>24, <1>a, <1>b, <1>g DEF ReplyFile, Finish
<1>25. ASSUME PurgeCache \/ UNCHANGED vars PROVE Good(job'[q])
  BY <1>25, <1>b DEF PurgeCache, vars
<1>26. ASSUME NEW p \in Procs, UpdateFileHash(p) \/ FlushFails(p) PROVE Good(job'[q])
  BY <1>26, <1>19 DEF UpdateFileHash, FlushFails, CopyFails, At
<1> QED
  BY <1>1, <1>2, <1>3, <1>5, <1>6, <1>7, <1>8, <1>9, <1>10, <1>11,
     <1>13, <1>14, <1>15, <1>16, <1>17, <1>17a, <1>18, <1>21, <1>22, <1>23,
     <1>24, <1>25, <1>26
  DEF Next, HandlerStep, FlushStep, DownloadStep, TickerStep

\* After any step, every copy registered or held is of the right file.
LEMMA CopyStep == TypeOK /\ MutexInv /\ CopyInv /\ [Next]_vars => CopyInv'
<1> SUFFICES ASSUME TypeOK, MutexInv, CopyInv, [Next]_vars PROVE CopyInv' OBVIOUS
<1>a. job \in [Procs -> JobRecord] /\ cache \in [Files -> Cells] /\ heap \in [Copies -> Copy]
  BY DEF TypeOK
<1>b. NoCopy \notin Copies
  BY ProcsAssumption
<1>1. CASE Crash
  BY <1>1, <1>b DEF Crash, CopyInv, Idle, WithCell
<1>2. ASSUME NEW c \in Clients, ReadObject(c) PROVE CopyInv'
  <2>1. PICK x \in Unreferenced :
          /\ heap' = [heap EXCEPT ![x] = [file |-> job[c].file, version |-> job[c].seen,
                                          text |-> disk[job[c].file], pending |-> 0]]
          /\ job' = [job EXCEPT ![c].pc = "add", ![c].cell = x]
    BY <1>2 DEF ReadObject
  <2>2. x \in Copies /\ (\A f \in Files : cache[f] # x)
        /\ (\A p \in Procs : job[p].cell # x /\ job[p].victim # x)
    BY DEF Unreferenced
  <2>3. cache' = cache /\ job[c].pc = "read" /\ c \in Procs
    BY <1>2, ProcType DEF ReadObject, At
  <2>4. heap'[x].file = job[c].file /\ \A y \in Copies \ {x} : heap'[y] = heap[y]
    BY <1>a, <2>1, <2>2
  <2>5. \A f \in Files : cache'[f] \in Copies => heap'[cache'[f]].file = f
    BY <2>2, <2>3, <2>4 DEF CopyInv
  <2>6. ASSUME NEW p \in Procs
        PROVE  /\ job'[p].pc # "idle" => job'[p].file \in Files
               /\ job'[p].pc \in WithCell => job'[p].cell \in Copies
               /\ job'[p].pc = "evict" => job'[p].victim \in Copies
               /\ job'[p].cell \in Copies => heap'[job'[p].cell].file = job'[p].file
               /\ job'[p].victim \in Copies =>
                    /\ heap'[job'[p].victim].file \in Files
                    /\ job'[p].pc \in WithVictim /\ job'[p].cell \in Copies
    <3>1. CASE p # c
      <4>1. job'[p] = job[p]
        BY <1>a, <2>1, <3>1
      <4> QED BY <2>2, <2>4, <4>1 DEF CopyInv
    <3>2. CASE p = c
      <4>1. /\ job'[c].pc = "add" /\ job'[c].cell = x /\ job'[c].file = job[c].file
            /\ job'[c].victim = job[c].victim
        BY <1>a, <2>1, <2>3 DEF JobRecord
      <4>2. job[c].file \in Files /\ job[c].victim \notin Copies
        BY <2>3 DEF CopyInv, WithVictim
      <4> QED BY <2>2, <2>4, <3>2, <4>1, <4>2
    <3> QED BY <3>1, <3>2
  <2> QED BY <2>5, <2>6 DEF CopyInv
<1>3. ASSUME ~Crash, \A c \in Clients : ~ReadObject(c) PROVE CopyInv'
  <2>1. \A x \in Copies : x \notin Unreferenced => heap'[x].file = heap[x].file
    BY <1>3, FileKept
  <2>2. cache' = cache \/ \E c \in Clients : CacheAdd(c)
    <3>1. ASSUME NEW c \in Clients, HandlerStep(c) PROVE cache' = cache \/ CacheAdd(c)
      BY <3>1, <1>3, Zenon DEF HandlerStep, LoaderDo, FetchRow, EvictLock, LoadDone, LoadFails,
           TransformStaleChunks, PersistChunkOperation, PersistFails, Publish, mem
    <3>2. ASSUME NEW p \in Procs, FlushStep(p) PROVE cache' = cache
      BY <3>2 DEF FlushStep, StageObject, CopyContent, RenameObject, UpdateFileHash, FlushFails, mem
    <3>3. ASSUME NEW r \in Readers, DownloadStep(r) PROVE cache' = cache
      BY <3>3 DEF DownloadStep, LookUpCopy, LockForRead, ReplyFile, mem
    <3>4. TickerStep => cache' = cache
      BY DEF TickerStep, SkipFile, StartFlush, CreateFileSnapshot, mem
    <3>5. ASSUME NEW c \in Clients, NEW f \in Files, ReceiveChunk(c, f) PROVE cache' = cache
      BY <3>5 DEF ReceiveChunk, mem
    <3>6. ASSUME NEW f \in Files, ProcessFile(f) PROVE cache' = cache
      BY <3>6 DEF ProcessFile, mem
    <3>7. ASSUME NEW r \in Readers, NEW f \in Files, RequestFile(r, f) PROVE cache' = cache
      BY <3>7 DEF RequestFile, mem
    <3>8. PurgeCache \/ UNCHANGED vars => cache' = cache
      BY DEF PurgeCache, vars, mem
    <3> QED BY <1>3, <3>1, <3>2, <3>3, <3>4, <3>5, <3>6, <3>7, <3>8 DEF Next
  <2>3. \A f \in Files : cache'[f] \in Copies =>
          cache'[f] \notin Unreferenced /\ heap[cache'[f]].file = f
    <3>1. CASE cache' = cache
      BY <3>1 DEF CopyInv, Unreferenced
    <3>2. ASSUME NEW c \in Clients, CacheAdd(c)
          PROVE  \A f \in Files : cache'[f] \in Copies =>
                   cache'[f] \notin Unreferenced /\ heap[cache'[f]].file = f
      <4>1. job[c].cell \in Copies /\ heap[job[c].cell].file = job[c].file
            /\ job[c].cell \notin Unreferenced
        BY <3>2, ProcType DEF CacheAdd, At, CopyInv, WithCell, Unreferenced
      <4>2. \A f \in Files : cache'[f] = cache[f] \/ cache'[f] = NoCopy
                             \/ (f = job[c].file /\ cache'[f] = job[c].cell)
        BY <3>2, <1>a DEF CacheAdd
      <4> QED BY <1>b, <4>1, <4>2 DEF CopyInv, Unreferenced
    <3> QED BY <2>2, <3>1, <3>2
  <2>4. \A f \in Files : cache'[f] \in Copies => heap'[cache'[f]].file = f
    BY <2>1, <2>3
  <2>5. ASSUME NEW p \in Procs
        PROVE  /\ job'[p].pc # "idle" => job'[p].file \in Files
               /\ job'[p].pc \in WithCell => job'[p].cell \in Copies
               /\ job'[p].pc = "evict" => job'[p].victim \in Copies
               /\ job'[p].cell \in Copies => heap'[job'[p].cell].file = job'[p].file
               /\ job'[p].victim \in Copies =>
                    /\ heap'[job'[p].victim].file \in Files
                    /\ job'[p].pc \in WithVictim /\ job'[p].cell \in Copies
    BY <1>3, <2>1, JobStep
  <2> QED BY <2>4, <2>5 DEF CopyInv
<1> QED BY <1>1, <1>2, <1>3

LEMMA MutexCopyInit == Init => MutexInv /\ CopyInv
<1> SUFFICES ASSUME Init PROVE MutexInv /\ CopyInv OBVIOUS
<1>1. \A p \in Procs : job[p] = Idle
  BY DEF Init
<1>2. MutexInv
  BY <1>1 DEF MutexInv, Idle, Locked
<1>3. \A p \in Procs : job[p].pc = "idle" /\ job[p].cell \notin Copies /\ job[p].victim \notin Copies
  BY <1>1, ProcsAssumption DEF Idle
<1>4. ASSUME NEW f \in Files, WarmCopy[f] \in Copies PROVE heap[WarmCopy[f]].file = f
  <2> DEFINE x == WarmCopy[f]
             g == CHOOSE g \in Files : WarmCopy[g] = x
  <2>1. WarmCopy[g] = x /\ g \in Files
    OBVIOUS
  <2>2. g = f
    BY <1>4, <2>1, WarmAssumption, ProcsAssumption
  <2>3. heap[x] = [Blank EXCEPT !.file = g]
    BY <1>4 DEF Init
  <2> QED BY <2>2, <2>3 DEF Blank
<1>5. CopyInv
  BY <1>3, <1>4 DEF CopyInv, Init, WithCell
<1> QED BY <1>2, <1>5

\* Every reachable state is well typed, every goroutine in a critical section
\* owns the mutex it works under, and every copy registered or held is of the
\* file it is registered or held for.
THEOREM TypeCorrect == Spec => [](TypeOK /\ MutexInv /\ CopyInv)
<1> DEFINE Inv == TypeOK /\ MutexInv /\ CopyInv
<1>1. Init => Inv
  BY TypeInit, MutexCopyInit
<1>2. Inv /\ [Next]_vars => Inv'
  BY TypeStep, MutexStep, CopyStep
<1> QED BY <1>1, <1>2, PTL DEF Spec

-------------------------------------------------------------------------------
(* The database is ahead of memory, and versions are given once *)

\* Where the version a job has read comes from, and who gets to the two steps
\* of a handler that hold the mutex.
LEMMA JobFrame ==
  ASSUME TypeOK, CopyInv, [Next]_vars, NEW q \in Procs
  PROVE  /\ \/ job'[q].seen = 0
            \/ job'[q].seen = job[q].seen /\ job'[q].file = job[q].file
            \/ job'[q].file \in Files /\ job'[q].seen = rowVersion[job'[q].file]
         /\ job'[q].pc = "persist" =>
              job'[q] = job[q] \/ (q \in Clients /\ TransformStaleChunks(q))
         /\ job'[q].pc = "publish" =>
              job'[q] = job[q] \/ (q \in Clients /\ PersistChunkOperation(q))
<1> DEFINE Kept == job'[q].seen = job[q].seen /\ job'[q].file = job[q].file
           Read == job'[q].file \in Files /\ job'[q].seen = rowVersion[job'[q].file]
           Outside == job'[q].pc \notin {"persist", "publish"}
<1>a. job \in [Procs -> JobRecord]
  BY DEF TypeOK
<1> USE ProcType
<1>1. ASSUME NEW c \in Clients, NEW f \in Files, ReceiveChunk(c, f)
      PROVE  (job'[q].seen = 0 /\ Outside) \/ job'[q] = job[q]
  BY <1>1, <1>a DEF ReceiveChunk, Idle
<1>2. ASSUME NEW c \in Clients, LoaderDo(c) PROVE (Kept /\ Outside) \/ job'[q] = job[q]
  BY <1>2, <1>a DEF LoaderDo, Goto, JobRecord
<1>3. ASSUME NEW c \in Clients, FetchRow(c) PROVE (Read /\ Outside) \/ job'[q] = job[q]
  <2>1. job[c].file \in Files
    BY <1>3 DEF CopyInv, FetchRow, At
  <2> QED BY <1>3, <1>a, <2>1 DEF FetchRow, JobRecord
<1>4. ASSUME NEW c \in Clients, ReadObject(c) PROVE (Kept /\ Outside) \/ job'[q] = job[q]
  BY <1>4, <1>a DEF ReadObject, JobRecord
<1>5. ASSUME NEW c \in Clients, CacheAdd(c) PROVE (Kept /\ Outside) \/ job'[q] = job[q]
  BY <1>5, <1>a DEF CacheAdd, Goto, JobRecord
<1>6. ASSUME NEW c \in Clients, EvictLock(c) PROVE (Kept /\ Outside) \/ job'[q] = job[q]
  BY <1>6, <1>a DEF EvictLock, Goto, JobRecord
<1>7. ASSUME NEW c \in Clients, LoadDone(c) PROVE (Kept /\ Outside) \/ job'[q] = job[q]
  <2>1. CASE q = c \/ q \in Joined(job[c].file)
    <3>1. job'[q] = [job[q] EXCEPT !.pc = "lock", !.cell = job[c].cell]
      BY <1>7, <2>1 DEF LoadDone
    <3> QED BY <1>a, <3>1 DEF JobRecord
  <2>2. CASE ~(q = c \/ q \in Joined(job[c].file))
    BY <1>7, <2>2 DEF LoadDone
  <2> QED BY <2>1, <2>2
<1>8. ASSUME NEW c \in Clients, LoadFails(c)
      PROVE  (job'[q].seen = 0 /\ Outside) \/ job'[q] = job[q]
  BY <1>8, <1>a DEF LoadFails, Idle
<1>9. ASSUME NEW c \in Clients, TransformStaleChunks(c)
      PROVE  \/ job'[q].seen = 0 /\ Outside
             \/ Kept /\ q = c /\ job'[q].pc # "publish"
             \/ job'[q] = job[q]
  <2>1. CASE job' = [job EXCEPT ![c] = Idle]
    BY <2>1, <1>a DEF Idle
  <2>2. CASE job' = [job EXCEPT ![c].pc = "persist", ![c].against = Concurrent(c)]
    BY <2>2, <1>a DEF JobRecord
  <2> QED BY <1>9, <2>1, <2>2 DEF TransformStaleChunks, Finish
<1>10. ASSUME NEW c \in Clients, PersistChunkOperation(c)
       PROVE  \/ job'[q].seen = 0 /\ Outside
              \/ Kept /\ q = c /\ job'[q].pc # "persist"
              \/ job'[q] = job[q]
  <2>1. CASE job' = [job EXCEPT ![c] = Idle]
    BY <2>1, <1>a DEF Idle
  <2>2. CASE job' = [job EXCEPT ![c].pc = "publish"]
    BY <2>2, <1>a DEF JobRecord
  <2> QED BY <1>10, <2>1, <2>2 DEF PersistChunkOperation, Finish, Goto
<1>11. ASSUME NEW p \in Procs, Finish(p)
       PROVE  (job'[q].seen = 0 /\ Outside) \/ job'[q] = job[q]
  BY <1>11, <1>a DEF Finish, Idle
<1>12. ASSUME NEW c \in Clients, PersistFails(c) \/ Publish(c)
       PROVE  (job'[q].seen = 0 /\ Outside) \/ job'[q] = job[q]
  BY <1>11, <1>12, Zenon DEF PersistFails, Publish
<1>13. ASSUME NEW f \in Files, ProcessFile(f)
       PROVE  (job'[q].seen = 0 /\ Outside) \/ job'[q] = job[q]
  BY <1>13, <1>a DEF ProcessFile, Idle
<1>14. ASSUME SkipFile PROVE (job'[q].seen = 0 /\ Outside) \/ job'[q] = job[q]
  BY <1>11, <1>14 DEF SkipFile
<1>15. ASSUME StartFlush \/ CreateFileSnapshot PROVE (Kept /\ Outside) \/ job'[q] = job[q]
  BY <1>15, <1>a DEF StartFlush, CreateFileSnapshot, Goto, JobRecord
<1>16. ASSUME NEW p \in Procs, StageObject(p) \/ CopyContent(p) \/ RenameObject(p)
       PROVE  (Kept /\ Outside) \/ job'[q] = job[q]
  BY <1>16, <1>a DEF StageObject, CopyContent, RenameObject, Goto, JobRecord
<1>17. ASSUME NEW p \in Procs, NEW ok, AfterFlush(p, ok)
       PROVE  \/ job'[q].seen = 0 /\ Outside
              \/ Kept /\ Outside
              \/ job'[q] = job[q]
  <2>1. CASE Finish(p)
    BY <1>11, <2>1
  <2>2. CASE job' = [job EXCEPT ![p].pc = "object"]
    BY <2>2, <1>a DEF JobRecord
  <2>3. CASE job' = [job EXCEPT ![p].pc = "done", ![p].victim = NoCopy]
    BY <2>3, <1>a DEF JobRecord
  <2> QED BY <1>17, <2>1, <2>2, <2>3 DEF AfterFlush, Goto
<1>18. ASSUME NEW p \in Procs, UpdateFileHash(p) \/ FlushFails(p)
       PROVE  \/ job'[q].seen = 0 /\ Outside
              \/ Kept /\ Outside
              \/ job'[q] = job[q]
  BY <1>17, <1>18 DEF UpdateFileHash, FlushFails
<1>19. ASSUME NEW r \in Readers, NEW f \in Files, RequestFile(r, f)
       PROVE  (Read /\ Outside) \/ job'[q] = job[q]
  BY <1>19, <1>a DEF RequestFile, Idle
<1>20. ASSUME NEW r \in Readers, LookUpCopy(r) \/ LockForRead(r)
       PROVE  (Kept /\ Outside) \/ job'[q] = job[q]
  BY <1>20, <1>a DEF LookUpCopy, LockForRead, Goto, JobRecord
<1>21. ASSUME NEW r \in Readers, ReplyFile(r)
       PROVE  (job'[q].seen = 0 /\ Outside) \/ job'[q] = job[q]
  BY <1>11, <1>21 DEF ReplyFile
<1>22. PurgeCache \/ UNCHANGED vars => job'[q] = job[q]
  BY DEF PurgeCache, vars
<1>23. Crash => job'[q].seen = 0 /\ Outside
  BY DEF Crash, Idle
<1> QED
  BY <1>1, <1>2, <1>3, <1>4, <1>5, <1>6, <1>7, <1>8, <1>9, <1>10, <1>12, <1>13, <1>14,
     <1>15, <1>16, <1>18, <1>19, <1>20, <1>21, <1>22, <1>23
  DEF Next, HandlerStep, FlushStep, DownloadStep, TickerStep

\* A transaction that commits gives the version after the file's: the primary
\* key of operations turns away a copy that is behind.
LEMMA PersistStep ==
  ASSUME TypeOK, CopyInv, HistoryComplete, AheadInv,
         NEW c \in Clients, PersistChunkOperation(c)
  PROVE  LET x == job[c].cell
             f == heap[x].file
         IN  /\ x \in Copies /\ f \in Files
             /\ \/ rowVersion' = rowVersion /\ oplog' = oplog /\ job'[c] = Idle
                \/ /\ heap[x].version = rowVersion[f]
                   /\ rowVersion' = [rowVersion EXCEPT ![f] = rowVersion[f] + 1]
                   /\ oplog' = [oplog EXCEPT ![f] = oplog[f] \cup {rowVersion[f] + 1}]
                   /\ job' = [job EXCEPT ![c].pc = "publish"]
<1> DEFINE x == job[c].cell
           f == heap[x].file
<1>1. x \in Copies /\ f \in Files
  BY ProcType DEF PersistChunkOperation, At, CopyInv, WithCell
<1>2. heap[x].version \in Nat /\ rowVersion[f] \in Nat
  BY <1>1 DEF TypeOK, Copy
<1>3. heap[x].version <= rowVersion[f]
  BY <1>1 DEF AheadInv
<1>4. oplog[f] = 1..rowVersion[f]
  BY <1>1 DEF HistoryComplete, Complete
<1>5. CASE heap[x].version + 1 \notin oplog[f]
  <2>1. heap[x].version = rowVersion[f]
    BY <1>2, <1>3, <1>4, <1>5
  <2> QED BY <1>1, <1>5, <2>1 DEF PersistChunkOperation, Goto
<1>6. CASE heap[x].version + 1 \in oplog[f]
  <2>1. job \in [Procs -> JobRecord] /\ c \in Procs
    BY ProcType DEF TypeOK
  <2> QED BY <1>1, <1>6, <2>1 DEF PersistChunkOperation, Finish
<1> QED BY <1>5, <1>6

\* The version of a file never goes down and never skips.
LEMMA RowStep ==
  ASSUME TypeOK, CopyInv, HistoryComplete, AheadInv, [Next]_vars, NEW f \in Files
  PROVE  /\ rowVersion'[f] \in {rowVersion[f], rowVersion[f] + 1}
         /\ rowVersion[f] <= rowVersion'[f]
         /\ Complete(rowVersion[f]) \subseteq Complete(rowVersion'[f])
<1>1. rowVersion \in [Files -> Nat]
  BY DEF TypeOK
<1>2. rowVersion'[f] \in {rowVersion[f], rowVersion[f] + 1}
  <2>1. ASSUME NEW c \in Clients, PersistChunkOperation(c)
        PROVE  rowVersion'[f] \in {rowVersion[f], rowVersion[f] + 1}
    BY <1>1, <2>1, PersistStep
  <2>2. PurgeCache => rowVersion' = rowVersion
    BY DEF PurgeCache
  <2> QED BY <2>1, <2>2, RowFrame
<1> QED BY <1>1, <1>2 DEF Complete

LEMMA HistoryStep ==
  ~Purging /\ TypeOK /\ CopyInv /\ HistoryComplete /\ AheadInv /\ [Next]_vars
    => HistoryComplete'
<1> SUFFICES ASSUME ~Purging, TypeOK, CopyInv, HistoryComplete, AheadInv, [Next]_vars
             PROVE  HistoryComplete'
  OBVIOUS
<1>1. rowVersion \in [Files -> Nat] /\ oplog \in [Files -> SUBSET Nat]
  BY DEF TypeOK
<1>2. ASSUME NEW c \in Clients, PersistChunkOperation(c) PROVE HistoryComplete'
  <2> DEFINE g == heap[job[c].cell].file
  <2>1. CASE rowVersion' = rowVersion /\ oplog' = oplog
    BY <2>1 DEF HistoryComplete, Complete
  <2>2. CASE /\ g \in Files
             /\ rowVersion' = [rowVersion EXCEPT ![g] = rowVersion[g] + 1]
             /\ oplog' = [oplog EXCEPT ![g] = oplog[g] \cup {rowVersion[g] + 1}]
    <3>1. ASSUME NEW f \in Files PROVE oplog'[f] = Complete(rowVersion'[f])
      <4>1. CASE f # g
        BY <1>1, <2>2, <4>1 DEF HistoryComplete
      <4>2. CASE f = g
        <5>1. oplog'[f] = 1..rowVersion[f] \cup {rowVersion[f] + 1}
          BY <1>1, <2>2, <4>2 DEF HistoryComplete, Complete
        <5>2. rowVersion'[f] = rowVersion[f] + 1 /\ rowVersion[f] \in Nat
          BY <1>1, <2>2, <4>2
        <5> QED BY <5>1, <5>2 DEF Complete
      <4> QED BY <4>1, <4>2
    <3> QED BY <3>1 DEF HistoryComplete, Complete
  <2> QED BY <1>2, <2>1, <2>2, PersistStep
<1>3. CASE rowVersion' = rowVersion /\ oplog' = oplog
  BY <1>3 DEF HistoryComplete, Complete
<1> QED BY <1>2, <1>3, RowFrame DEF PurgeCache

LEMMA AheadStep ==
  ASSUME TypeOK, MutexInv, CopyInv, HistoryComplete, AheadInv, PublishInv, [Next]_vars
  PROVE  AheadInv'
<1> DEFINE CopyBehind(x) == heap[x].file \in Files =>
             /\ heap[x].version <= rowVersion[heap[x].file]
             /\ heap[x].text \subseteq Complete(rowVersion[heap[x].file])
<1>a. /\ rowVersion \in [Files -> Nat] /\ rowVersion' \in [Files -> Nat]
      /\ heap \in [Copies -> Copy] /\ disk \in [Files -> SUBSET Nat]
      /\ tmp \in [Files -> SUBSET Nat] /\ job \in [Procs -> JobRecord]
      /\ job' \in [Procs -> JobRecord]
  BY TypeStep DEF TypeOK
<1>b. \A f \in Files : /\ rowVersion[f] <= rowVersion'[f]
                       /\ Complete(rowVersion[f]) \subseteq Complete(rowVersion'[f])
  BY RowStep
<1>c. \A x \in Copies : CopyBehind(x)
  BY DEF AheadInv
<1>d. \A p \in Procs : job[p].pc \in Locked =>
        /\ Flushed(p) \in Copies /\ heap[Flushed(p)].file \in Files
  <2> TAKE p \in Procs
  <2>1. job[p].pc \in Locked => job[p].file \in Files
    BY DEF CopyInv, Locked
  <2> QED BY <2>1 DEF MutexInv, CopyInv, Flushed, Locked
<1>e. \A p \in Procs : job[p].pc \in WithCell =>
        /\ job[p].cell \in Copies /\ heap[job[p].cell].file \in Files
  <2> TAKE p \in Procs
  <2>1. job[p].pc \in WithCell => job[p].file \in Files
    BY DEF CopyInv, WithCell
  <2> QED BY <2>1 DEF CopyInv
<1>1. ASSUME NEW x \in Copies PROVE CopyBehind(x)'
  <2>1. CASE heap'[x].file = heap[x].file /\ heap'[x].version = heap[x].version
             /\ heap'[x].text = heap[x].text
    <3>1. CASE heap[x].file \in Files
      <4>1. /\ rowVersion[heap[x].file] \in Nat /\ rowVersion'[heap[x].file] \in Nat
            /\ heap[x].version \in Nat
        BY <1>a, <3>1 DEF Copy
      <4> QED BY <1>b, <1>c, <2>1, <3>1, <4>1
    <3> QED BY <2>1, <3>1
  <2>2. ASSUME NEW c \in Clients, ReadObject(c) PROVE CopyBehind(x)'
    <3>1. job[c].file \in Files /\ job[c].seen <= rowVersion[job[c].file]
      BY <2>2, ProcType DEF ReadObject, At, CopyInv, AheadInv
    <3>2. disk[job[c].file] \subseteq Complete(rowVersion[job[c].file])
      BY <3>1 DEF AheadInv
    <3>3. rowVersion' = rowVersion
      BY <2>2 DEF ReadObject, db
    <3>4. \/ heap'[x] = heap[x]
          \/ heap'[x] = [file |-> job[c].file, version |-> job[c].seen,
                         text |-> disk[job[c].file], pending |-> 0]
      BY <1>a, <2>2 DEF ReadObject
    <3> QED BY <1>c, <3>1, <3>2, <3>3, <3>4
  <2>3. ASSUME NEW c \in Clients, Publish(c) PROVE CopyBehind(x)'
    <3> DEFINE y == job[c].cell
    <3>1. y \in Copies /\ heap[y].file \in Files
      BY <2>3, <1>e, ProcType DEF Publish, At, WithCell
    <3>2. heap[y].version + 1 <= rowVersion[heap[y].file]
      BY <2>3, ProcType DEF Publish, At, PublishInv
    <3>3. rowVersion' = rowVersion
      BY <2>3 DEF Publish, db
    <3>4. CASE x # y
      BY <1>a, <1>c, <2>3, <3>3, <3>4 DEF Publish
    <3>5. CASE x = y
      <4>1. /\ heap'[x].file = heap[y].file /\ heap'[x].version = heap[y].version + 1
            /\ heap'[x].text = heap[y].text \cup {heap[y].version + 1}
        BY <1>a, <2>3, <3>1, <3>5 DEF Publish
      <4>2. heap[y].version \in Nat /\ rowVersion[heap[y].file] \in Nat
        BY <1>a, <3>1 DEF Copy
      <4>3. heap[y].version + 1 \in Complete(rowVersion[heap[y].file])
        BY <3>2, <4>2 DEF Complete
      <4> QED BY <1>c, <3>1, <3>2, <3>3, <4>1, <4>3
    <3> QED BY <3>4, <3>5
  <2>4. ASSUME NEW p \in Procs, UpdateFileHash(p) PROVE CopyBehind(x)'
    <3>1. heap' = heap \/ heap' = [heap EXCEPT ![Flushed(p)].pending = 0]
      BY <2>4 DEF UpdateFileHash
    <3>2. heap'[x].file = heap[x].file /\ heap'[x].version = heap[x].version
          /\ heap'[x].text = heap[x].text
      BY <1>a, <3>1 DEF Copy
    <3> QED BY <2>1, <3>2
  <2>5. CASE Crash
    BY <2>5, ProcsAssumption DEF Crash, Blank
  <2> QED BY <2>1, <2>2, <2>3, <2>4, <2>5, HeapFrame
<1>2. ASSUME NEW f \in Files
      PROVE  /\ disk'[f] \subseteq Complete(rowVersion'[f])
             /\ tmp'[f] = NoText \/ tmp'[f] \subseteq Complete(rowVersion'[f])
  <2> DEFINE all == Complete(rowVersion'[f])
  <2>1. disk[f] \subseteq all /\ (tmp[f] = NoText \/ tmp[f] \subseteq all)
    BY <1>b DEF AheadInv
  <2>2. ASSUME NEW p \in Procs, StageObject(p) PROVE disk'[f] = disk[f] /\ tmp'[f] \in {tmp[f], {}}
    BY <1>a, <2>2 DEF StageObject
  <2>3. ASSUME NEW p \in Procs, CopyContent(p)
        PROVE  disk'[f] \subseteq all /\ (tmp'[f] = tmp[f] \/ tmp'[f] \subseteq all)
    <3> DEFINE x == Flushed(p)
    <3>1. x \in Copies /\ heap[x].file \in Files
      BY <2>3, <1>d DEF CopyContent, At, Locked
    <3>2. PICK t \in {heap[x].text, {}} :
            /\ tmp' = tmp \/ tmp' = [tmp EXCEPT ![heap[x].file] = t]
            /\ disk' = disk \/ disk' = [disk EXCEPT ![heap[x].file] = t]
      BY <2>3 DEF CopyContent, Written
    <3>3. f = heap[x].file => t \subseteq all
      BY <1>b, <1>c, <3>1
    <3> QED BY <1>a, <2>1, <3>1, <3>2, <3>3
  <2>4. ASSUME NEW p \in Procs, RenameObject(p)
        PROVE  /\ disk'[f] = disk[f] \/ (disk'[f] = tmp[f] /\ tmp[f] # NoText)
               /\ tmp'[f] \in {tmp[f], NoText}
    BY <1>a, <2>4 DEF RenameObject
  <2>5. ASSUME NEW p \in Procs, FlushFails(p)
        PROVE  disk'[f] \in {disk[f], {}} /\ tmp'[f] \in {tmp[f], NoText}
    <3>1. CASE CopyFails(p)
      BY <1>a, <3>1 DEF CopyFails
    <3> QED BY <2>5, <3>1 DEF FlushFails, store
  <2> QED BY <2>1, <2>2, <2>3, <2>4, <2>5, OutputFrame
<1>4. ASSUME NEW f \in Files, NEW i \in DOMAIN broadcast'[f]
      PROVE  broadcast'[f][i] \in Complete(rowVersion'[f])
  <2>1. \A j \in DOMAIN broadcast[f] : broadcast[f][j] \in Complete(rowVersion'[f])
    BY <1>b DEF AheadInv
  <2>2. ASSUME NEW c \in Clients, Publish(c)
        PROVE  broadcast'[f][i] \in Complete(rowVersion'[f])
    <3> DEFINE y == job[c].cell
    <3>1. y \in Copies /\ heap[y].file \in Files
      BY <2>2, <1>e, ProcType DEF Publish, At, WithCell
    <3>2. heap[y].version + 1 \in Complete(rowVersion[heap[y].file])
      <4>1. heap[y].version + 1 <= rowVersion[heap[y].file]
        BY <2>2, ProcType DEF Publish, At, PublishInv
      <4>2. heap[y].version \in Nat /\ rowVersion[heap[y].file] \in Nat
        BY <1>a, <3>1 DEF Copy
      <4> QED BY <4>1, <4>2 DEF Complete
    <3>3. broadcast[f] \in Seq(Nat)
      BY DEF TypeOK
    <3>4. CASE f # heap[y].file
      <4>1. broadcast'[f] = broadcast[f]
        BY <2>2, <3>4 DEF Publish, TypeOK
      <4> QED BY <2>1, <4>1
    <3>5. CASE f = heap[y].file
      <4>1. broadcast'[f] = Append(broadcast[f], heap[y].version + 1)
        BY <2>2, <3>5 DEF Publish, TypeOK
      <4>2. heap[y].version + 1 \in Nat
        BY <1>a, <3>1 DEF Copy
      <4>3. heap[y].version + 1 \in Complete(rowVersion'[f])
        <5>1. rowVersion' = rowVersion
          BY <2>2 DEF Publish, db
        <5> QED BY <3>2, <3>5, <5>1
      <4>4. \A k \in DOMAIN Append(broadcast[f], heap[y].version + 1) :
              Append(broadcast[f], heap[y].version + 1)[k] \in Complete(rowVersion'[f])
        BY <2>1, <3>3, <4>2, <4>3, AllStillIn, Zenon
      <4> QED BY <4>1, <4>4, Zenon
    <3> QED BY <3>4, <3>5
  <2>3. CASE broadcast' = broadcast
    BY <2>1, <2>3
  <2> QED BY <2>2, <2>3, OutputFrame
<1>5. ASSUME NEW f \in Files, NEW i \in DOMAIN snaps'[f]
      PROVE  snaps'[f][i].to \subseteq Complete(rowVersion'[f])
  <2>1. \A j \in DOMAIN snaps[f] : snaps[f][j].to \subseteq Complete(rowVersion'[f])
    BY <1>b DEF AheadInv
  <2>2. CASE snaps'[f] = snaps[f]
    BY <2>1, <2>2
  <2>3. ASSUME CreateFileSnapshot PROVE snaps'[f][i].to \subseteq Complete(rowVersion'[f])
    <3> DEFINE y == job[Ticker].cell
    <3>1. y \in Copies /\ heap[y].file \in Files
      BY <2>3, <1>e, ProcType DEF CreateFileSnapshot, At, WithCell
    <3>2. heap[y].text \subseteq Complete(rowVersion'[heap[y].file])
      BY <1>b, <1>c, <3>1
    <3>3. CASE f = heap[y].file /\ snaps'[f] # snaps[f]
      <4>1. PICK row : snaps'[f] = Append(snaps[f], row) /\ row.to = heap[y].text
        <5>1. snaps'[f] = WithSnapshot(snaps[f], heap[y].version, heap[y].text)
          BY <2>3, <3>3 DEF CreateFileSnapshot, TypeOK
        <5>2. \E row : WithSnapshot(snaps[f], heap[y].version, heap[y].text)
                         = Append(snaps[f], row) /\ row.to = heap[y].text
          <6>1. WithSnapshot(snaps[f], heap[y].version, heap[y].text) # snaps[f]
            BY <3>3, <5>1
          <6> HIDE DEF y
          <6> QED BY <6>1, SnapshotAdded
        <5> QED BY <5>1, <5>2, Zenon
      <4>2. snaps[f] \in Seq(SnapshotRow)
        BY DEF TypeOK
      <4>3. row \in SnapshotRow
        <5>1. snaps'[f] \in Seq(SnapshotRow)
          BY TypeStep DEF TypeOK
        <5>2. Len(snaps[f]) \in Nat /\ snaps'[f][Len(snaps[f]) + 1] = row
              /\ Len(snaps[f]) + 1 \in DOMAIN snaps'[f]
          BY <4>1, <4>2
        <5> QED BY <5>1, <5>2
      <4>4. \/ i \in DOMAIN snaps[f] /\ snaps'[f][i] = snaps[f][i]
            \/ snaps'[f][i] = row
        BY <4>1, <4>2, <4>3
      <4> QED BY <2>1, <3>2, <3>3, <4>1, <4>4, Zenon
    <3>4. f # heap[y].file => snaps'[f] = snaps[f]
      BY <2>3 DEF CreateFileSnapshot, TypeOK
    <3> QED BY <2>2, <3>3, <3>4
  <2> QED BY <2>2, <2>3, OutputFrame
<1>6. ASSUME NEW p \in Procs, job'[p].file \in Files
      PROVE  job'[p].seen <= rowVersion'[job'[p].file]
  <2>1. /\ rowVersion'[job'[p].file] \in Nat /\ rowVersion[job'[p].file] \in Nat
        /\ job[p].seen \in Nat
    BY <1>a, <1>6 DEF JobRecord
  <2>2. rowVersion[job'[p].file] <= rowVersion'[job'[p].file]
    BY <1>b, <1>6
  <2>3. CASE job'[p].seen = job[p].seen /\ job'[p].file = job[p].file
    <3>1. job[p].seen <= rowVersion[job[p].file]
      BY <1>6, <2>3 DEF AheadInv
    <3> QED BY <2>1, <2>2, <2>3, <3>1
  <2> QED BY <2>1, <2>2, <2>3, JobFrame
<1> QED BY <1>1, <1>2, <1>4, <1>5, <1>6 DEF AheadInv, Complete

\* Nobody else touches the copy a handler is about to write from.
LEMMA VersionKept ==
  ASSUME TypeOK, MutexInv, CopyInv, [Next]_vars, ~Crash, NEW p \in Procs,
         job[p].pc \in {"persist", "publish"}, ~(p \in Clients /\ Publish(p))
  PROVE  /\ job[p].cell \in Copies /\ heap[job[p].cell].file \in Files
         /\ heap'[job[p].cell].file = heap[job[p].cell].file
         /\ heap'[job[p].cell].version = heap[job[p].cell].version
<1> DEFINE x == job[p].cell
<1>a. heap \in [Copies -> Copy] /\ job \in [Procs -> JobRecord]
  BY DEF TypeOK
<1>b. ASSUME NEW q \in Procs, job[q].pc \in {"persist", "publish"}
      PROVE  job[q].cell \in Copies /\ owner[job[q].cell] = q
  <2>1. job[q].victim = NoCopy
    BY <1>a, <1>b DEF CopyInv, WithVictim, JobRecord, Cells
  <2> QED BY <1>b, <2>1 DEF MutexInv, Locked, Flushed
<1>1. x \in Copies /\ heap[x].file \in Files /\ x \notin Unreferenced
  <2>1. job[p].file \in Files /\ x \in Copies
    BY <1>b DEF CopyInv
  <2>2. x \notin Unreferenced
    BY DEF Unreferenced
  <2> QED BY <2>1, <2>2 DEF CopyInv
<1>2. ASSUME NEW c \in Clients, ReadObject(c) PROVE heap'[x] = heap[x]
  BY <1>2, <1>a, <1>1 DEF ReadObject
<1>3. ASSUME NEW c \in Clients, Publish(c) PROVE heap'[x] = heap[x]
  <2>1. job[c].cell \in Copies /\ owner[job[c].cell] = c
    BY <1>3, <1>b, ProcType, Zenon DEF Publish, At
  <2>2. owner[x] = p /\ c # p
    BY <1>3, <1>b
  <2> QED BY <1>3, <1>a, <1>1, <2>1, <2>2, Zenon DEF Publish
<1>4. ASSUME NEW q \in Procs, UpdateFileHash(q)
      PROVE  heap'[x].file = heap[x].file /\ heap'[x].version = heap[x].version
  <2>1. heap' = heap \/ heap' = [heap EXCEPT ![Flushed(q)].pending = 0]
    BY <1>4 DEF UpdateFileHash
  <2> QED BY <2>1, <1>a, <1>1 DEF Copy
<1> QED BY <1>1, <1>2, <1>3, <1>4, HeapFrame

\* A handler that is about to publish either was, and nothing of its copy has
\* changed, or has just committed the version after the one the file had.
LEMMA PublisherFrame ==
  ASSUME TypeOK, MutexInv, CopyInv, HistoryComplete, AheadInv, [Next]_vars,
         NEW p \in Procs, job'[p].pc = "publish"
  PROVE  LET x == job'[p].cell IN
         /\ x \in Copies /\ heap[x].file \in Files
         /\ heap'[x].file = heap[x].file /\ heap'[x].version = heap[x].version
         /\ job'[p].cell = job[p].cell
         /\ \/ job[p].pc = "publish"
            \/ /\ heap' = heap /\ broadcast' = broadcast
               /\ \A q \in Procs \ {p} : job'[q] = job[q]
               /\ heap[x].version = rowVersion[heap[x].file]
               /\ rowVersion'[heap[x].file] = rowVersion[heap[x].file] + 1
<1>a. job \in [Procs -> JobRecord] /\ rowVersion \in [Files -> Nat]
  BY DEF TypeOK
<1>1. CASE job'[p] = job[p]
  <2>1. ~(p \in Clients /\ Publish(p)) /\ ~Crash
    BY <1>1, <1>a DEF Publish, Finish, Crash, Idle
  <2> QED BY <1>1, <2>1, VersionKept
<1>2. CASE p \in Clients /\ PersistChunkOperation(p)
  <2>1. heap' = heap /\ broadcast' = broadcast
    BY <1>2 DEF PersistChunkOperation, env
  <2>2. job'[p] # Idle
    BY DEF Idle
  <2>3. /\ job[p].cell \in Copies /\ heap[job[p].cell].file \in Files
        /\ heap[job[p].cell].version = rowVersion[heap[job[p].cell].file]
        /\ rowVersion' = [rowVersion EXCEPT ![heap[job[p].cell].file] =
                            rowVersion[heap[job[p].cell].file] + 1]
        /\ job' = [job EXCEPT ![p].pc = "publish"]
    BY <1>2, <2>2, PersistStep
  <2>4. job'[p].cell = job[p].cell /\ \A q \in Procs \ {p} : job'[q] = job[q]
    BY <1>a, <2>3 DEF JobRecord
  <2> QED BY <1>a, <2>1, <2>3, <2>4
<1> QED BY <1>1, <1>2, JobFrame

LEMMA PublishStep ==
  ASSUME TypeOK, MutexInv, CopyInv, HistoryComplete, AheadInv, PublishInv, [Next]_vars
  PROVE  PublishInv'
<1>a. /\ rowVersion \in [Files -> Nat] /\ heap \in [Copies -> Copy]
      /\ job \in [Procs -> JobRecord] /\ broadcast \in [Files -> Seq(Nat)]
  BY DEF TypeOK
<1> SUFFICES ASSUME NEW p \in Procs, job'[p].pc = "publish"
             PROVE  LET x == job'[p].cell IN
                    /\ heap'[x].version + 1 <= rowVersion'[heap'[x].file]
                    /\ \A i \in DOMAIN broadcast'[heap'[x].file] :
                         broadcast'[heap'[x].file][i] # heap'[x].version + 1
                    /\ \A q \in Procs \ {p} :
                         job'[q].pc = "publish"
                           /\ heap'[job'[q].cell].file = heap'[x].file =>
                             heap'[job'[q].cell].version # heap'[x].version
  BY DEF PublishInv
<1> DEFINE x == job'[p].cell
           f == heap[x].file
<1>b. x \in Copies /\ f \in Files
  BY PublisherFrame
<1>c. heap'[x].file = f /\ heap'[x].version = heap[x].version /\ job[p].cell = x
  BY PublisherFrame
<1>d. heap[x].version \in Nat /\ rowVersion[f] \in Nat /\ rowVersion'[f] \in Nat
  BY <1>a, <1>b, TypeStep DEF Copy, TypeOK
<1>e. ASSUME NEW i \in DOMAIN broadcast[f] PROVE broadcast[f][i] \in 1..rowVersion[f]
  BY <1>b, <1>e DEF AheadInv, Complete
<1>f. job[p].pc = "publish" =>
        /\ heap[x].version + 1 <= rowVersion[f]
        /\ \A i \in DOMAIN broadcast[f] : broadcast[f][i] # heap[x].version + 1
        /\ \A q \in Procs \ {p} :
             job[q].pc = "publish" /\ heap[job[q].cell].file = f =>
               heap[job[q].cell].version # heap[x].version
  BY <1>c DEF PublishInv
<1> HIDE DEF x, f
<1>1. CASE job[p].pc = "publish"
  <2>1. heap[x].version + 1 <= rowVersion'[f]
    <3>1. heap[x].version + 1 <= rowVersion[f]
      BY <1>1, <1>f
    <3>2. rowVersion[f] <= rowVersion'[f]
      BY <1>b, RowStep
    <3> QED BY <1>d, <3>1, <3>2
  <2>2. \A i \in DOMAIN broadcast[f] : broadcast[f][i] # heap[x].version + 1
    BY <1>1, <1>f
  <2>3. ASSUME NEW i \in DOMAIN broadcast'[f] PROVE broadcast'[f][i] # heap[x].version + 1
    <3>1. CASE broadcast' = broadcast
      BY <2>2, <3>1
    <3>2. ASSUME NEW c \in Clients, Publish(c)
          PROVE  broadcast'[f][i] # heap[x].version + 1
      <4> DEFINE y == job[c].cell
      <4>1. job[c].pc = "publish" /\ c \in Procs /\ job'[c] = Idle
        BY <3>2, <1>a, ProcType DEF Publish, At, Finish
      <4>2. c # p
        BY <4>1 DEF Idle
      <4>3. y \in Copies /\ heap[y].version \in Nat
        BY <1>a, <4>1 DEF CopyInv, WithCell, Copy
      <4>4. heap[y].file = f => heap[y].version # heap[x].version
        BY <1>1, <1>f, <4>1, <4>2
      <4>5. CASE heap[y].file # f
        <5>1. broadcast'[f] = broadcast[f]
          BY <1>a, <1>b, <3>2, <4>5 DEF Publish
        <5> QED BY <2>2, <5>1, Zenon
      <4>6. CASE heap[y].file = f
        <5>1. broadcast'[f] = Append(broadcast[f], heap[y].version + 1)
          BY <1>a, <1>b, <3>2, <4>6 DEF Publish
        <5>2. broadcast[f] \in Seq(Nat)
          BY <1>a, <1>b
        <5>3. heap[y].version + 1 \in Nat /\ heap[y].version + 1 # heap[x].version + 1
          BY <1>d, <4>3, <4>4, <4>6
        <5>4. \A k \in DOMAIN Append(broadcast[f], heap[y].version + 1) :
                Append(broadcast[f], heap[y].version + 1)[k] # heap[x].version + 1
          BY <2>2, <5>2, <5>3, StillNot, Zenon
        <5> QED BY <5>1, <5>4, Zenon
      <4> QED BY <4>5, <4>6
    <3> QED BY <3>1, <3>2, OutputFrame
  <2>4. ASSUME NEW q \in Procs \ {p}, job'[q].pc = "publish",
               heap'[job'[q].cell].file = f
        PROVE  heap'[job'[q].cell].version # heap[x].version
    <3> DEFINE y == job'[q].cell
    <3>1. y \in Copies /\ heap'[y].version = heap[y].version /\ heap[y].file = f
          /\ job[q].cell = y
      BY <2>4, PublisherFrame
    <3>4. job[q].pc = "publish" \/ heap[y].version = rowVersion[heap[y].file]
      BY <2>4, PublisherFrame
    <3>2. CASE job[q].pc = "publish"
      BY <1>1, <1>f, <3>1, <3>2
    <3>3. CASE heap[y].version = rowVersion[f]
      <4>1. heap[x].version + 1 <= rowVersion[f]
        BY <1>1, <1>f
      <4> QED BY <1>d, <3>1, <3>3, <4>1
    <3> QED BY <3>1, <3>2, <3>3, <3>4
  <2> QED BY <1>c, <2>1, <2>3, <2>4 DEF x
<1>2. CASE /\ heap' = heap /\ broadcast' = broadcast
           /\ \A q \in Procs \ {p} : job'[q] = job[q]
           /\ heap[x].version = rowVersion[f]
           /\ rowVersion'[f] = rowVersion[f] + 1
  <2>1. heap[x].version + 1 <= rowVersion'[f]
    BY <1>2, <1>d
  <2>2. \A i \in DOMAIN broadcast'[f] : broadcast'[f][i] # heap[x].version + 1
    BY <1>2, <1>d, <1>e
  <2>3. ASSUME NEW q \in Procs \ {p}, job'[q].pc = "publish", heap[job'[q].cell].file = f
        PROVE  heap[job'[q].cell].version # heap[x].version
    <3>1. job'[q] = job[q]
      BY <1>2
    <3>2. heap[job[q].cell].version + 1 <= rowVersion[f]
      BY <2>3, <3>1 DEF PublishInv
    <3>3. heap[job[q].cell].version \in Nat
      BY <1>a, <2>3, <3>1 DEF CopyInv, WithCell, Copy
    <3> QED BY <1>2, <1>d, <3>1, <3>2, <3>3
  <2> QED BY <1>2, <1>c, <2>1, <2>2, <2>3 DEF x
<1> QED BY <1>1, <1>2, PublisherFrame DEF x, f

LEMMA AgainstStep ==
  ASSUME TypeOK, MutexInv, CopyInv, HistoryComplete, AheadInv, AgainstInv, [Next]_vars
  PROVE  AgainstInv'
<1> DEFINE missed(v, p) == {w \in Complete(v) : w > job[p].base}
<1>a. /\ rowVersion \in [Files -> Nat] /\ heap \in [Copies -> Copy]
      /\ job \in [Procs -> JobRecord]
  BY DEF TypeOK
<1>b. \A p \in Procs : job'[p] = job[p] /\ job[p].pc \in {"persist", "publish"} =>
        ~(p \in Clients /\ Publish(p)) /\ ~Crash
  BY <1>a DEF Publish, Finish, Crash, Idle
<1> SUFFICES ASSUME NEW p \in Procs
             PROVE  LET x == job'[p].cell
                        late(v) == {w \in Complete(v) : w > job'[p].base}
                    IN
                    /\ job'[p].pc = "persist" =>
                         /\ late(heap'[x].version) \subseteq job'[p].against
                         /\ job'[p].against \subseteq late(rowVersion'[heap'[x].file])
                    /\ job'[p].pc = "publish" =>
                         job'[p].against = late(heap'[x].version)
  BY DEF AgainstInv, Complete
<1> DEFINE x == job[p].cell
           f == heap[x].file
<1>1. ASSUME job'[p] = job[p], job[p].pc \in {"persist", "publish"}
      PROVE  /\ job[p].pc = "persist" =>
                  /\ missed(heap'[x].version, p) \subseteq job[p].against
                  /\ job[p].against \subseteq missed(rowVersion'[heap'[x].file], p)
             /\ job[p].pc = "publish" => job[p].against = missed(heap'[x].version, p)
  <2>1. f \in Files /\ heap'[x].version = heap[x].version /\ heap'[x].file = f
    BY <1>1, <1>b, VersionKept
  <2>2. Complete(rowVersion[f]) \subseteq Complete(rowVersion'[f])
    BY <2>1, RowStep
  <2> QED BY <1>1, <2>1, <2>2 DEF AgainstInv
<1>2. ASSUME p \in Clients, TransformStaleChunks(p), job'[p].pc = "persist"
      PROVE  /\ job'[p].cell = x /\ job'[p].base = job[p].base
             /\ missed(heap'[x].version, p) \subseteq job'[p].against
             /\ job'[p].against \subseteq missed(rowVersion'[heap'[x].file], p)
  <2>1. /\ job' = [job EXCEPT ![p].pc = "persist", ![p].against = Concurrent(p)]
        /\ heap' = heap /\ rowVersion' = rowVersion
    <3>1. job'[p] # Idle
      BY <1>2 DEF Idle
    <3> QED BY <1>2, <1>a, <3>1 DEF TransformStaleChunks, Finish, db
  <2>2. /\ job'[p].cell = x /\ job'[p].base = job[p].base
        /\ job'[p].against = Concurrent(p)
    BY <1>a, <2>1 DEF JobRecord
  <2>3. x \in Copies /\ f \in Files /\ job[p].base \in Nat
    BY <1>2, <1>a DEF TransformStaleChunks, At, CopyInv, WithCell, JobRecord
  <2>4. heap[x].version \in Nat /\ rowVersion[f] \in Nat /\ heap[x].version <= rowVersion[f]
    BY <1>a, <2>3 DEF Copy, AheadInv
  <2>5. oplog[f] = 1..rowVersion[f]
    BY <2>3 DEF HistoryComplete, Complete
  <2>6. CASE job[p].base >= heap[x].version
    <3>1. Concurrent(p) = {}
      BY <2>6 DEF Concurrent
    <3>2. missed(heap[x].version, p) = {}
      BY <2>3, <2>4, <2>6 DEF Complete
    <3> QED BY <2>1, <2>2, <3>1, <3>2
  <2>7. CASE ~(job[p].base >= heap[x].version)
    <3>1. Concurrent(p) = {v \in 1..rowVersion[f] : v > job[p].base}
      BY <2>5, <2>7 DEF Concurrent
    <3>2. missed(heap[x].version, p) \subseteq {v \in 1..rowVersion[f] : v > job[p].base}
      BY <2>4 DEF Complete
    <3>3. missed(rowVersion[f], p) = {v \in 1..rowVersion[f] : v > job[p].base}
      BY DEF Complete
    <3> QED BY <2>1, <2>2, <3>1, <3>2, <3>3
  <2> QED BY <2>6, <2>7
<1>3. ASSUME p \in Clients, PersistChunkOperation(p), job'[p].pc = "publish"
      PROVE  /\ job'[p].cell = x /\ job'[p].base = job[p].base
             /\ job'[p].against = missed(heap'[x].version, p)
  <2>1. job[p].pc = "persist" /\ heap' = heap
    BY <1>3 DEF PersistChunkOperation, At
  <2>2. heap[x].version = rowVersion[f] /\ job' = [job EXCEPT ![p].pc = "publish"]
    <3>1. job'[p] # Idle
      BY <1>3 DEF Idle
    <3> QED BY <1>3, <3>1, PersistStep
  <2>3. /\ job'[p].cell = x /\ job'[p].base = job[p].base
        /\ job'[p].against = job[p].against
    BY <1>a, <2>2 DEF JobRecord
  <2>4. job[p].against = missed(heap[x].version, p)
    BY <2>1, <2>2 DEF AgainstInv
  <2> QED BY <2>1, <2>3, <2>4
<1>4. job'[p].pc = "persist" => job'[p] = job[p] \/ (p \in Clients /\ TransformStaleChunks(p))
  BY JobFrame
<1>5. job'[p].pc = "publish" => job'[p] = job[p] \/ (p \in Clients /\ PersistChunkOperation(p))
  BY JobFrame
<1>6. CASE job'[p] = job[p] /\ job[p].pc \in {"persist", "publish"}
  BY <1>1, <1>6
<1>7. CASE p \in Clients /\ TransformStaleChunks(p) /\ job'[p].pc = "persist"
  BY <1>2, <1>7
<1>8. CASE p \in Clients /\ PersistChunkOperation(p) /\ job'[p].pc = "publish"
  BY <1>3, <1>8
<1> QED BY <1>4, <1>5, <1>6, <1>7, <1>8

LEMMA OnceStep ==
  ASSUME TypeOK, MutexInv, CopyInv, PublishInv, NoVersionTwice, [Next]_vars
  PROVE  NoVersionTwice'
<1>1. CASE broadcast' = broadcast
  BY <1>1 DEF NoVersionTwice
<1>2. ASSUME NEW c \in Clients, Publish(c) PROVE NoVersionTwice'
  <2> DEFINE y == job[c].cell
             f == heap[y].file
             v == heap[y].version + 1
  <2>1. y \in Copies /\ f \in Files /\ v \in Nat
    <3>1. job[c].file \in Files /\ y \in Copies
      BY <1>2, ProcType DEF Publish, At, CopyInv, WithCell
    <3>2. f = job[c].file
      BY <3>1, ProcType DEF CopyInv
    <3>3. heap \in [Copies -> Copy]
      BY DEF TypeOK
    <3> QED BY <3>1, <3>2, <3>3 DEF Copy
  <2>2. \A i \in DOMAIN broadcast[f] : broadcast[f][i] # v
    BY <1>2, ProcType DEF Publish, At, PublishInv
  <2>3. ASSUME NEW g \in Files, NEW i \in DOMAIN broadcast'[g], NEW j \in DOMAIN broadcast'[g],
               broadcast'[g][i] = broadcast'[g][j]
        PROVE  i = j
    <3>1. broadcast[g] \in Seq(Nat)
      BY DEF TypeOK
    <3>2. CASE g # f
      <4>1. broadcast'[g] = broadcast[g]
        BY <1>2, <3>2 DEF Publish, TypeOK
      <4> QED BY <2>3, <4>1 DEF NoVersionTwice
    <3>3. CASE g = f
      <4>1. broadcast'[g] = Append(broadcast[g], v)
        BY <1>2, <2>1, <3>3 DEF Publish, TypeOK
      <4>2. \A k, l \in DOMAIN broadcast[g] : broadcast[g][k] = broadcast[g][l] => k = l
        BY Zenon DEF NoVersionTwice
      <4>3. \A k \in DOMAIN broadcast[g] : broadcast[g][k] # v
        BY <2>2, <3>3, Zenon
      <4>4. \A k, l \in DOMAIN Append(broadcast[g], v) :
              Append(broadcast[g], v)[k] = Append(broadcast[g], v)[l] => k = l
        BY <2>1, <3>1, <4>2, <4>3, StillDifferent, Zenon
      <4> QED BY <2>3, <4>1, <4>4, Zenon
    <3> QED BY <3>2, <3>3
  <2> QED BY <2>3 DEF NoVersionTwice
<1> QED BY <1>1, <1>2, OutputFrame

-------------------------------------------------------------------------------
(* Snapshots: what the rows rebuild *)

\* The rows of a table have a version and the text they lead to.
LEMMA RowFields ==
  ASSUME NEW rows \in Seq(SnapshotRow)
  PROVE  \A i \in DOMAIN rows : /\ rows[i] \in SnapshotRow
                                /\ rows[i].version \in Nat /\ rows[i].to \in SUBSET Nat
<1>1. \A i \in DOMAIN rows : rows[i] \in SnapshotRow
  OBVIOUS
<1>2. \A row \in SnapshotRow : row.version \in Nat /\ row.to \in SUBSET Nat
  BY DEF SnapshotRow
<1> QED BY <1>1, <1>2

\* A row leaves a text a text.
LEMMA RebuildType ==
  ASSUME NEW text \in SUBSET Nat, NEW row \in SnapshotRow, NEW version \in Nat
  PROVE  Rebuild(text, row, version) \in SUBSET Nat
BY DEF Rebuild, ApplyDiff, Garbled, NoText, SnapshotRow

\* What a reconstruction goes through, row by row.
LEMMA RebuildStages ==
  ASSUME NEW rows \in Seq(SnapshotRow), NEW version \in Nat
  PROVE  \E stage \in [0..Len(rows) -> SUBSET Nat] :
           /\ stage[0] = NoText
           /\ \A i \in 1..Len(rows) : stage[i] = Rebuild(stage[i - 1], rows[i], version)
           /\ ReconstructSnapshot(rows, version) = stage[Len(rows)]
<1> DEFINE n == Len(rows)
           step == [p \in (SUBSET Nat) \X SnapshotRow |-> Rebuild(p[1], p[2], version)]
           rec(f) == [S \in SUBSET DOMAIN rows |->
                        IF S = {} THEN NoText
                        ELSE Rebuild(f[S \ {Max(S)}], rows[Max(S)], version)]
           iter == CHOOSE f : f = rec(f)
<1>0. NoText \in SUBSET Nat
  BY DEF NoText
<1>1. n \in Nat /\ DOMAIN rows = 1..n /\ rows \in [1..n -> SnapshotRow]
  OBVIOUS
<1>2. \A a \in SUBSET Nat, e \in SnapshotRow : Rebuild(a, e, version) \in SUBSET Nat
  BY RebuildType
<1>3. step \in [(SUBSET Nat) \X SnapshotRow -> SUBSET Nat]
  BY <1>2
<1>4. \A a \in SUBSET Nat, e \in SnapshotRow : step[<<a, e>>] = Rebuild(a, e, version)
  OBVIOUS
<1>5. \A S \in SUBSET (1..n) : S # {} => Max(S) \in 1..n
  BY <1>1, Top
<1>6. iter = rec(iter)
  <2>1. PICK g \in [SUBSET (1..n) -> SUBSET Nat] : Unrolls(g, n, NoText, rows, step)
    <3> HIDE DEF n, step
    <3> QED BY <1>0, <1>1, <1>3, FoldExists
  <2>2. ASSUME NEW S \in SUBSET (1..n)
        PROVE  g[S] = IF S = {} THEN NoText ELSE Rebuild(g[S \ {Max(S)}], rows[Max(S)], version)
    <3>1. g[S] = IF S = {} THEN NoText ELSE step[<<g[S \ {Max(S)}], rows[Max(S)]>>]
      BY <2>1 DEF Unrolls
    <3>2. CASE S # {}
      <4>1. rows[Max(S)] \in SnapshotRow /\ g[S \ {Max(S)}] \in SUBSET Nat
        BY <1>1, <1>5, <3>2
      <4> HIDE DEF step
      <4> QED BY <1>4, <3>1, <3>2, <4>1
    <3> QED BY <3>1, <3>2
  <2>3. g = rec(g)
    BY <1>1, <2>2
  <2> HIDE DEF rec
  <2> QED BY <2>3
<1>7. ReconstructSnapshot(rows, version) = iter[1..n]
  <2>1. ReconstructSnapshot(rows, version) = iter[DOMAIN rows]
    BY DEF ReconstructSnapshot, FoldLeft, MapThenFoldSet
  <2> QED BY <1>1, <2>1
<1>8. iter[{}] = NoText
  BY <1>6
<1>9. ASSUME NEW S \in SUBSET (1..n), S # {}, iter[S \ {Max(S)}] \in SUBSET Nat
      PROVE  iter[S] = step[<<iter[S \ {Max(S)}], rows[Max(S)]>>]
  <2>1. iter[S] = Rebuild(iter[S \ {Max(S)}], rows[Max(S)], version)
    <3> HIDE DEF iter
    <3> QED BY <1>1, <1>6, <1>9
  <2>2. rows[Max(S)] \in SnapshotRow
    BY <1>1, <1>5, <1>9
  <2> HIDE DEF step, iter
  <2> QED BY <1>4, <1>9, <2>1, <2>2
<1>10. PICK stage \in [0..n -> SUBSET Nat] :
         Stages(stage, n, NoText, rows, step) /\ stage[n] = iter[1..n]
  <2>1. Iterates(iter, n, SUBSET Nat, NoText, rows, step)
    <3> HIDE DEF step, iter
    <3> QED BY <1>8, <1>9 DEF Iterates
  <2>2. RunsTo(n, SUBSET Nat, NoText, rows, step, iter[1..n])
    <3> HIDE DEF step, n, iter
    <3> QED BY <1>0, <1>1, <1>3, <2>1, FoldStages
  <2> HIDE DEF step, n, iter
  <2> QED BY <2>2 DEF RunsTo
<1>11. ASSUME NEW i \in 1..n
       PROVE  stage[i] = Rebuild(stage[i - 1], rows[i], version)
  <2>1. stage[i] = step[<<stage[i - 1], rows[i]>>]
    BY <1>10 DEF Stages
  <2>2. stage[i - 1] \in SUBSET Nat /\ rows[i] \in SnapshotRow
    <3>1. i - 1 \in 0..n
      BY <1>1
    <3> HIDE DEF n, iter, step
    <3> QED BY <1>1, <3>1
  <2> HIDE DEF step
  <2> QED BY <1>4, <2>1, <2>2
<1>12. stage[0] = NoText
  BY <1>10 DEF Stages
<1> HIDE DEF iter
<1> QED BY <1>7, <1>10, <1>11, <1>12

\* A reconstruction takes the last row last.
LEMMA RebuildLast ==
  ASSUME NEW rows \in Seq(SnapshotRow), NEW row \in SnapshotRow, NEW version \in Nat
  PROVE  ReconstructSnapshot(Append(rows, row), version) =
           Rebuild(ReconstructSnapshot(rows, version), row, version)
<1> DEFINE n == Len(rows)
           all == Append(rows, row)
<1>1. /\ n \in Nat /\ all \in Seq(SnapshotRow) /\ Len(all) = n + 1 /\ all[n + 1] = row
      /\ \A i \in 1..n : all[i] = rows[i]
  OBVIOUS
<1>2. PICK a \in [0..Len(rows) -> SUBSET Nat] :
        /\ a[0] = NoText
        /\ \A i \in 1..Len(rows) : a[i] = Rebuild(a[i - 1], rows[i], version)
        /\ ReconstructSnapshot(rows, version) = a[Len(rows)]
  BY RebuildStages
<1>3. PICK b \in [0..Len(all) -> SUBSET Nat] :
        /\ b[0] = NoText
        /\ \A i \in 1..Len(all) : b[i] = Rebuild(b[i - 1], all[i], version)
        /\ ReconstructSnapshot(all, version) = b[Len(all)]
  <2> HIDE DEF all
  <2> QED BY <1>1, RebuildStages
<1> HIDE DEF all
<1> DEFINE T == {k \in 0..n : a[k] = b[k]}
<1>4. 0 \in T
  BY <1>1, <1>2, <1>3
<1>5. ASSUME NEW k \in 0..(n - 1), k \in T PROVE k + 1 \in T
  <2> DEFINE m == k + 1
  <2>1. m \in 1..n /\ m \in 1..(n + 1) /\ m - 1 = k /\ m \in 0..n
    BY <1>1
  <2> HIDE DEF m
  <2>2. a[m] = Rebuild(a[k], rows[m], version) /\ b[m] = Rebuild(b[k], all[m], version)
    BY <1>1, <1>2, <1>3, <2>1
  <2> QED BY <1>1, <1>5, <2>1, <2>2 DEF m
<1>6. a[n] = b[n]
  <2> HIDE DEF T
  <2>1. \A k \in 0..(n - 1) : k \in T => k + 1 \in T
    BY <1>5
  <2>2. 0..n \subseteq T
    BY <1>1, <1>4, <2>1, UpTo
  <2>3. n \in T
    BY <1>1, <2>2
  <2> QED BY <2>3 DEF T
<1>7. b[n + 1] = Rebuild(b[n], row, version)
  <2>1. n + 1 \in 1..Len(all) /\ (n + 1) - 1 = n
    BY <1>1
  <2> QED BY <1>1, <1>3, <2>1
<1> QED BY <1>1, <1>2, <1>3, <1>6, <1>7 DEF all

\* Two versions that the same rows are up to are rebuilt alike.
LEMMA RebuildAlike ==
  ASSUME NEW rows \in Seq(SnapshotRow), NEW v \in Nat, NEW w \in Nat,
         \A i \in DOMAIN rows : rows[i].version <= v /\ rows[i].version <= w
  PROVE  ReconstructSnapshot(rows, v) = ReconstructSnapshot(rows, w)
<1> DEFINE n == Len(rows)
<1>1. n \in Nat /\ DOMAIN rows = 1..n
  OBVIOUS
<1>2. PICK a \in [0..Len(rows) -> SUBSET Nat] :
        /\ a[0] = NoText
        /\ \A i \in 1..Len(rows) : a[i] = Rebuild(a[i - 1], rows[i], v)
        /\ ReconstructSnapshot(rows, v) = a[Len(rows)]
  BY RebuildStages
<1>3. PICK b \in [0..Len(rows) -> SUBSET Nat] :
        /\ b[0] = NoText
        /\ \A i \in 1..Len(rows) : b[i] = Rebuild(b[i - 1], rows[i], w)
        /\ ReconstructSnapshot(rows, w) = b[Len(rows)]
  BY RebuildStages
<1>4. ASSUME NEW i \in 1..n, NEW text PROVE Rebuild(text, rows[i], v) = Rebuild(text, rows[i], w)
  <2>1. rows[i].version \in Nat /\ rows[i].version <= v /\ rows[i].version <= w
    BY <1>1, RowFields
  <2>2. ~(rows[i].version > v) /\ ~(rows[i].version > w)
    BY <2>1
  <2> QED BY <2>2 DEF Rebuild
<1> DEFINE T == {k \in 0..n : a[k] = b[k]}
<1>5. 0 \in T
  BY <1>1, <1>2, <1>3
<1>6. ASSUME NEW k \in 0..(n - 1), k \in T PROVE k + 1 \in T
  <2> DEFINE m == k + 1
  <2>1. m \in 1..n /\ m - 1 = k /\ m \in 0..n
    BY <1>1
  <2> HIDE DEF m
  <2>2. a[m] = Rebuild(a[k], rows[m], v) /\ b[m] = Rebuild(b[k], rows[m], w)
    BY <1>2, <1>3, <2>1
  <2> QED BY <1>4, <1>6, <2>1, <2>2 DEF m
<1>7. a[n] = b[n]
  <2> HIDE DEF T
  <2>1. \A k \in 0..(n - 1) : k \in T => k + 1 \in T
    BY <1>6
  <2>2. 0..n \subseteq T
    BY <1>1, <1>5, <2>1, UpTo
  <2>3. n \in T
    BY <1>1, <2>2
  <2> QED BY <2>3 DEF T
<1> QED BY <1>2, <1>3, <1>7

\* Every row rebuilds to the text it was taken of.
Rebuilds(rows) ==
  \A i \in DOMAIN rows : ReconstructSnapshot(rows, rows[i].version) = rows[i].to

\* The base of the next diff is the text of the newest row.
LEMMA BaseOfLast ==
  ASSUME NEW rows \in Seq(SnapshotRow), rows # <<>>, Rebuilds(rows)
  PROVE  /\ Len(rows) \in DOMAIN rows
         /\ SnapshotBase(rows) = rows[Len(rows)].to
<1>1. Len(rows) \in DOMAIN rows /\ Last(rows) = rows[Len(rows)]
  BY DEF Last
<1> QED BY <1>1 DEF SnapshotBase, Rebuilds

\* A row of a newer version changes nothing of what the rows before it rebuild.
LEMMA OlderKept ==
  ASSUME NEW rows \in Seq(SnapshotRow), NEW row \in SnapshotRow,
         InOrder(rows), Rebuilds(rows),
         \A i \in DOMAIN rows : rows[i].version < row.version,
         ReconstructSnapshot(Append(rows, row), row.version) = row.to
  PROVE  InOrder(Append(rows, row)) /\ Rebuilds(Append(rows, row))
<1> DEFINE n == Len(rows)
           all == Append(rows, row)
<1>1. /\ n \in Nat /\ DOMAIN rows = 1..n /\ DOMAIN all = 1..(n + 1) /\ all[n + 1] = row
      /\ \A i \in 1..n : all[i] = rows[i]
      /\ row.version \in Nat
  BY DEF SnapshotRow
<1>2. ASSUME NEW i \in 1..n PROVE ReconstructSnapshot(all, rows[i].version) = rows[i].to
  <2>1. rows[i].version \in Nat /\ rows[i].version < row.version
    BY <1>1, RowFields
  <2>2. row.version > rows[i].version
    BY <1>1, <2>1
  <2>3. ReconstructSnapshot(all, rows[i].version) =
          Rebuild(ReconstructSnapshot(rows, rows[i].version), row, rows[i].version)
    BY <2>1, RebuildLast
  <2>4. ReconstructSnapshot(rows, rows[i].version) = rows[i].to
    BY <1>1 DEF Rebuilds
  <2> QED BY <2>2, <2>3, <2>4 DEF Rebuild
<1>3. \A i, j \in 1..(n + 1) : i < j => i \in 1..n /\ (j \in 1..n \/ j = n + 1)
  BY <1>1
<1>4. \A i \in 1..(n + 1) : i \in 1..n \/ i = n + 1
  BY <1>1
<1> HIDE DEF all, n
<1>5. Rebuilds(all)
  <2> SUFFICES ASSUME NEW i \in 1..(n + 1)
               PROVE  ReconstructSnapshot(all, all[i].version) = all[i].to
    BY <1>1 DEF Rebuilds
  <2> QED BY <1>1, <1>2, <1>4 DEF all
<1>6. InOrder(all)
  <2> SUFFICES ASSUME NEW i \in 1..(n + 1), NEW j \in 1..(n + 1), i < j
               PROVE  all[i].version < all[j].version
    BY <1>1 DEF InOrder
  <2> QED BY <1>1, <1>3 DEF InOrder
<1> QED BY <1>5, <1>6 DEF all

\* CreateFileSnapshot on rows no newer than the copy: either nothing is stored
\* or the copy's text, which is rebuilt as every older one still is.
LEMMA SnapshotTaken ==
  ASSUME NEW rows \in Seq(SnapshotRow), NEW v \in Nat, NEW t \in SUBSET Nat,
         InOrder(rows), Rebuilds(rows),
         \A i \in DOMAIN rows : rows[i].version <= v
  PROVE  LET all == WithSnapshot(rows, v, t) IN
         /\ InOrder(all) /\ Rebuilds(all)
         /\ \A i \in DOMAIN all : all[i].version = v \/ \E j \in DOMAIN rows : all[i] = rows[j]
<1>1. CASE \E i \in DOMAIN rows : rows[i].version = v
  BY <1>1 DEF WithSnapshot
<1>2. CASE ~\E i \in DOMAIN rows : rows[i].version = v
  <2>1. \A i \in DOMAIN rows : rows[i].version < v
    BY <1>2, RowFields
  <2>2. ASSUME NEW row \in SnapshotRow, row.version = v, row.to = t,
               WithSnapshot(rows, v, t) = Append(rows, row),
               Rebuild(ReconstructSnapshot(rows, v), row, v) = t
        PROVE  LET all == WithSnapshot(rows, v, t) IN
               /\ InOrder(all) /\ Rebuilds(all)
               /\ \A i \in DOMAIN all :
                    all[i].version = v \/ \E j \in DOMAIN rows : all[i] = rows[j]
    <3>1. InOrder(Append(rows, row)) /\ Rebuilds(Append(rows, row))
      BY <2>1, <2>2, RebuildLast, OlderKept
    <3>2. \A i \in DOMAIN Append(rows, row) :
            \/ Append(rows, row)[i] = row
            \/ i \in DOMAIN rows /\ Append(rows, row)[i] = rows[i]
      OBVIOUS
    <3> QED BY <2>2, <3>1, <3>2
  <2>3. CASE NeedsFull(rows, v)
    <3> DEFINE row == [version |-> v, kind |-> "file", from |-> {}, to |-> t]
    <3>1. row \in SnapshotRow /\ row.version = v /\ row.to = t
      BY DEF SnapshotRow
    <3>2. Rebuild(ReconstructSnapshot(rows, v), row, v) = t
      BY DEF Rebuild, IsFull
    <3>3. WithSnapshot(rows, v, t) = Append(rows, row)
      BY <1>2, <2>3 DEF WithSnapshot
    <3> HIDE DEF row
    <3> QED BY <2>2, <3>1, <3>2, <3>3
  <2>4. CASE ~NeedsFull(rows, v) /\ SnapshotBase(rows) \in Texts
    <3> DEFINE base == SnapshotBase(rows)
               row == [version |-> v, kind |-> "diff", from |-> base, to |-> t]
    <3>1. row \in SnapshotRow /\ row.version = v /\ row.to = t
      BY <2>4 DEF SnapshotRow, Texts
    <3>2. rows # <<>>
      BY <2>4 DEF NeedsFull
    <3> DEFINE last == rows[Len(rows)]
    <3>3. Len(rows) \in DOMAIN rows /\ base = last.to
      BY <3>2, BaseOfLast
    <3>4. last \in SnapshotRow /\ last.version \in Nat
      BY <3>3, RowFields
    <3>5. \A i \in DOMAIN rows : rows[i].version <= last.version /\ rows[i].version <= v
      <4> SUFFICES ASSUME NEW i \in DOMAIN rows PROVE rows[i].version <= last.version
        OBVIOUS
      <4>1. i = Len(rows) \/ i < Len(rows)
        BY <3>3
      <4>2. rows[i].version \in Nat
        BY RowFields
      <4>3. i < Len(rows) => rows[i].version < last.version
        BY <3>3 DEF InOrder
      <4> QED BY <3>4, <4>1, <4>2, <4>3
    <3>6. ReconstructSnapshot(rows, v) = base
      <4>1. ReconstructSnapshot(rows, v) = ReconstructSnapshot(rows, last.version)
        BY <3>4, <3>5, RebuildAlike
      <4> QED BY <3>3, <4>1 DEF Rebuilds
    <3>7. base # NoText
      BY <2>4 DEF Texts
    <3>8. Rebuild(base, row, v) = t
      BY <3>7 DEF Rebuild, IsFull, ApplyDiff
    <3>9. WithSnapshot(rows, v, t) = Append(rows, row)
      BY <1>2, <2>4 DEF WithSnapshot
    <3> HIDE DEF row, base
    <3> QED BY <2>2, <3>1, <3>6, <3>8, <3>9
  <2>5. CASE ~NeedsFull(rows, v) /\ SnapshotBase(rows) \notin Texts
    BY <1>2, <2>5 DEF WithSnapshot
  <2> QED BY <2>3, <2>4, <2>5
<1> QED BY <1>1, <1>2

-------------------------------------------------------------------------------
(* Snapshots: which copies they are taken of *)

\* Where the copies that a goroutine has come from, and who leaves a publication
\* behind.
LEMMA HandFrame ==
  ASSUME TypeOK, CopyInv, [Next]_vars, ~Crash, NEW q \in Procs
  PROVE  /\ job[q].pc = "publish" => job'[q] = job[q] \/ (q \in Clients /\ Publish(q))
         /\ \/ job'[q].cell \in {job[q].cell, NoCopy}
            \/ \E f \in Files : job'[q].cell = cache[f]
            \/ \E c \in Clients : job[c].pc = "done" /\ job'[q].cell = job[c].cell
            \/ job'[q].cell \in Unreferenced
         /\ job'[q].victim \in {job[q].victim, NoCopy} \/ \E f \in Files : job'[q].victim = cache[f]
         /\ job'[q].pc = "add" => job'[q] = job[q] \/ (q \in Clients /\ ReadObject(q))
<1> DEFINE Left == job[q].pc # "publish" \/ (q \in Clients /\ Publish(q))
           Cell == \/ job'[q].cell \in {job[q].cell, NoCopy}
                   \/ \E f \in Files : job'[q].cell = cache[f]
           Victim == job'[q].victim \in {job[q].victim, NoCopy}
           Moved == Left /\ Cell /\ Victim /\ job'[q].pc # "add"
           Same == job'[q] = job[q]
<1>a. job \in [Procs -> JobRecord]
  BY DEF TypeOK
<1> USE ProcType
<1>1. ASSUME NEW c \in Clients, NEW f \in Files, ReceiveChunk(c, f) PROVE Moved \/ Same
  BY <1>1, <1>a DEF ReceiveChunk, At, Idle
<1>2. ASSUME NEW c \in Clients, LoaderDo(c) \/ FetchRow(c) PROVE Moved \/ Same
  BY <1>2, <1>a DEF LoaderDo, FetchRow, At, Goto, JobRecord
<1>3. ASSUME NEW c \in Clients, ReadObject(c)
      PROVE  \/ q = c /\ Left /\ Victim /\ job'[q].cell \in Unreferenced
             \/ Same
  BY <1>3, <1>a DEF ReadObject, At, JobRecord
<1>4. ASSUME NEW c \in Clients, CacheAdd(c)
      PROVE  \/ /\ Left /\ job'[q].pc # "add" /\ job'[q].cell = job[q].cell
                /\ Victim \/ \E f \in Files : job'[q].victim = cache[f]
             \/ Same
  BY <1>4, <1>a DEF CacheAdd, At, Goto, JobRecord
<1>5. ASSUME NEW c \in Clients, EvictLock(c) PROVE Moved \/ Same
  BY <1>5, <1>a DEF EvictLock, At, Goto, JobRecord
<1>6. ASSUME NEW c \in Clients, LoadDone(c)
      PROVE  \/ Left /\ Victim /\ job'[q].pc # "add" /\ job[c].pc = "done" /\ job'[q].cell = job[c].cell
             \/ Same
  <2>1. CASE q = c \/ q \in Joined(job[c].file)
    <3>1. job'[q] = [job[q] EXCEPT !.pc = "lock", !.cell = job[c].cell]
      BY <1>6, <2>1 DEF LoadDone
    <3>2. job[q].pc \in {"done", "join"} /\ job[c].pc = "done"
      BY <1>6, <2>1 DEF LoadDone, Joined, At
    <3> QED BY <1>a, <3>1, <3>2 DEF JobRecord
  <2>2. CASE ~(q = c \/ q \in Joined(job[c].file))
    BY <1>6, <2>2 DEF LoadDone
  <2> QED BY <2>1, <2>2
<1>7. ASSUME NEW c \in Clients, LoadFails(c) PROVE Moved \/ Same
  <2>1. q = c \/ q \in Joined(job[c].file) => job[q].pc # "publish"
    BY <1>7 DEF LoadFails, Joined, At
  <2> QED BY <1>7, <1>a, <2>1 DEF LoadFails, Idle
<1>8. ASSUME NEW p \in Procs, Finish(p), p # q \/ Left PROVE Moved \/ Same
  BY <1>8, <1>a DEF Finish, Idle
<1>9. ASSUME NEW c \in Clients, TransformStaleChunks(c) PROVE Moved \/ Same
  <2>1. job[c].pc # "publish"
    BY <1>9 DEF TransformStaleChunks, At
  <2>2. CASE job' = [job EXCEPT ![c].pc = "persist", ![c].against = Concurrent(c)]
    BY <2>1, <2>2, <1>a DEF JobRecord
  <2> QED BY <1>8, <1>9, <2>1, <2>2 DEF TransformStaleChunks
<1>10. ASSUME NEW c \in Clients, PersistChunkOperation(c) PROVE Moved \/ Same
  <2>1. job[c].pc # "publish"
    BY <1>10 DEF PersistChunkOperation, At
  <2>2. CASE job' = [job EXCEPT ![c].pc = "publish"]
    BY <2>1, <2>2, <1>a DEF JobRecord
  <2> QED BY <1>8, <1>10, <2>1, <2>2 DEF PersistChunkOperation, Goto
<1>11. ASSUME NEW c \in Clients, PersistFails(c) PROVE Moved \/ Same
  <2>1. job[c].pc # "publish" /\ Finish(c)
    BY <1>11 DEF PersistFails, At
  <2> QED BY <1>8, <2>1
<1>12. ASSUME NEW c \in Clients, Publish(c) PROVE Moved \/ Same
  <2>1. Finish(c) /\ (c = q => Left)
    BY <1>12 DEF Publish
  <2> QED BY <1>8, <2>1
<1>13. ASSUME NEW f \in Files, ProcessFile(f) PROVE Moved \/ Same
  BY <1>13, <1>a DEF ProcessFile, At, Idle
<1>14. ASSUME SkipFile PROVE Moved \/ Same
  <2>1. job[Ticker].pc # "publish" /\ Finish(Ticker)
    BY <1>14 DEF SkipFile, At
  <2> QED BY <1>8, <2>1
<1>15. ASSUME StartFlush \/ CreateFileSnapshot PROVE Moved \/ Same
  BY <1>15, <1>a DEF StartFlush, CreateFileSnapshot, At, Goto, JobRecord
<1>16. ASSUME NEW p \in Procs, StageObject(p) \/ CopyContent(p) \/ RenameObject(p) PROVE Moved \/ Same
  BY <1>16, <1>a DEF StageObject, CopyContent, RenameObject, At, Goto, JobRecord
<1>17. ASSUME NEW p \in Procs, NEW ok, AfterFlush(p, ok), job[p].pc # "publish"
       PROVE  Moved \/ Same
  <2>1. CASE Finish(p)
    BY <1>8, <1>17, <2>1
  <2>2. CASE job' = [job EXCEPT ![p].pc = "object"]
    BY <1>17, <2>2, <1>a DEF JobRecord
  <2>3. CASE job' = [job EXCEPT ![p].pc = "done", ![p].victim = NoCopy]
    BY <1>17, <2>3, <1>a DEF JobRecord
  <2> QED BY <1>17, <2>1, <2>2, <2>3 DEF AfterFlush, Goto
<1>18. ASSUME NEW p \in Procs, UpdateFileHash(p) \/ FlushFails(p) PROVE Moved \/ Same
  <2>1. job[p].pc # "publish"
    BY <1>18 DEF UpdateFileHash, FlushFails, CopyFails, At
  <2> QED BY <1>17, <1>18, <2>1 DEF UpdateFileHash, FlushFails
<1>19. ASSUME NEW r \in Readers, NEW f \in Files, RequestFile(r, f) PROVE Moved \/ Same
  BY <1>19, <1>a DEF RequestFile, At, Idle
<1>20. ASSUME NEW r \in Readers, LookUpCopy(r) PROVE Moved \/ Same
  <2>1. job[r].file \in Files
    BY <1>20 DEF CopyInv, LookUpCopy, At
  <2> QED BY <1>20, <1>a, <2>1 DEF LookUpCopy, At, JobRecord
<1>21. ASSUME NEW r \in Readers, LockForRead(r) PROVE Moved \/ Same
  BY <1>21, <1>a DEF LockForRead, At, Goto, JobRecord
<1>22. ASSUME NEW r \in Readers, ReplyFile(r) PROVE Moved \/ Same
  <2>1. job[r].pc # "publish" /\ Finish(r)
    BY <1>22 DEF ReplyFile, At
  <2> QED BY <1>8, <2>1
<1>23. PurgeCache \/ UNCHANGED vars => Same
  BY DEF PurgeCache, vars
<1> QED
  BY <1>1, <1>2, <1>3, <1>4, <1>5, <1>6, <1>7, <1>9, <1>10, <1>11, <1>12, <1>13, <1>14,
     <1>15, <1>16, <1>18, <1>19, <1>20, <1>21, <1>22, <1>23
  DEF Next, HandlerStep, FlushStep, DownloadStep, TickerStep

\* What the ticker is at changes when it goes to a cached copy or is done.
LEMMA TickerFrame ==
  ASSUME TypeOK, CopyInv, [Next]_vars, ~Crash
  PROVE  /\ \/ /\ job'[Ticker].cell = job[Ticker].cell
               /\ job'[Ticker].file = job[Ticker].file
            \/ job'[Ticker].cell = NoCopy
            \/ cache' = cache /\ job'[Ticker].cell = cache[job'[Ticker].file]
         /\ job'[Ticker].pc = "snapshot" => job'[Ticker] = job[Ticker] \/ StartFlush
<1> DEFINE Kept == /\ job'[Ticker].cell = job[Ticker].cell
                   /\ job'[Ticker].file = job[Ticker].file
                   /\ job'[Ticker].pc # "snapshot"
           Done == job'[Ticker].cell = NoCopy /\ job'[Ticker].pc # "snapshot"
           Same == job'[Ticker] = job[Ticker]
<1>a. job \in [Procs -> JobRecord] /\ Ticker \notin Clients /\ Ticker \notin Readers
  BY ProcsAssumption DEF TypeOK
<1> USE ProcType
<1>1. ASSUME NEW c \in Clients, HandlerStep(c) PROVE Same
  <2>1. Ticker \notin Joined(job[c].file) /\ Ticker # c
    BY <1>a DEF Joined
  <2> QED BY <1>1, <1>a, <2>1
      DEF HandlerStep, LoaderDo, FetchRow, ReadObject, CacheAdd, EvictLock, LoadDone, LoadFails,
          TransformStaleChunks, PersistChunkOperation, PersistFails, Publish, Goto, Finish
<1>2. ASSUME NEW c \in Clients, NEW f \in Files, ReceiveChunk(c, f) PROVE Same
  BY <1>2, <1>a DEF ReceiveChunk
<1>3. ASSUME NEW f \in Files, ProcessFile(f)
      PROVE  cache' = cache /\ job'[Ticker].cell = cache[job'[Ticker].file]
             /\ job'[Ticker].pc # "snapshot"
  BY <1>3, <1>a DEF ProcessFile, Idle, mem
<1>4. ASSUME SkipFile PROVE Done
  BY <1>4, <1>a DEF SkipFile, Finish, Idle
<1>5. ASSUME CreateFileSnapshot PROVE Kept
  BY <1>5, <1>a DEF CreateFileSnapshot, Goto, JobRecord
<1>6. ASSUME StartFlush
      PROVE  job'[Ticker].cell = job[Ticker].cell /\ job'[Ticker].file = job[Ticker].file
  BY <1>6, <1>a DEF StartFlush, Goto, JobRecord
<1>7. ASSUME NEW p \in Procs, StageObject(p) \/ CopyContent(p) \/ RenameObject(p) PROVE Kept \/ Same
  BY <1>7, <1>a DEF StageObject, CopyContent, RenameObject, Goto, JobRecord
<1>8. ASSUME NEW p \in Procs, NEW ok, AfterFlush(p, ok) PROVE Kept \/ Done \/ Same
  <2>1. CASE Finish(p)
    BY <1>a, <2>1 DEF Finish, Idle
  <2>2. CASE job' = [job EXCEPT ![p].pc = "object"]
    BY <1>a, <2>2 DEF JobRecord
  <2>3. CASE job' = [job EXCEPT ![p].pc = "done", ![p].victim = NoCopy]
    BY <1>a, <2>3 DEF JobRecord
  <2> QED BY <1>8, <2>1, <2>2, <2>3 DEF AfterFlush, Goto
<1>9. ASSUME NEW p \in Procs, UpdateFileHash(p) \/ FlushFails(p) PROVE Kept \/ Done \/ Same
  BY <1>8, <1>9 DEF UpdateFileHash, FlushFails
<1>10. ASSUME NEW r \in Readers, NEW f \in Files, RequestFile(r, f) PROVE Same
  BY <1>10, <1>a DEF RequestFile
<1>11. ASSUME NEW r \in Readers, DownloadStep(r) PROVE Same
  BY <1>11, <1>a DEF DownloadStep, LookUpCopy, LockForRead, ReplyFile, Goto, Finish
<1>12. PurgeCache \/ UNCHANGED vars => Same
  BY DEF PurgeCache, vars
<1> QED
  BY <1>1, <1>2, <1>3, <1>4, <1>5, <1>6, <1>7, <1>9, <1>10, <1>11, <1>12
  DEF Next, FlushStep, TickerStep

\* The table of cached copies changes when a loaded copy is added.
LEMMA CacheFrame ==
  ASSUME TypeOK, [Next]_vars, ~Crash
  PROVE  \/ cache' = cache
         \/ \E c \in Clients :
              /\ job[c].pc = "add" /\ job'[c].pc # "add"
              /\ \A q \in Procs \ {c} : job'[q] = job[q]
              /\ heap' = heap
              /\ \A f \in Files : cache'[f] \in {cache[f], NoCopy, job[c].cell}
<1> USE DEF mem, db, store, env
<1>1. ASSUME NEW c \in Clients, HandlerStep(c) PROVE cache' = cache \/ CacheAdd(c)
  BY <1>1, Zenon DEF HandlerStep, LoaderDo, FetchRow, ReadObject, EvictLock, LoadDone,
              LoadFails, TransformStaleChunks, PersistChunkOperation, PersistFails, Publish
<1>2. ASSUME NEW p \in Procs, FlushStep(p) PROVE cache' = cache
  BY <1>2 DEF FlushStep, StageObject, CopyContent, RenameObject, UpdateFileHash, FlushFails
<1>3. ASSUME NEW r \in Readers, DownloadStep(r) PROVE cache' = cache
  BY <1>3 DEF DownloadStep, LookUpCopy, LockForRead, ReplyFile
<1>4. TickerStep => cache' = cache
  BY DEF TickerStep, SkipFile, StartFlush, CreateFileSnapshot
<1>5. ASSUME NEW c \in Clients, NEW f \in Files, ReceiveChunk(c, f) PROVE cache' = cache
  BY <1>5 DEF ReceiveChunk
<1>6. ASSUME NEW f \in Files, ProcessFile(f) PROVE cache' = cache
  BY <1>6 DEF ProcessFile
<1>7. ASSUME NEW r \in Readers, NEW f \in Files, RequestFile(r, f) PROVE cache' = cache
  BY <1>7 DEF RequestFile
<1>8. PurgeCache \/ UNCHANGED vars => cache' = cache
  BY DEF PurgeCache, vars
<1>9. ASSUME NEW c \in Clients, CacheAdd(c)
      PROVE  /\ job[c].pc = "add" /\ job'[c].pc # "add"
             /\ \A q \in Procs \ {c} : job'[q] = job[q]
             /\ heap' = heap
             /\ \A f \in Files : cache'[f] \in {cache[f], NoCopy, job[c].cell}
  <2>1. job \in [Procs -> JobRecord] /\ cache \in [Files -> Cells] /\ c \in Procs
    BY ProcType DEF TypeOK
  <2> QED BY <1>9, <2>1 DEF CacheAdd, At, Goto, JobRecord
<1> QED BY <1>1, <1>2, <1>3, <1>4, <1>5, <1>6, <1>7, <1>8, <1>9 DEF Next

\* A copy that has just been loaded stays its loader's, and unedited, until it
\* is added.
LEMMA FreshStep ==
  ASSUME TypeOK, MutexInv, CopyInv, FreshInv, [Next]_vars
  PROVE  FreshInv'
<1>1. CASE Crash
  BY <1>1 DEF Crash, FreshInv, Idle
<1>2. CASE ~Crash
  <2> SUFFICES ASSUME NEW c \in Procs, job'[c].pc = "add"
               PROVE  /\ heap'[job'[c].cell].pending = 0
                      /\ \A f \in Files : cache'[f] # job'[c].cell
                      /\ \A p \in Procs \ {c} : /\ job'[p].cell # job'[c].cell
                                                /\ job'[p].victim # job'[c].cell
    BY DEF FreshInv
  <2> DEFINE x == job'[c].cell
  <2>a. /\ heap \in [Copies -> Copy] /\ job \in [Procs -> JobRecord]
        /\ cache \in [Files -> Cells]
    BY DEF TypeOK
  <2>1. CASE c \in Clients /\ ReadObject(c)
    <3>1. PICK z \in Unreferenced :
            /\ heap' = [heap EXCEPT ![z] = [file |-> job[c].file, version |-> job[c].seen,
                                            text |-> disk[job[c].file], pending |-> 0]]
            /\ job' = [job EXCEPT ![c].pc = "add", ![c].cell = z]
            /\ cache' = cache
      BY <2>1 DEF ReadObject
    <3>2. x = z /\ z \in Copies /\ \A p \in Procs \ {c} : job'[p] = job[p]
      BY <2>a, <3>1 DEF Unreferenced, JobRecord
    <3>3. heap'[x].pending = 0
      BY <2>a, <3>1, <3>2
    <3>4. \A f \in Files : cache'[f] # x
      BY <3>1, <3>2 DEF Unreferenced
    <3>5. \A p \in Procs \ {c} : job'[p].cell # x /\ job'[p].victim # x
      BY <3>2 DEF Unreferenced
    <3> QED BY <3>3, <3>4, <3>5
  <2>2. CASE job'[c] = job[c]
    <3>1. /\ heap[x].pending = 0
          /\ \A f \in Files : cache[f] # x
          /\ \A p \in Procs \ {c} : job[p].cell # x /\ job[p].victim # x
      BY <2>2 DEF FreshInv
    <3>2. x \in Copies /\ x # NoCopy /\ x \notin Unreferenced
      BY <2>2, ProcsAssumption DEF CopyInv, WithCell, Unreferenced
    <3>3. heap'[x].pending = 0
      <4>1. ASSUME NEW d \in Clients, ReadObject(d) PROVE heap'[x] = heap[x]
        BY <4>1, <2>a, <3>2 DEF ReadObject
      <4>2. ASSUME NEW d \in Clients, Publish(d) PROVE heap'[x] = heap[x]
        <5>1. d \in Procs /\ d # c
          BY <4>2, <2>2, ProcType DEF Publish, At
        <5>2. job[d].cell # x
          BY <3>1, <5>1
        <5> QED BY <4>2, <5>2, <2>a, <3>2 DEF Publish
      <4>3. ASSUME NEW p \in Procs, UpdateFileHash(p) PROVE heap'[x].pending = 0
        <5>1. heap' = heap \/ heap' = [heap EXCEPT ![Flushed(p)].pending = 0]
          BY <4>3 DEF UpdateFileHash
        <5> QED BY <5>1, <2>a, <3>1, <3>2 DEF Copy
      <4> QED BY <1>2, <3>1, <4>1, <4>2, <4>3, HeapFrame
    <3>4. ASSUME NEW f \in Files PROVE cache'[f] # x
      <4>1. ASSUME NEW d \in Clients, job[d].pc = "add", job'[d].pc # "add",
                   cache'[f] \in {cache[f], NoCopy, job[d].cell}
            PROVE  cache'[f] # x
        <5>1. d \in Procs /\ d # c
          BY <4>1, ProcType
        <5> QED BY <3>1, <3>2, <4>1, <5>1
      <4> QED BY <1>2, <3>1, <4>1, CacheFrame
    <3>5. ASSUME NEW p \in Procs \ {c} PROVE job'[p].cell # x /\ job'[p].victim # x
      <4>1. \A d \in Clients : job[d].pc = "done" => job[d].cell # x
        <5>1. \A d \in Clients : job[d].pc = "done" => d \in Procs \ {c}
          BY <2>2, ProcType
        <5> QED BY <3>1, <5>1
      <4>2. job'[p].cell # x
        <5>1. \/ job'[p].cell \in {job[p].cell, NoCopy}
              \/ \E f \in Files : job'[p].cell = cache[f]
              \/ \E d \in Clients : job[d].pc = "done" /\ job'[p].cell = job[d].cell
              \/ job'[p].cell \in Unreferenced
          BY <1>2, HandFrame
        <5> QED BY <3>1, <3>2, <4>1, <5>1
      <4>3. job'[p].victim # x
        <5>1. job'[p].victim \in {job[p].victim, NoCopy} \/ \E f \in Files : job'[p].victim = cache[f]
          BY <1>2, HandFrame
        <5> QED BY <3>1, <3>2, <5>1
      <4> QED BY <4>2, <4>3
    <3> QED BY <3>3, <3>4, <3>5
  <2> QED BY <1>2, <2>1, <2>2, HandFrame
<1> QED BY <1>1, <1>2

\* The goroutine that is about to publish an edit of a copy has its mutex.
LEMMA PublisherOwns ==
  ASSUME TypeOK, MutexInv, CopyInv, NEW p \in Procs, job[p].pc \in {"persist", "publish", "snapshot"}
  PROVE  job[p].cell \in Copies /\ owner[job[p].cell] = p
<1>1. job[p].victim = NoCopy
  BY DEF TypeOK, CopyInv, WithVictim, JobRecord, Cells
<1> QED BY <1>1 DEF MutexInv, Locked, Flushed

\* Committed by this goroutine, the next version of a copy is under way.
CommitsTo(c, x) ==
  /\ job[c].cell = x /\ heap' = heap /\ cache' = cache
  /\ job'[Ticker] = job[Ticker]
  /\ heap[x].version = rowVersion[heap[x].file]
  /\ Reaches(x) = heap[x].version /\ Reaches(x)' = heap[x].version + 1
  /\ \A y \in Copies \ {x} : InPublish(y)' = InPublish(y)

\* A copy in use gets edits and nears its next version only by the commit of an
\* edit to it.
LEMMA ReachFrame ==
  ASSUME TypeOK, MutexInv, CopyInv, HistoryComplete, AheadInv, [Next]_vars, ~Crash,
         NEW x \in Copies, x \notin Unreferenced
  PROVE  \/ (Edited(x)' => Edited(x)) /\ Reaches(x)' = Reaches(x)
         \/ \E c \in Clients : CommitsTo(c, x)
<1> DEFINE Kept == (Edited(x)' => Edited(x)) /\ Reaches(x)' = Reaches(x)
<1>a. /\ heap \in [Copies -> Copy] /\ job \in [Procs -> JobRecord]
      /\ rowVersion \in [Files -> Nat]
  BY DEF TypeOK
<1>b. \A p, q \in Procs :
        job[p].pc \in {"persist", "publish", "snapshot"}
        /\ job[q].pc \in {"persist", "publish", "snapshot"}
        /\ job[p].cell = job[q].cell => p = q
  <2>1. \A p \in Procs : job[p].pc \in {"persist", "publish", "snapshot"} => owner[job[p].cell] = p
    BY PublisherOwns
  <2> SUFFICES ASSUME NEW p \in Procs, NEW q \in Procs,
                      job[p].pc \in {"persist", "publish", "snapshot"},
                      job[q].pc \in {"persist", "publish", "snapshot"},
                      job[p].cell = job[q].cell
               PROVE  p = q
    OBVIOUS
  <2>2. owner[job[p].cell] = p /\ owner[job[q].cell] = q
    BY <2>1
  <2> QED BY <2>2
<1>c. heap[x].version \in Nat /\ heap[x].pending \in Nat
  BY <1>a DEF Copy
<1>1. ASSUME NEW c \in Clients, PersistChunkOperation(c), job'[c] # Idle
      PROVE  Kept \/ CommitsTo(c, x)
  <2> DEFINE y == job[c].cell
  <2>1. /\ y \in Copies /\ heap[y].file \in Files
        /\ heap[y].version = rowVersion[heap[y].file]
        /\ job' = [job EXCEPT ![c].pc = "publish"]
    BY <1>1, PersistStep
  <2>2. /\ c \in Procs /\ c # Ticker /\ Ticker \in Procs /\ heap' = heap /\ cache' = cache
        /\ job[c].pc = "persist"
    BY <1>1, ProcType, ProcsAssumption DEF PersistChunkOperation, At
  <2>3. /\ job'[c].pc = "publish" /\ job'[c].cell = y
        /\ \A q \in Procs \ {c} : job'[q] = job[q]
    BY <1>a, <2>1, <2>2 DEF JobRecord
  <2>4. \A z \in Copies \ {y} : InPublish(z)' = InPublish(z)
    BY <2>2, <2>3 DEF InPublish
  <2>5. x = y => InPublish(x)'
    BY <2>2, <2>3 DEF InPublish
  <2>6. ~InPublish(y)
    BY <1>b, <2>2 DEF InPublish
  <2>7. CASE x = y
    <3>1. Reaches(x) = heap[x].version
      BY <2>6, <2>7 DEF Reaches
    <3>2. Reaches(x)' = heap[x].version + 1
      BY <2>2, <2>5, <2>7 DEF Reaches
    <3> QED BY <2>1, <2>2, <2>3, <2>4, <2>7, <3>1, <3>2 DEF CommitsTo
  <2>8. CASE x # y
    BY <2>2, <2>4, <2>8 DEF Edited, Reaches
  <2> QED BY <2>7, <2>8
<1>2. ASSUME NEW c \in Clients, Publish(c) PROVE Kept
  <2> DEFINE y == job[c].cell
  <2>1. c \in Procs /\ job[c].pc = "publish" /\ y \in Copies
    BY <1>2, ProcType, PublisherOwns DEF Publish, At
  <2>2. /\ job'[c].pc = "idle"
        /\ \A q \in Procs \ {c} : job'[q] = job[q]
    BY <1>2, <1>a, <2>1 DEF Publish, Finish, Idle
  <2>3. CASE x = y
    <3>1. InPublish(x)
      BY <2>1, <2>3 DEF InPublish
    <3>2. ~InPublish(x)'
      BY <1>b, <2>1, <2>2, <2>3 DEF InPublish
    <3>3. heap'[x].version = heap[x].version + 1
      BY <1>2, <1>a, <2>3 DEF Publish
    <3> QED BY <3>1, <3>2, <3>3 DEF Edited, Reaches
  <2>4. CASE x # y
    <3>1. heap'[x] = heap[x]
      BY <1>2, <1>a, <2>1, <2>4 DEF Publish
    <3>2. InPublish(x)' = InPublish(x)
      BY <2>1, <2>2, <2>4 DEF InPublish
    <3> QED BY <3>1, <3>2 DEF Edited, Reaches
  <2> QED BY <2>3, <2>4
<1>3. ASSUME \A c \in Clients : ~Publish(c),
             \A c \in Clients : PersistChunkOperation(c) => job'[c] = Idle
      PROVE  Kept
  <2>1. ASSUME NEW q \in Procs PROVE job'[q].pc = "publish" => job'[q] = job[q]
    <3>1. Idle.pc # "publish"
      BY DEF Idle
    <3> QED BY <1>3, <3>1, JobFrame
  <2>2. ASSUME NEW q \in Procs PROVE job[q].pc = "publish" => job'[q] = job[q]
    BY <1>3, HandFrame
  <2>3. InPublish(x)' = InPublish(x)
    BY <2>1, <2>2 DEF InPublish
  <2>4. /\ heap'[x].version = heap[x].version
        /\ heap'[x].pending > 0 => heap[x].pending > 0
    <3>1. ASSUME NEW c \in Clients, ReadObject(c) PROVE heap'[x] = heap[x]
      BY <3>1, <1>a DEF ReadObject
    <3>2. ASSUME NEW p \in Procs, UpdateFileHash(p)
          PROVE  /\ heap'[x].version = heap[x].version
                 /\ heap'[x].pending > 0 => heap[x].pending > 0
      <4>1. heap' = heap \/ heap' = [heap EXCEPT ![Flushed(p)].pending = 0]
        BY <3>2 DEF UpdateFileHash
      <4>2. heap'[x] = heap[x] \/ (heap'[x].version = heap[x].version /\ heap'[x].pending = 0)
        BY <4>1, <1>a DEF Copy
      <4> QED BY <4>2
    <3> QED BY <1>3, <3>1, <3>2, HeapFrame
  <2> QED BY <2>3, <2>4 DEF Edited, Reaches
<1> QED BY <1>1, <1>2, <1>3

\* The snapshot is of a copy nobody is about to edit, that has edits, and is
\* not behind any snapshot of its file.
LEMMA SnapshotFrame ==
  ASSUME TypeOK, MutexInv, CopyInv, AheadInv, SnapshotInv, CreateFileSnapshot
  PROVE  LET x == job[Ticker].cell
             f == heap[x].file
         IN  /\ x \in Copies /\ f \in Files /\ TickerHas(f, x)
             /\ heap[x].version \in Nat /\ heap[x].text \in SUBSET Nat
             /\ Edited(x) /\ Reaches(x) = heap[x].version
             /\ heap[x].version <= rowVersion[f]
             /\ \A i \in DOMAIN snaps[f] : snaps[f][i].version <= heap[x].version
             /\ \/ snaps' = snaps
                \/ snaps' = [snaps EXCEPT ![f] =
                               WithSnapshot(snaps[f], heap[x].version, heap[x].text)]
             /\ heap' = heap /\ cache' = cache /\ rowVersion' = rowVersion
             /\ job'[Ticker].cell = x /\ job'[Ticker].file = f
             /\ \A y \in Copies : InPublish(y)' = InPublish(y)
<1> DEFINE x == job[Ticker].cell
           f == heap[x].file
<1>1. job \in [Procs -> JobRecord] /\ heap \in [Copies -> Copy] /\ Ticker \in Procs
      /\ job[Ticker].pc = "snapshot"
  BY ProcType DEF TypeOK, CreateFileSnapshot, At
<1>2. x \in Copies /\ owner[x] = Ticker
  BY <1>1, PublisherOwns
<1>3. job[Ticker].file \in Files /\ f = job[Ticker].file
  BY <1>1, <1>2 DEF CopyInv
<1>4. ~InPublish(x)
  <2>1. \A p \in Procs : job[p].pc = "publish" => owner[job[p].cell] = p
    BY PublisherOwns
  <2> QED BY <1>1, <1>2, <2>1 DEF InPublish
<1>5. heap[x].pending > 0
  BY <1>1 DEF SnapshotInv
<1>6. TickerHas(f, x) /\ Edited(x) /\ Reaches(x) = heap[x].version
  BY <1>3, <1>4, <1>5 DEF TickerHas, Edited, Reaches
<1>7. \A i \in DOMAIN snaps[f] : snaps[f][i].version <= heap[x].version
  <2>1. f \in Files
    BY <1>3
  <2> QED BY <1>2, <1>6, <2>1 DEF SnapshotInv
<1>8. heap[x].version <= rowVersion[f]
  BY <1>2, <1>3 DEF AheadInv
<1>9. heap' = heap /\ cache' = cache /\ rowVersion' = rowVersion
  BY DEF CreateFileSnapshot, mem
<1>10. job' = [job EXCEPT ![Ticker].pc = "stage"]
  BY DEF CreateFileSnapshot, Goto
<1>11. job'[Ticker].cell = x /\ job'[Ticker].file = f
  BY <1>1, <1>3, <1>10 DEF JobRecord
<1>12. \A y \in Copies : InPublish(y)' = InPublish(y)
  <2>1. /\ job'[Ticker].pc = "stage"
        /\ \A q \in Procs \ {Ticker} : job'[q] = job[q]
    BY <1>1, <1>10 DEF JobRecord
  <2> QED BY <1>1, <2>1 DEF InPublish
<1>13. \/ snaps' = snaps
       \/ snaps' = [snaps EXCEPT ![f] = WithSnapshot(snaps[f], heap[x].version, heap[x].text)]
  BY DEF CreateFileSnapshot
<1>14. heap[x].version \in Nat /\ heap[x].text \in SUBSET Nat
  BY <1>1, <1>2 DEF Copy
<1> HIDE DEF x
<1> QED BY <1>2, <1>3, <1>6, <1>7, <1>8, <1>9, <1>11, <1>12, <1>13, <1>14 DEF x

\* The ticker finds edits to store, and they are still there at the next step.
LEMMA DueStep ==
  ASSUME TypeOK, MutexInv, CopyInv, SnapshotInv, [Next]_vars, job'[Ticker].pc = "snapshot"
  PROVE  heap'[job'[Ticker].cell].pending > 0
<1>a. /\ heap \in [Copies -> Copy] /\ job \in [Procs -> JobRecord] /\ Ticker \in Procs
  BY ProcType DEF TypeOK
<1>1. ~Crash
  BY <1>a DEF Crash, Idle
<1>2. CASE StartFlush
  <2>1. job'[Ticker].cell = job[Ticker].cell
    BY <1>2, <1>a DEF StartFlush, Goto, JobRecord
  <2> QED BY <1>2, <2>1 DEF StartFlush
<1>3. CASE job'[Ticker] = job[Ticker]
  <2> DEFINE x == job[Ticker].cell
  <2>1. x \in Copies /\ owner[x] = Ticker /\ heap[x].pending > 0
    BY <1>3, <1>a, PublisherOwns DEF SnapshotInv
  <2>2. ASSUME NEW c \in Clients, ReadObject(c) PROVE heap'[x] = heap[x]
    <3>1. x \notin Unreferenced
      BY <1>a DEF Unreferenced
    <3> QED BY <2>1, <2>2, <3>1, <1>a DEF ReadObject
  <2>3. ASSUME NEW c \in Clients, Publish(c) PROVE heap'[x] = heap[x]
    <3>1. c \in Procs /\ job[c].pc = "publish" /\ c # Ticker
      BY <2>3, ProcType, ProcsAssumption DEF Publish, At
    <3>2. job[c].cell \in Copies /\ job[c].cell # x
      BY <2>1, <3>1, PublisherOwns
    <3> QED BY <2>1, <2>3, <3>2, <1>a DEF Publish
  <2>4. ASSUME NEW p \in Procs, UpdateFileHash(p) PROVE heap'[x] = heap[x]
    <3>1. job[p].pc = "hash"
      BY <2>4 DEF UpdateFileHash, At
    <3>2. Flushed(p) \in Copies /\ owner[Flushed(p)] = p /\ p # Ticker
      BY <1>3, <3>1 DEF MutexInv, Locked
    <3>3. heap' = heap \/ heap' = [heap EXCEPT ![Flushed(p)].pending = 0]
      BY <2>4 DEF UpdateFileHash
    <3> QED BY <2>1, <3>2, <3>3, <1>a
  <2> QED BY <1>1, <1>3, <2>1, <2>2, <2>3, <2>4, HeapFrame
<1> QED BY <1>1, <1>2, <1>3, TickerFrame

\* Rows are added in the order of their versions, and none before its version
\* is committed.
LEMMA OrderStep ==
  ASSUME TypeOK, MutexInv, CopyInv, HistoryComplete, AheadInv, SnapshotInv,
         SnapshotsReconstruct, [Next]_vars, NEW f \in Files
  PROVE  /\ InOrder(snaps'[f]) /\ Rebuilds(snaps'[f])
         /\ \A i \in DOMAIN snaps'[f] : snaps'[f][i].version <= rowVersion'[f]
<1>a. snaps \in [Files -> Seq(SnapshotRow)] /\ rowVersion \in [Files -> Nat]
  BY DEF TypeOK
<1>b. snaps[f] \in Seq(SnapshotRow)
  BY <1>a
<1>1. /\ InOrder(snaps[f]) /\ Rebuilds(snaps[f])
      /\ \A i \in DOMAIN snaps[f] : snaps[f][i].version <= rowVersion[f]
  BY DEF SnapshotInv, SnapshotsReconstruct, Rebuilds
<1>2. CASE snaps'[f] = snaps[f]
  <2>1. rowVersion[f] \in Nat /\ rowVersion'[f] \in Nat /\ rowVersion[f] <= rowVersion'[f]
    BY <1>a, RowStep, TypeStep DEF TypeOK
  <2>2. ASSUME NEW i \in DOMAIN snaps[f] PROVE snaps[f][i].version <= rowVersion'[f]
    <3>1. snaps[f][i].version \in Nat /\ snaps[f][i].version <= rowVersion[f]
      BY <1>b, <1>1, RowFields
    <3> QED BY <2>1, <3>1
  <2> QED BY <1>1, <1>2, <2>2
<1>3. CASE CreateFileSnapshot
  <2> DEFINE x == job[Ticker].cell
             g == heap[x].file
             v == heap[x].version
             t == heap[x].text
  <2>1. /\ g \in Files /\ v \in Nat /\ t \in SUBSET Nat /\ v <= rowVersion[g]
        /\ \A i \in DOMAIN snaps[g] : snaps[g][i].version <= v
        /\ \/ snaps' = snaps
           \/ snaps' = [snaps EXCEPT ![g] = WithSnapshot(snaps[g], v, t)]
        /\ rowVersion' = rowVersion
    BY <1>3, SnapshotFrame
  <2> HIDE DEF v, t, g
  <2>2. CASE f = g /\ snaps'[f] = WithSnapshot(snaps[f], v, t)
    <3>1. LET all == WithSnapshot(snaps[f], v, t) IN
          /\ InOrder(all) /\ Rebuilds(all)
          /\ \A i \in DOMAIN all : all[i].version = v \/ \E j \in DOMAIN snaps[f] : all[i] = snaps[f][j]
      BY <1>b, <1>1, <2>1, <2>2, SnapshotTaken
    <3>2. v <= rowVersion[f]
      BY <2>1, <2>2
    <3> QED BY <1>1, <2>1, <2>2, <3>1, <3>2
  <2>3. (f = g /\ snaps'[f] = WithSnapshot(snaps[f], v, t)) \/ snaps'[f] = snaps[f]
    BY <1>a, <2>1
  <2> QED BY <1>2, <2>2, <2>3
<1> QED BY <1>2, <1>3, OutputFrame


\* The copies of a file that a snapshot can be taken of are not in use by
\* accident: each was one before the step, or has no edits.
LEMMA HolderFrame ==
  ASSUME TypeOK, MutexInv, CopyInv, FreshInv, [Next]_vars, ~Crash,
         NEW f \in Files, NEW x \in Copies, Edited(x)'
  PROVE  /\ x = cache'[f] => x = cache[f]
         /\ TickerHas(f, x)' => TickerHas(f, x) \/ x = cache'[f]
<1>a. job \in [Procs -> JobRecord] /\ x # NoCopy
  BY ProcsAssumption DEF TypeOK
<1>1. ASSUME x = cache'[f] PROVE x = cache[f]
  <2>1. ASSUME NEW c \in Clients, job[c].pc = "add", x = job[c].cell, heap' = heap,
               job'[c].pc # "add", \A q \in Procs \ {c} : job'[q] = job[q]
        PROVE  FALSE
    <3>1. c \in Procs /\ heap[x].pending = 0 /\ \A p \in Procs \ {c} : job[p].cell # x
      BY <2>1, ProcType DEF FreshInv
    <3>2. InPublish(x)'
      BY <2>1, <3>1 DEF Edited
    <3>3. job'[c].pc = "publish"
      BY <2>1, <3>1, <3>2 DEF InPublish
    <3>4. job'[c] = job[c] \/ PersistChunkOperation(c)
      BY <3>1, <3>3, JobFrame
    <3> QED BY <2>1, <3>3, <3>4 DEF PersistChunkOperation, At
  <2> QED BY <1>1, <1>a, <2>1, CacheFrame
<1>2. ASSUME TickerHas(f, x)' PROVE TickerHas(f, x) \/ x = cache'[f]
  BY <1>2, <1>a, TickerFrame DEF TickerHas
<1> QED BY <1>1, <1>2

\* What a copy reaches is committed.
LEMMA ReachCommitted ==
  ASSUME TypeOK, CopyInv, AheadInv, PublishInv, NEW x \in Copies, heap[x].file \in Files
  PROVE  Reaches(x) \in Nat /\ heap[x].version <= Reaches(x) /\ Reaches(x) <= rowVersion[heap[x].file]
<1>1. heap[x].version \in Nat /\ heap[x].version <= rowVersion[heap[x].file]
  BY DEF TypeOK, Copy, AheadInv
<1>2. InPublish(x) => heap[x].version + 1 <= rowVersion[heap[x].file]
  BY DEF InPublish, PublishInv
<1> QED BY <1>1, <1>2 DEF Reaches

\* No row is newer than an edited copy a snapshot can be taken of.
LEMMA NewestStep ==
  ASSUME TypeOK, MutexInv, CopyInv, HistoryComplete, AheadInv, PublishInv, FreshInv,
         SnapshotInv, SnapshotsReconstruct, [Next]_vars, ~Crash,
         NEW f \in Files, NEW x \in Copies,
         x = cache'[f] \/ TickerHas(f, x)', Edited(x)',
         NEW i \in DOMAIN snaps'[f]
  PROVE  snaps'[f][i].version <= Reaches(x)'
<1>a. /\ snaps \in [Files -> Seq(SnapshotRow)] /\ rowVersion \in [Files -> Nat]
      /\ snaps' \in [Files -> Seq(SnapshotRow)] /\ Ticker \in Procs
  BY TypeStep, ProcType DEF TypeOK
<1>b. x = cache[f] \/ TickerHas(f, x)
  BY HolderFrame
<1>c. x \notin Unreferenced /\ heap[x].file = f
  BY <1>a, <1>b DEF Unreferenced, TickerHas, CopyInv
<1>d. Reaches(x) \in Nat /\ Reaches(x) <= rowVersion[f]
  BY <1>c, ReachCommitted
<1>1. CASE CreateFileSnapshot
  <2> DEFINE z == job[Ticker].cell
             g == heap[z].file
             v == heap[z].version
             t == heap[z].text
  <2>1. /\ z \in Copies /\ g \in Files /\ v \in Nat /\ t \in SUBSET Nat /\ TickerHas(g, z)
        /\ Edited(z) /\ Reaches(z) = v
        /\ \A j \in DOMAIN snaps[g] : snaps[g][j].version <= v
        /\ \/ snaps' = snaps
           \/ snaps' = [snaps EXCEPT ![g] = WithSnapshot(snaps[g], v, t)]
        /\ heap' = heap /\ InPublish(x)' = InPublish(x)
    BY <1>1, SnapshotFrame
  <2>2. Edited(x) /\ Reaches(x)' = Reaches(x)
    BY <2>1 DEF Edited, Reaches
  <2>3. \A j \in DOMAIN snaps[f] : snaps[f][j].version <= Reaches(x)
    BY <1>b, <2>2 DEF SnapshotInv
  <2>4. g = f => v <= Reaches(x)
    <3>1. CASE x = z
      BY <2>1, <3>1
    <3>2. CASE x # z /\ g = f
      <4>1. TickerHas(f, z) /\ x = cache[f]
        BY <1>b, <2>1, <3>2 DEF TickerHas
      <4>2. Reaches(z) < Reaches(x)
        BY <2>1, <2>2, <3>2, <4>1 DEF SnapshotInv
      <4> QED BY <1>d, <2>1, <4>2
    <3> QED BY <3>1, <3>2
  <2> HIDE DEF v, t, g, z
  <2>5. CASE snaps'[f] = snaps[f]
    BY <2>2, <2>3, <2>5
  <2>6. CASE f = g /\ snaps'[f] = WithSnapshot(snaps[f], v, t)
    <3>1. InOrder(snaps[f]) /\ Rebuilds(snaps[f])
      BY DEF SnapshotInv, SnapshotsReconstruct, Rebuilds
    <3>2. snaps[f] \in Seq(SnapshotRow)
      BY <1>a
    <3>3. LET all == WithSnapshot(snaps[f], v, t) IN
          \A j \in DOMAIN all : all[j].version = v \/ \E k \in DOMAIN snaps[f] : all[j] = snaps[f][k]
      BY <2>1, <2>6, <3>1, <3>2, SnapshotTaken
    <3> QED BY <2>2, <2>3, <2>4, <2>6, <3>3
  <2>7. (f = g /\ snaps'[f] = WithSnapshot(snaps[f], v, t)) \/ snaps'[f] = snaps[f]
    BY <1>a, <2>1
  <2> QED BY <2>5, <2>6, <2>7
<1>2. CASE snaps' = snaps
  <2>1. snaps[f][i].version \in Nat /\ snaps[f][i].version <= rowVersion[f] /\ i \in DOMAIN snaps[f]
    <3>1. snaps[f] \in Seq(SnapshotRow) /\ i \in DOMAIN snaps[f]
      BY <1>a, <1>2
    <3>2. snaps[f][i].version \in Nat
      BY <3>1, RowFields
    <3> QED BY <3>1, <3>2 DEF SnapshotInv
  <2>2. CASE Edited(x) /\ Reaches(x)' = Reaches(x)
    <3>1. snaps[f][i].version <= Reaches(x)
      BY <1>b, <2>1, <2>2 DEF SnapshotInv
    <3> QED BY <1>2, <2>2, <3>1
  <2>3. ASSUME NEW c \in Clients, CommitsTo(c, x) PROVE snaps'[f][i].version <= Reaches(x)'
    <3>1. heap[x].version = rowVersion[f] /\ Reaches(x)' = rowVersion[f] + 1 /\ rowVersion[f] \in Nat
      BY <1>a, <1>c, <2>3 DEF CommitsTo
    <3> QED BY <1>2, <2>1, <3>1
  <2> QED BY <1>c, <2>2, <2>3, ReachFrame
<1> QED BY <1>1, <1>2, OutputFrame

\* A copy the ticker is at has been overtaken by an edited one in its place.
LEMMA OvertakenStep ==
  ASSUME TypeOK, MutexInv, CopyInv, HistoryComplete, AheadInv, PublishInv, FreshInv,
         SnapshotInv, [Next]_vars, ~Crash,
         NEW f \in Files, NEW x \in Copies, NEW y \in Copies,
         TickerHas(f, x)', y = cache'[f], y # x, Edited(y)'
  PROVE  Reaches(x)' < Reaches(y)'
<1>a. rowVersion \in [Files -> Nat] /\ Ticker \in Procs
  BY ProcType DEF TypeOK
<1>b. y = cache[f] /\ TickerHas(f, x)
  <2>1. y = cache[f]
    BY HolderFrame
  <2>2. TickerHas(f, x)
    BY TickerFrame, ProcsAssumption DEF TickerHas
  <2> QED BY <2>1, <2>2
<1>c. /\ x \notin Unreferenced /\ heap[x].file = f
      /\ y \notin Unreferenced /\ heap[y].file = f
  BY <1>a, <1>b DEF Unreferenced, TickerHas, CopyInv
<1>d. /\ Reaches(x) \in Nat /\ Reaches(x) <= rowVersion[f] /\ rowVersion[f] \in Nat
      /\ Reaches(y) \in Nat /\ Reaches(y) <= rowVersion[f]
  BY <1>a, <1>c, ReachCommitted
<1>e. Edited(y) => Reaches(x) < Reaches(y)
  BY <1>b DEF SnapshotInv
<1>1. ASSUME NEW c \in Clients, CommitsTo(c, y) PROVE Reaches(x)' < Reaches(y)'
  <2>1. Reaches(x)' = Reaches(x)
    BY <1>1 DEF CommitsTo, Reaches
  <2>2. Reaches(y)' = rowVersion[f] + 1
    BY <1>1, <1>c DEF CommitsTo
  <2> QED BY <1>d, <2>1, <2>2
<1>2. ASSUME NEW c \in Clients, CommitsTo(c, x) PROVE Reaches(x)' < Reaches(y)'
  <2>1. heap' = heap /\ InPublish(y)' = InPublish(y)
    BY <1>2 DEF CommitsTo
  <2>2. Edited(y)
    BY <2>1 DEF Edited
  <2>3. Reaches(x) = rowVersion[f]
    BY <1>2, <1>c DEF CommitsTo
  <2> QED BY <1>d, <1>e, <2>2, <2>3
<1>3. CASE /\ (Edited(x)' => Edited(x)) /\ Reaches(x)' = Reaches(x)
           /\ (Edited(y)' => Edited(y)) /\ Reaches(y)' = Reaches(y)
  BY <1>3, <1>e
<1> QED BY <1>1, <1>2, <1>3, <1>c, ReachFrame

\* Snapshots are taken in the order of the versions, whichever copy they are
\* taken of, and all of them can be rebuilt.
LEMMA SnapshotStep ==
  ASSUME TypeOK, MutexInv, CopyInv, HistoryComplete, AheadInv, PublishInv, FreshInv,
         SnapshotInv, SnapshotsReconstruct, [Next]_vars
  PROVE  SnapshotInv' /\ SnapshotsReconstruct'
<1>1. SnapshotsReconstruct'
  BY OrderStep DEF SnapshotsReconstruct, Rebuilds
<1>2. \A f \in Files :
        /\ InOrder(snaps'[f])
        /\ \A i \in DOMAIN snaps'[f] : snaps'[f][i].version <= rowVersion'[f]
  BY OrderStep
<1>3. job'[Ticker].pc = "snapshot" => heap'[job'[Ticker].cell].pending > 0
  BY DueStep
<1>4. CASE Crash
  <2>1. ASSUME NEW f \in Files, NEW x \in Copies
        PROVE  cache'[f] # x /\ ~TickerHas(f, x)'
    BY <1>4, ProcType, ProcsAssumption DEF Crash, TickerHas, Idle
  <2> QED BY <1>1, <1>2, <1>3, <2>1 DEF SnapshotInv
<1>5. CASE ~Crash
  <2>1. \A f \in Files, x \in Copies :
          (x = cache'[f] \/ TickerHas(f, x)') /\ Edited(x)' =>
            \A i \in DOMAIN snaps'[f] : snaps'[f][i].version <= Reaches(x)'
    BY <1>5, NewestStep
  <2>2. \A f \in Files, x, y \in Copies :
          TickerHas(f, x)' /\ y = cache'[f] /\ y # x /\ Edited(y)' => Reaches(x)' < Reaches(y)'
    BY <1>5, OvertakenStep
  <2> QED BY <1>1, <1>2, <1>3, <2>1, <2>2 DEF SnapshotInv
<1> QED BY <1>4, <1>5

-------------------------------------------------------------------------------
(* The theorems *)

LEMMA InvInit == Init => IInv
<1> SUFFICES ASSUME Init PROVE IInv OBVIOUS
<1>1. \A p \in Procs : job[p] = Idle
  BY DEF Init
<1>2. HistoryComplete
  BY DEF Init, HistoryComplete, Complete
<1>3. PublishInv /\ AgainstInv
  BY <1>1 DEF PublishInv, AgainstInv, Idle
<1>4. NoVersionTwice
  BY DEF Init, NoVersionTwice
<1>5. \A x \in Copies : heap[x].version = 0 /\ heap[x].text = {}
  BY DEF Init, Blank
<1>6. AheadInv
  <2>1. \A x \in Copies : heap[x].file \in Files =>
          /\ heap[x].version <= rowVersion[heap[x].file]
          /\ heap[x].text \subseteq Complete(rowVersion[heap[x].file])
    BY <1>5 DEF Init
  <2>2. \A p \in Procs : job[p].file \in Files => job[p].seen <= rowVersion[job[p].file]
    BY <1>1, ProcsAssumption DEF Idle
  <2>3. \A f \in Files : /\ disk[f] = {} /\ tmp[f] = NoText
                         /\ broadcast[f] = <<>> /\ snaps[f] = <<>>
    BY DEF Init
  <2> QED BY <2>1, <2>2, <2>3 DEF AheadInv
<1>7. FreshInv
  BY <1>1 DEF FreshInv, Idle
<1>8. SnapshotInv /\ SnapshotsReconstruct
  <2>1. \A f \in Files : snaps[f] = <<>>
    BY DEF Init
  <2>2. job[Ticker].pc = "idle" /\ job[Ticker].cell = NoCopy
    BY <1>1, ProcType DEF Idle
  <2> QED BY <2>1, <2>2, ProcsAssumption
          DEF SnapshotInv, SnapshotsReconstruct, InOrder, TickerHas
<1> QED BY <1>2, <1>3, <1>4, <1>6, <1>7, <1>8, TypeInit, MutexCopyInit DEF IInv

LEMMA InvStep == ~Purging /\ IInv /\ [Next]_vars => IInv'
BY TypeStep, MutexStep, CopyStep, HistoryStep, AheadStep, PublishStep, AgainstStep, OnceStep,
   FreshStep, SnapshotStep DEF IInv

\* The inductive invariant holds as long as no history is purged.
THEOREM Invariance == ASSUME ~Purging PROVE Spec => []IInv
<1>1. IInv /\ [Next]_vars => IInv'
  BY InvStep
<1> QED BY <1>1, InvInit, PTL DEF Spec

\* No copy, stored object, snapshot or broadcast is ever ahead of what the
\* database has committed: a restart forgets no version a client has seen.
THEOREM DatabaseFirst == ASSUME ~Purging PROVE Spec => []NothingAheadOfDatabase
<1>1. IInv => NothingAheadOfDatabase
  BY DEF IInv, AheadInv, NothingAheadOfDatabase
<1> QED BY <1>1, Invariance, PTL

\* Every version up to a file's has its row in operations, so a client that
\* asks for what it missed is answered in full.
THEOREM HistoryKept == ASSUME ~Purging PROVE Spec => []HistoryComplete
<1>1. IInv => HistoryComplete
  BY DEF IInv
<1> QED BY <1>1, Invariance, PTL

\* However many copies of a file are in use, no version is sent out twice.
THEOREM PublishedOnce == ASSUME ~Purging PROVE Spec => []NoVersionTwice
<1>1. IInv => NoVersionTwice
  BY DEF IInv
<1> QED BY <1>1, Invariance, PTL

\* A message that is about to be applied was transformed against exactly the
\* operations between its base and the version it is given.
THEOREM FullyTransformed == ASSUME ~Purging PROVE Spec => []TransformedAgainstAll
<1>1. IInv => TransformedAgainstAll
  BY ProcType DEF IInv, AgainstInv, TransformedAgainstAll, At
<1> QED BY <1>1, Invariance, PTL

\* Every snapshot that could be stored rebuilds to the text it was taken of: the
\* diff in a row was made from exactly what the rows before it rebuild, whichever
\* copy, cached or evicted, each of them was taken of.
THEOREM SnapshotsRebuild == ASSUME ~Purging PROVE Spec => []SnapshotsReconstruct
<1>1. IInv => SnapshotsReconstruct
  BY DEF IInv
<1> QED BY <1>1, Invariance, PTL

\* A file's version only ever goes to the next one.
THEOREM VersionsIncrement == ASSUME ~Purging PROVE Spec => VersionsStepByOne
<1> DEFINE Step == \A f \in Files : rowVersion'[f] \in {rowVersion[f], rowVersion[f] + 1}
<1>1. IInv /\ [Next]_vars => [Step]_vars
  BY RowStep DEF IInv
<1>2. VersionsStepByOne <=> [][Step]_vars
  BY DEF VersionsStepByOne
<1> QED BY <1>1, <1>2, Invariance, PTL DEF Spec
==============================================================================
