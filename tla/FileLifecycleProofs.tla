------------------------- MODULE FileLifecycleProofs -------------------------
(***************************************************************************)
(* Proofs about FileLifecycle, for any requests, paths, copies and bounds. *)
(* The invariant has five parts, each proved on its own from the first:    *)
(* who holds what (Held), the keys of the rows (Keys), the objects that    *)
(* exist (Kept), whose text they hold (Named) and what refers to a file    *)
(* (NothingRefersToDeleted).  The types need three more, on top of those:  *)
(* the room for who is still to come (Bounded), what a goroutine was asked *)
(* for (Reached) and what the rows and objects are about (Recorded).       *)
(***************************************************************************)
EXTENDS FileLifecycle, FiniteSetTheorems, TLAPS

JobState == [pc : PC, file : Ids \cup {0}, version : Nat, path : Paths \cup {NoPath},
             object : Nat, cell : Cells, victim : Cells, todo : SUBSET Nat]
CopyState == [file : Ids \cup {0}, object : Nat, version : Nat, pending : BOOLEAN]
FileRow == [id : Nat, path : Paths \cup {NoPath}, object : Nat, version : Nat]

\* The shapes of the variables, whatever the bounds on rows and objects are.
Shape ==
  /\ files \subseteq FileRow /\ nextId \in Nat
  /\ snapshots \subseteq [file : Nat, version : Nat, object : Nat]
  /\ nextObject \in Nat
  /\ heap \in [Copies -> CopyState]
  /\ cache \in [Ids -> Cells]
  /\ owner \in [Copies -> Procs \cup {NoProc}]
  /\ job \in [Procs -> JobState]

Holding == {"snapshot", "record", "stage", "rename", "hash"}

\* Where a goroutine is says what it has looked up and which mutex it holds.
HeldBy(p) ==
  /\ job[p].pc \in {"get", "reset", "remove", "add"} => job[p].file \in Ids
  /\ job[p].pc \in {"reset", "apply", "lock"} => job[p].cell \in Copies
  /\ job[p].pc = "evict" => job[p].victim \in Copies
  /\ job[p].pc \in Holding => Flushed(p) \in Copies /\ owner[Flushed(p)] = p

Held ==
  /\ job[Ticker].victim = NoCopy
  /\ \A p \in Procs : HeldBy(p)
  /\ HoldersGoOn

\* The keys of files.
Keys ==
  /\ \A r \in files : r.id < nextId
  /\ \A r, s \in files : r.id = s.id => r = s
  /\ OnePathOneFile

Made == DOMAIN store \cup unlinked

\* A name that is on its way to a row is the name of an object, too.
Kept ==
  /\ \A r \in files : r.object \in Made
  /\ \A s \in snapshots : s.object \in Made
  /\ \A p \in Procs : /\ job[p].pc \in {"insert", "record"} => job[p].object \in Made
                      /\ job[p].pc = "export" => job[p].todo \subseteq Made

\* Who is known to own an object: the rows, the copies, and the load under way.
Names ==
  {<<r.id, r.object>> : r \in files}
    \cup {<<heap[x].file, heap[x].object>> : x \in {y \in Copies : heap[y].object # 0}}
    \cup {<<job[Editor].file, job[Editor].object>> : q \in {e \in {Editor} : At(e, "add")}}

\* An object has one owner for ever, and holds its upload or its owner's text;
\* one that was created for a row to come has no owner yet.
Named ==
  /\ nextObject > 0
  /\ \A n \in Names : n[2] \in 1..(nextObject - 1)
  /\ \A m, n \in Names : m[2] = n[2] => m[1] = n[1]
  /\ \A n \in Names : n[2] \in DOMAIN store => store[n[2]] \in {0, n[1]}
  /\ \A r \in Requests : At(r, "insert") =>
       LET o == job[r].object IN
       /\ o \in 1..(nextObject - 1)
       /\ \A n \in Names : n[2] # o
       /\ o \in DOMAIN store => store[o] = 0
  /\ \A r, s \in Requests :
       At(r, "insert") /\ At(s, "insert") /\ r # s => job[r].object # job[s].object

FilesInv == Shape /\ Held /\ Keys /\ Kept /\ Named /\ NothingRefersToDeleted

\* What a query of an existing file returns.
LEMMA Fetched == ASSUME NEW f, Exists(f) PROVE FetchFile(f) \in files /\ FetchFile(f).id = f
BY DEF Exists, FetchFile

\* The records the actions put into job.
LEMMA JobTypes ==
  /\ Idle \in JobState
  /\ \A j \in JobState, c \in PC :
       /\ [j EXCEPT !.pc = c] \in JobState
       /\ \A o \in Nat : [j EXCEPT !.pc = c, !.object = o] \in JobState
       /\ \A x \in Cells : /\ [j EXCEPT !.pc = c, !.cell = x] \in JobState
                           /\ [j EXCEPT !.pc = c, !.victim = x] \in JobState
                           /\ \A y \in Cells : [j EXCEPT !.pc = c, !.cell = y, !.victim = x] \in JobState
       /\ \A t \in SUBSET Nat : [j EXCEPT !.pc = c, !.todo = t] \in JobState
  /\ \A j \in JobState : \A t \in SUBSET Nat : [j EXCEPT !.todo = t] \in JobState
<1>1. Idle \in JobState
  BY DEF Idle, JobState, PC, Cells
<1>2. ASSUME NEW j \in JobState, NEW c \in PC
      PROVE  /\ [j EXCEPT !.pc = c] \in JobState
             /\ \A o \in Nat : [j EXCEPT !.pc = c, !.object = o] \in JobState
             /\ \A t \in SUBSET Nat : [j EXCEPT !.pc = c, !.todo = t] \in JobState
  BY DEF JobState
<1>3. ASSUME NEW j \in JobState, NEW c \in PC, NEW x \in Cells
      PROVE  /\ [j EXCEPT !.pc = c, !.cell = x] \in JobState
             /\ [j EXCEPT !.pc = c, !.victim = x] \in JobState
             /\ \A y \in Cells : [j EXCEPT !.pc = c, !.cell = y, !.victim = x] \in JobState
  BY DEF JobState
<1>4. ASSUME NEW j \in JobState, NEW t \in SUBSET Nat
      PROVE  [j EXCEPT !.todo = t] \in JobState
  BY DEF JobState
<1> QED
  BY <1>1, <1>2, <1>3, <1>4

\* Every action leaves the shapes of the variables alone.
LEMMA ShapeStep == Shape /\ Held /\ [Next]_vars => Shape'
<1> SUFFICES ASSUME Shape, Held, [Next]_vars PROVE Shape'
  OBVIOUS
<1>1. ASSUME NEW r \in Requests, NEW q \in Paths, CheckPath(r, q) PROVE Shape'
  <2>1. job' \in [Procs -> JobState]
    <3>1. [Idle EXCEPT !.pc = "object", !.path = q] \in JobState
      BY <1>1 DEF JobState, Idle, PC, Cells, CheckPath
    <3> QED
      BY <1>1, <3>1 DEF Shape, CheckPath
  <2> QED
    BY <1>1, <2>1 DEF Shape, CheckPath, db, disk, mem, env
<1>2. ASSUME NEW r \in Requests, NEW f \in Ids, NEW q \in Paths, RequestRename(r, f, q)
      PROVE  Shape'
  <2>1. job' \in [Procs -> JobState]
    <3>1. [Idle EXCEPT !.pc = "update", !.file = f, !.path = q] \in JobState
      BY <1>2 DEF JobState, Idle, PC, Cells, RequestRename
    <3> QED
      BY <1>2, <3>1 DEF Shape, RequestRename
  <2> QED
    BY <1>2, <2>1 DEF Shape, RequestRename, db, disk, mem, env
<1>3. ASSUME NEW r \in Requests, RequestExport(r) PROVE Shape'
  <2>1. job' \in [Procs -> JobState]
    <3>1. {f.object : f \in files} \subseteq Nat
      BY DEF Shape, FileRow
    <3>2. [Idle EXCEPT !.pc = "export", !.todo = {f.object : f \in files}] \in JobState
      BY <3>1 DEF JobState, Idle, PC, Cells
    <3> QED
      BY <1>3, <3>2 DEF Shape, RequestExport
  <2> QED
    BY <1>3, <2>1 DEF Shape, RequestExport, db, disk, mem, env
<1>4. ASSUME NEW r \in Requests, NEW f \in Ids, RequestDelete(r, f) PROVE Shape'
  <2>1. job' \in [Procs -> JobState]
    <3>1. FetchFile(f).object \in Nat
      BY <1>4, Fetched DEF RequestDelete, Shape, FileRow
    <3>2. [Idle EXCEPT !.pc = "get", !.file = f, !.object = FetchFile(f).object] \in JobState
      BY <3>1 DEF JobState, Idle, PC, Cells
    <3> QED
      BY <1>4, <3>2 DEF Shape, RequestDelete
  <2> QED
    BY <1>4, <2>1 DEF Shape, RequestDelete, db, disk, mem, env
<1>5. ASSUME NEW r \in Requests, CreateObject(r) PROVE Shape'
  <2>1. job' \in [Procs -> JobState]
    BY <1>5 DEF Shape, JobState, PC, Idle, Procs, Cells, Finish, FreshName, CreateObject
  <2>2. nextObject' \in Nat
    BY <1>5 DEF Shape, NewObject, disk, CreateObject
  <2> QED
    BY <1>5, <2>1, <2>2 DEF Shape, CreateObject, db, disk, mem
<1>6. ASSUME NEW r \in Requests, InsertFile(r) PROVE Shape'
  <2>1. job' \in [Procs -> JobState]
    BY <1>6 DEF Shape, JobState, PC, Idle, Procs, Cells, Finish, InsertFile
  <2>2. files' \subseteq FileRow
    BY <1>6 DEF Shape, FileRow, JobState, CreateFile, Procs, InsertFile
  <2>3. nextId' \in Nat
    BY <1>6 DEF Shape, CreateFile, InsertFile
  <2> QED
    BY <1>6, <2>1, <2>2, <2>3 DEF Shape, InsertFile, disk, mem
<1>7. ASSUME NEW r \in Requests, RenameFile(r) PROVE Shape'
  <2>1. job' \in [Procs -> JobState]
    BY <1>7 DEF Shape, JobState, PC, Idle, Procs, Cells, Finish, RenameFile
  <2>2. files' \subseteq FileRow
    BY <1>7 DEF Shape, FileRow, JobState, UpdateWorkspacePath, Procs, RenameFile
  <2> QED
    BY <1>7, <2>1, <2>2 DEF Shape, RenameFile, disk, mem, env
<1>8. ASSUME NEW r \in Requests, ExportFile(r) PROVE Shape'
  <2>1. job' \in [Procs -> JobState]
    BY <1>8 DEF Shape, JobState, PC, Idle, Procs, Cells, Finish, ExportFile
  <2> QED
    BY <1>8, <2>1 DEF Shape, ExportFile, db, disk, mem, env
<1>9. ASSUME NEW r \in Requests, LookUpCached(r) PROVE Shape'
  <2>1. job' \in [Procs -> JobState]
    <3>1. cache[job[r].file] \in Cells /\ job[r] \in JobState
      BY <1>9 DEF LookUpCached, Shape, Held, HeldBy, At, Procs
    <3>2. \A c \in PC : [job[r] EXCEPT !.pc = c, !.cell = cache[job[r].file]] \in JobState
      BY <3>1, JobTypes
    <3>3. (IF cache[job[r].file] = NoCopy THEN "list" ELSE "reset") \in PC
      BY DEF PC
    <3> QED
      BY <1>9, <3>2, <3>3 DEF Shape, LookUpCached, Procs
  <2> QED
    BY <1>9, <2>1 DEF Shape, LookUpCached, db, disk, mem, env
<1>10. ASSUME NEW r \in Requests, ResetPending(r) PROVE Shape'
  <2>1. job' \in [Procs -> JobState]
    BY <1>10 DEF Shape, JobState, PC, Procs, Cells, Goto, ResetPending
  <2>2. heap' \in [Copies -> CopyState]
    BY <1>10 DEF Shape, CopyState, Procs, ResetPending
  <2> QED
    BY <1>10, <2>1, <2>2 DEF Shape, ResetPending, db, disk, env
<1>11. ASSUME NEW r \in Requests, RemoveCached(r) PROVE Shape'
  <2>1. job' \in [Procs -> JobState]
    <3>1. cache[job[r].file] \in Cells /\ NoCopy \in Cells /\ job[r] \in JobState
      BY <1>11 DEF RemoveCached, Shape, Held, HeldBy, At, Procs, Cells
    <3>2. \A c \in PC : [job[r] EXCEPT !.pc = c, !.cell = NoCopy,
                                     !.victim = cache[job[r].file]] \in JobState
      BY <3>1, JobTypes
    <3>3. (IF cache[job[r].file] = NoCopy THEN "list" ELSE "evict") \in PC
      BY DEF PC
    <3> QED
      BY <1>11, <3>2, <3>3 DEF Shape, RemoveCached, Procs
  <2>2. cache' \in [Ids -> Cells]
    BY <1>11 DEF Shape, Held, HeldBy, At, Procs, Cells, JobState, RemoveCached
  <2> QED
    BY <1>11, <2>1, <2>2 DEF Shape, RemoveCached, db, disk, env
<1>12. ASSUME NEW r \in Requests, EvictLock(r) PROVE Shape'
  <2>1. job' \in [Procs -> JobState]
    BY <1>12 DEF Shape, JobState, PC, Procs, Cells, Goto, EvictLock
  <2>2. owner' \in [Copies -> Procs \cup {NoProc}]
    BY <1>12 DEF Shape, Acquire, Procs, EvictLock
  <2> QED
    BY <1>12, <2>1, <2>2 DEF Shape, EvictLock, db, disk, env
<1>13. ASSUME NEW r \in Requests, ListSnapshots(r) PROVE Shape'
  <2>1. job' \in [Procs -> JobState]
    BY <1>13 DEF Shape, JobState, PC, Idle, Procs, Cells, Finish, ListSnapshots
  <2> QED
    BY <1>13, <2>1 DEF Shape, ListSnapshots, db, disk, mem
<1>14. ASSUME NEW r \in Requests, DeleteObject(r) PROVE Shape'
  <2>1. job' \in [Procs -> JobState]
    BY <1>14 DEF Shape, JobState, PC, Idle, Procs, Cells, Goto, Finish, DeleteObject
  <2> QED
    BY <1>14, <2>1 DEF Shape, DeleteObject, db, mem
<1>15. ASSUME NEW r \in Requests, DeleteRows(r) PROVE Shape'
  <2>1. job' \in [Procs -> JobState]
    BY <1>15 DEF Shape, JobState, PC, Idle, Procs, Cells, Finish, DeleteRows
  <2>2. files' \subseteq FileRow
    BY <1>15 DEF Shape, FileRow, JobState, DeleteFile, Procs, DeleteRows
  <2>3. snapshots' \subseteq [file : Nat, version : Nat, object : Nat]
    BY <1>15
       DEF Shape, DeleteSnapshotsForFile, CopyState, JobState, Procs, Ids, At, Held,
           HeldBy, Holding, Flushed, DeleteRows
  <2> QED
    BY <1>15, <2>1, <2>2, <2>3 DEF Shape, DeleteRows, disk, mem
<1>16. ASSUME NEW f \in Ids, ReceiveChunk(f) PROVE Shape'
  <2>1. job' \in [Procs -> JobState]
    <3>1. CASE ~(cache[f] = NoCopy)
      <4>1. [Idle EXCEPT !.pc = "apply", !.cell = cache[f]] \in JobState
        BY DEF JobState, Idle, PC, Cells, Shape
      <4> QED
        BY <1>16, <3>1, <4>1 DEF Shape, ReceiveChunk
    <3>2. CASE cache[f] = NoCopy
      <4>1. FetchFile(f).object \in Nat /\ FetchFile(f).version \in Nat
        BY <1>16, <3>2, Fetched DEF ReceiveChunk, Shape, FileRow
      <4>2. [Idle EXCEPT !.pc = "add", !.file = f, !.object = FetchFile(f).object,
                         !.version = FetchFile(f).version] \in JobState
        BY <4>1 DEF JobState, Idle, PC, Cells
      <4> QED
        BY <1>16, <3>2, <4>2 DEF Shape, ReceiveChunk
    <3> QED
      BY <3>1, <3>2
  <2> QED
    BY <1>16, <2>1 DEF Shape, ReceiveChunk, db, disk, mem, env
<1>17. ASSUME LoadFile PROVE Shape'
  <2>1. job' \in [Procs -> JobState]
    BY <1>17 DEF Shape, JobState, PC, Idle, Procs, Cells, Finish, LoadFile
  <2>2. heap' \in [Copies -> CopyState]
    <3>1. [file |-> job[Editor].file, object |-> job[Editor].object,
           version |-> job[Editor].version, pending |-> FALSE] \in CopyState
      BY DEF Shape, JobState, CopyState, Procs
    <3> QED
      BY <1>17, <3>1 DEF LoadFile, Shape
  <2>3. cache' \in [Ids -> Cells]
    BY <1>17 DEF Shape, Held, HeldBy, At, Procs, Cells, Unreferenced, JobState, LoadFile
  <2> QED
    BY <1>17, <2>1, <2>2, <2>3 DEF Shape, LoadFile, db, disk, env
<1>18. ASSUME ApplyChunk PROVE Shape'
  <2>1. job' \in [Procs -> JobState]
    BY <1>18 DEF Shape, JobState, PC, Idle, Procs, Cells, Finish, ApplyChunk
  <2>2. files' \subseteq FileRow
    <3>1. CASE UNCHANGED files
      BY <3>1 DEF Shape
    <3>2. CASE UpdateFileVersion(heap[job[Editor].cell].file, heap[job[Editor].cell].version + 1)
      <4>1. heap[job[Editor].cell].version + 1 \in Nat
        BY <1>18 DEF ApplyChunk, Shape, Held, HeldBy, At, Procs, CopyState
      <4> QED
        BY <3>2, <4>1 DEF UpdateFileVersion, Shape, FileRow
    <3> QED
      BY <1>18, <3>1, <3>2 DEF ApplyChunk
  <2>3. heap' \in [Copies -> CopyState]
    BY <1>18 DEF Shape, CopyState, Procs, ApplyChunk
  <2> QED
    BY <1>18, <2>1, <2>2, <2>3 DEF Shape, ApplyChunk, disk
<1>19. ASSUME NEW f \in Ids, ProcessFile(f) PROVE Shape'
  <2>1. job' \in [Procs -> JobState]
    <3>1. [Idle EXCEPT !.pc = "lock", !.cell = cache[f]] \in JobState
      BY <1>19 DEF JobState, Idle, PC, Cells, Shape, ProcessFile
    <3> QED
      BY <1>19, <3>1 DEF Shape, ProcessFile
  <2> QED
    BY <1>19, <2>1 DEF Shape, ProcessFile, db, disk, mem, env
<1>20. ASSUME StartFlush PROVE Shape'
  <2>1. job' \in [Procs -> JobState]
    BY <1>20 DEF Shape, JobState, PC, Idle, Procs, Cells, Goto, Finish, StartFlush
  <2>2. owner' \in [Copies -> Procs \cup {NoProc}]
    BY <1>20 DEF Shape, Acquire, Procs, StartFlush
  <2> QED
    BY <1>20, <2>1, <2>2 DEF Shape, StartFlush, db, disk, env
<1>21. ASSUME CreateSnapshotObject PROVE Shape'
  <2>1. job' \in [Procs -> JobState]
    BY <1>21
       DEF Shape, JobState, PC, Procs, Cells, Goto, FreshName, CreateSnapshotObject
  <2>2. nextObject' \in Nat
    BY <1>21 DEF Shape, NewObject, disk, CreateSnapshotObject
  <2> QED
    BY <1>21, <2>1, <2>2 DEF Shape, CreateSnapshotObject, db, disk, mem, env
<1>22. ASSUME CreateSnapshotRow PROVE Shape'
  <2>1. job' \in [Procs -> JobState]
    BY <1>22 DEF Shape, JobState, PC, Procs, Cells, Goto, CreateSnapshotRow
  <2>2. snapshots' \subseteq [file : Nat, version : Nat, object : Nat]
    BY <1>22
       DEF Shape, CreateSnapshot, CopyState, JobState, Procs, Ids, At, Held, HeldBy,
           Holding, Flushed, CreateSnapshotRow
  <2> QED
    BY <1>22, <2>1, <2>2 DEF Shape, CreateSnapshotRow, disk, mem, env
<1>23. ASSUME NEW p \in Procs, StageObject(p) PROVE Shape'
  <2>1. job' \in [Procs -> JobState]
    BY <1>23
       DEF Shape, JobState, PC, Idle, Procs, Cells, Goto, Finish, AfterFlush,
           StageObject
  <2>2. owner' \in [Copies -> Procs \cup {NoProc}]
    BY <1>23 DEF Shape, AfterFlush, Release, Procs, StageObject
  <2> QED
    BY <1>23, <2>1, <2>2 DEF Shape, StageObject, db, env
<1>24. ASSUME NEW p \in Procs, RenameObject(p) PROVE Shape'
  <2>1. job' \in [Procs -> JobState]
    BY <1>24
       DEF Shape, JobState, PC, Idle, Procs, Cells, Goto, Finish, AfterFlush,
           RenameObject
  <2>2. owner' \in [Copies -> Procs \cup {NoProc}]
    BY <1>24 DEF Shape, AfterFlush, Release, Procs, RenameObject
  <2> QED
    BY <1>24, <2>1, <2>2 DEF Shape, RenameObject, db, env
<1>25. ASSUME NEW p \in Procs, FlushDone(p) PROVE Shape'
  <2>1. job' \in [Procs -> JobState]
    BY <1>25 DEF Shape, JobState, PC, Idle, Procs, Cells, Finish, AfterFlush, FlushDone
  <2>2. heap' \in [Copies -> CopyState]
    <3>1. /\ heap \in [Copies -> CopyState]
          /\ heap' = [heap EXCEPT ![job[p].cell].pending = FALSE] \/ heap' = heap
      BY <1>25 DEF Shape, FlushDone
    <3>2. ASSUME NEW x \in Copies
          PROVE  [heap EXCEPT ![x].pending = FALSE] \in [Copies -> CopyState]
      BY <3>1 DEF CopyState
    <3>3. CASE job[p].cell \in Copies
      BY <3>1, <3>2, <3>3
    <3>4. CASE job[p].cell \notin Copies
      BY <3>1, <3>4
    <3> QED
      BY <3>3, <3>4
  <2>3. owner' \in [Copies -> Procs \cup {NoProc}]
    BY <1>25 DEF Shape, AfterFlush, Release, Procs, FlushDone
  <2> QED
    BY <1>25, <2>1, <2>2, <2>3 DEF Shape, FlushDone, db, disk, env
<1>26. ASSUME NEW p \in Procs, FlushFails(p) PROVE Shape'
  <2>1. job' \in [Procs -> JobState]
    BY <1>26 DEF Shape, JobState, PC, Idle, Procs, Cells, Finish, AfterFlush, FlushFails
  <2>2. owner' \in [Copies -> Procs \cup {NoProc}]
    BY <1>26 DEF Shape, AfterFlush, Release, Procs, FlushFails
  <2> QED
    BY <1>26, <2>1, <2>2 DEF Shape, FlushFails, db, disk
<1>27. ASSUME PurgeCache PROVE Shape'
  BY <1>27 DEF Shape, PurgeCache, disk, mem, env
<1>28. ASSUME Crash PROVE Shape'
  <2>1. job' \in [Procs -> JobState]
    BY <1>28 DEF Shape, JobState, PC, Idle, Procs, Cells, Crash
  <2>2. heap' \in [Copies -> CopyState]
    BY <1>28 DEF Shape, CopyState, Blank, Procs, Crash
  <2>3. cache' \in [Ids -> Cells]
    BY <1>28 DEF Shape, Held, HeldBy, Procs, Cells, JobState, Crash
  <2>4. owner' \in [Copies -> Procs \cup {NoProc}]
    BY <1>28 DEF Shape, Procs, Crash
  <2> QED
    BY <1>28, <2>1, <2>2, <2>3, <2>4 DEF Shape, Crash, db, disk
<1>29. CASE UNCHANGED vars
  BY <1>29 DEF Shape, vars, db, disk, mem, env
<1> QED
  BY <1>1, <1>2, <1>3, <1>4, <1>5, <1>6, <1>7, <1>8, <1>9, <1>10, <1>11, <1>12, <1>13,
     <1>14, <1>15, <1>16, <1>17, <1>18, <1>19, <1>20, <1>21, <1>22, <1>23, <1>24, <1>25,
     <1>26, <1>27, <1>28, <1>29
     DEF Next, RequestStep, EditStep, TickerStep, FlushStep

\* Where p stands after a step of p.
Stands(p) ==
  /\ job[p].pc \in {"get", "reset", "remove", "add"} => job[p].file \in Ids
  /\ job[p].pc \in {"reset", "apply", "lock"} => job[p].cell \in Copies
  /\ job[p].pc = "evict" => job[p].victim \in Copies
  /\ p = Ticker => job[p].victim = NoCopy

StepOf(p) == \A q \in Procs : q # p => job'[q] = job[q]

\* A step of a goroutine that holds no mutex before or after it.
LEMMA HeldFree ==
  ASSUME Shape, Held, NEW p \in Procs, StepOf(p), Stands(p)',
         UNCHANGED owner, job[p].pc \notin Holding, job'[p].pc \notin Holding
  PROVE  Held'
<1>1. job'[Ticker].victim = NoCopy
  BY DEF Held, StepOf, Stands, Procs
<1>2. ASSUME NEW q \in Procs PROVE HeldBy(q)'
  BY <1>2 DEF Held, HeldBy, StepOf, Stands, Flushed
<1>3. HoldersGoOn'
  BY DEF Held, HoldersGoOn, StepOf, Flushed, Holding, Shape
<1> QED
  BY <1>1, <1>2, <1>3 DEF Held

\* A step under the mutex.
LEMMA HeldOn ==
  ASSUME Shape, Held, NEW p \in Procs, StepOf(p),
         UNCHANGED owner, job[p].pc \in Holding, job'[p].pc \in Holding,
         job'[p].cell = job[p].cell, job'[p].victim = job[p].victim
  PROVE  Held'
<1>1. job'[Ticker].victim = NoCopy
  BY DEF Held, StepOf, Procs
<1>2. ASSUME NEW q \in Procs PROVE HeldBy(q)'
  BY <1>2 DEF Held, HeldBy, StepOf, Flushed, Holding
<1>3. HoldersGoOn'
  BY DEF Held, HoldersGoOn, StepOf, Flushed, Holding, Shape
<1> QED
  BY <1>1, <1>2, <1>3 DEF Held

\* A mutex is taken.
LEMMA HeldAcquire ==
  ASSUME Shape, Held, NEW p \in Procs, StepOf(p), Stands(p)',
         NEW x \in Copies, Free(x), Acquire(x, p),
         job[p].pc \notin Holding, job'[p].pc \in Holding, Flushed(p)' = x
  PROVE  Held'
<1>1. job'[Ticker].victim = NoCopy
  BY DEF Held, StepOf, Stands, Procs
<1>2. ASSUME NEW q \in Procs PROVE HeldBy(q)'
  <2>1. CASE q = p
    BY <2>1 DEF HeldBy, Stands, Acquire, Shape
  <2>2. CASE q # p
    BY <2>2, ProcsAssumption DEF Held, HeldBy, StepOf, Flushed, Acquire, Free, Shape
  <2> QED
    BY <2>1, <2>2
<1>3. HoldersGoOn'
  BY DEF Held, HoldersGoOn, StepOf, Flushed, Holding, Shape, Acquire
<1> QED
  BY <1>1, <1>2, <1>3 DEF Held

\* The mutex is given back.
LEMMA HeldRelease ==
  ASSUME Shape, Held, NEW p \in Procs, StepOf(p), Stands(p)',
         Release(Flushed(p)), job[p].pc \in Holding, job'[p].pc \notin Holding
  PROVE  Held'
<1>1. job'[Ticker].victim = NoCopy
  BY DEF Held, StepOf, Stands, Procs
<1>2. ASSUME NEW q \in Procs PROVE HeldBy(q)'
  <2>1. CASE q = p
    BY <2>1 DEF HeldBy, Stands
  <2>2. CASE q # p
    BY <2>2 DEF Held, HeldBy, StepOf, Flushed, Release, Shape
  <2> QED
    BY <2>1, <2>2
<1>3. HoldersGoOn'
  BY DEF Held, HeldBy, HoldersGoOn, StepOf, Flushed, Holding, Shape, Release
<1> QED
  BY <1>1, <1>2, <1>3 DEF Held

\* A flush is over, however it went.
LEMMA HeldAfterFlush ==
  ASSUME Shape, Held, NEW p \in Procs, AfterFlush(p), job[p].pc \in Holding
  PROVE  Held'
<1>1. StepOf(p)
  BY DEF AfterFlush, Finish, StepOf, Shape
<1>2. Stands(p)' /\ job'[p].pc \notin Holding
  <2>1. CASE p = Ticker
    BY <2>1 DEF AfterFlush, Finish, Idle, Stands, Shape, Holding
  <2>2. CASE p # Ticker
    <3>1. job'[p].pc = "list"
      BY <2>2 DEF AfterFlush, Shape, JobState
    <3> QED
      BY <2>2, <3>1 DEF Stands, Holding
  <2> QED
    BY <2>1, <2>2
<1> QED
  BY <1>1, <1>2, HeldRelease DEF AfterFlush

\* Every action leaves what is held, and by whom, consistent.
LEMMA HeldStep == Shape /\ Shape' /\ Held /\ [Next]_vars => Held'
<1> SUFFICES ASSUME Shape, Shape', Held, [Next]_vars PROVE Held'
  OBVIOUS
<1>1. ASSUME NEW r \in Requests, NEW q \in Paths, CheckPath(r, q) PROVE Held'
  <2>1. StepOf(r)
    BY <1>1 DEF CheckPath, StepOf, Shape
  <2>2. Stands(r)'
    BY <1>1, ProcsAssumption
       DEF CheckPath, Stands, Shape, At, Procs, Idle, Held, HeldBy, Cells, JobState
  <2>3. job[r].pc \notin Holding /\ job'[r].pc \notin Holding
    BY <1>1 DEF CheckPath, Shape, At, Procs, Idle, Holding, JobState
  <2> QED
    BY <1>1, <2>1, <2>2, <2>3, HeldFree DEF CheckPath, Procs, mem
<1>2. ASSUME NEW r \in Requests, NEW f \in Ids, NEW q \in Paths, RequestRename(r, f, q)
      PROVE  Held'
  <2>1. StepOf(r)
    BY <1>2 DEF RequestRename, StepOf, Shape
  <2>2. Stands(r)'
    BY <1>2, ProcsAssumption
       DEF RequestRename, Stands, Shape, At, Procs, Idle, Held, HeldBy, Cells, JobState
  <2>3. job[r].pc \notin Holding /\ job'[r].pc \notin Holding
    BY <1>2 DEF RequestRename, Shape, At, Procs, Idle, Holding, JobState
  <2> QED
    BY <1>2, <2>1, <2>2, <2>3, HeldFree DEF RequestRename, Procs, mem
<1>3. ASSUME NEW r \in Requests, RequestExport(r) PROVE Held'
  <2>1. StepOf(r)
    BY <1>3 DEF RequestExport, StepOf, Shape
  <2>2. Stands(r)'
    BY <1>3, ProcsAssumption
       DEF RequestExport, Stands, Shape, At, Procs, Idle, Held, HeldBy, Cells, JobState
  <2>3. job[r].pc \notin Holding /\ job'[r].pc \notin Holding
    BY <1>3 DEF RequestExport, Shape, At, Procs, Idle, Holding, JobState
  <2> QED
    BY <1>3, <2>1, <2>2, <2>3, HeldFree DEF RequestExport, Procs, mem
<1>4. ASSUME NEW r \in Requests, NEW f \in Ids, RequestDelete(r, f) PROVE Held'
  <2>1. StepOf(r)
    BY <1>4 DEF RequestDelete, StepOf, Shape
  <2>2. Stands(r)'
    BY <1>4, ProcsAssumption
       DEF RequestDelete, Stands, Shape, At, Procs, Idle, Held, HeldBy, Cells, JobState
  <2>3. job[r].pc \notin Holding /\ job'[r].pc \notin Holding
    BY <1>4 DEF RequestDelete, Shape, At, Procs, Idle, Holding, JobState
  <2> QED
    BY <1>4, <2>1, <2>2, <2>3, HeldFree DEF RequestDelete, Procs, mem
<1>5. ASSUME NEW r \in Requests, CreateObject(r) PROVE Held'
  <2>1. StepOf(r)
    BY <1>5 DEF CreateObject, StepOf, Shape, Finish
  <2>2. Stands(r)'
    BY <1>5, ProcsAssumption
       DEF CreateObject, Stands, Shape, At, Procs, Idle, Finish, Held, HeldBy, Cells,
           JobState
  <2>3. job[r].pc \notin Holding /\ job'[r].pc \notin Holding
    BY <1>5 DEF CreateObject, Shape, At, Procs, Idle, Finish, Holding, JobState
  <2> QED
    BY <1>5, <2>1, <2>2, <2>3, HeldFree DEF CreateObject, Procs, mem
<1>6. ASSUME NEW r \in Requests, InsertFile(r) PROVE Held'
  <2>1. StepOf(r)
    BY <1>6 DEF InsertFile, StepOf, Shape, Finish
  <2>2. Stands(r)'
    BY <1>6, ProcsAssumption
       DEF InsertFile, Stands, Shape, At, Procs, Idle, Finish, Held, HeldBy, Cells,
           JobState
  <2>3. job[r].pc \notin Holding /\ job'[r].pc \notin Holding
    BY <1>6 DEF InsertFile, Shape, At, Procs, Idle, Finish, Holding, JobState
  <2> QED
    BY <1>6, <2>1, <2>2, <2>3, HeldFree DEF InsertFile, Procs, mem
<1>7. ASSUME NEW r \in Requests, RenameFile(r) PROVE Held'
  <2>1. StepOf(r)
    BY <1>7 DEF RenameFile, StepOf, Shape, Finish
  <2>2. Stands(r)'
    BY <1>7, ProcsAssumption
       DEF RenameFile, Stands, Shape, At, Procs, Idle, Finish, Held, HeldBy, Cells,
           JobState
  <2>3. job[r].pc \notin Holding /\ job'[r].pc \notin Holding
    BY <1>7 DEF RenameFile, Shape, At, Procs, Idle, Finish, Holding, JobState
  <2> QED
    BY <1>7, <2>1, <2>2, <2>3, HeldFree DEF RenameFile, Procs, mem
<1>8. ASSUME NEW r \in Requests, ExportFile(r) PROVE Held'
  <2>1. StepOf(r)
    BY <1>8 DEF ExportFile, StepOf, Shape, Finish
  <2>2. Stands(r)'
    BY <1>8, ProcsAssumption
       DEF ExportFile, Stands, Shape, At, Procs, Idle, Finish, Held, HeldBy, Cells,
           JobState
  <2>3. job[r].pc \notin Holding /\ job'[r].pc \notin Holding
    BY <1>8 DEF ExportFile, Shape, At, Procs, Idle, Finish, Holding, JobState
  <2> QED
    BY <1>8, <2>1, <2>2, <2>3, HeldFree DEF ExportFile, Procs, mem
<1>9. ASSUME NEW r \in Requests, LookUpCached(r) PROVE Held'
  <2>1. StepOf(r)
    BY <1>9 DEF LookUpCached, StepOf, Shape
  <2>2. Stands(r)'
    BY <1>9, ProcsAssumption
       DEF LookUpCached, Stands, Shape, At, Procs, Held, HeldBy, Cells, JobState
  <2>3. job[r].pc \notin Holding /\ job'[r].pc \notin Holding
    BY <1>9 DEF LookUpCached, Shape, At, Procs, Holding, JobState
  <2> QED
    BY <1>9, <2>1, <2>2, <2>3, HeldFree DEF LookUpCached, Procs, mem
<1>10. ASSUME NEW r \in Requests, ResetPending(r) PROVE Held'
  <2>1. StepOf(r)
    BY <1>10 DEF ResetPending, StepOf, Shape, Goto
  <2>2. Stands(r)'
    BY <1>10, ProcsAssumption
       DEF ResetPending, Stands, Shape, At, Procs, Goto, Held, HeldBy, Cells, JobState
  <2>3. job[r].pc \notin Holding /\ job'[r].pc \notin Holding
    BY <1>10 DEF ResetPending, Shape, At, Procs, Goto, Holding, JobState
  <2> QED
    BY <1>10, <2>1, <2>2, <2>3, HeldFree DEF ResetPending, Procs
<1>11. ASSUME NEW r \in Requests, RemoveCached(r) PROVE Held'
  <2>1. StepOf(r)
    BY <1>11 DEF RemoveCached, StepOf, Shape
  <2>2. Stands(r)'
    <3>1. /\ r \in Procs /\ r # Ticker /\ job[r] \in JobState
          /\ job[r].pc = "remove" /\ job[r].file \in Ids
      BY <1>11, ProcsAssumption DEF RemoveCached, At, Shape, Procs, Held, HeldBy
    <3>2. cache[job[r].file] \in Copies \cup {NoCopy}
      BY <3>1 DEF Shape, Cells
    <3>3. /\ job'[r].pc = IF cache[job[r].file] = NoCopy THEN "list" ELSE "evict"
          /\ job'[r].victim = cache[job[r].file]
      BY <1>11, <3>1 DEF RemoveCached, Shape, JobState
    <3> QED
      BY <3>1, <3>2, <3>3 DEF Stands
  <2>3. job[r].pc \notin Holding /\ job'[r].pc \notin Holding
    BY <1>11 DEF RemoveCached, Shape, At, Procs, Holding, JobState
  <2> QED
    BY <1>11, <2>1, <2>2, <2>3, HeldFree DEF RemoveCached, Procs
<1>12. ASSUME NEW r \in Requests, EvictLock(r) PROVE Held'
  <2>1. CASE heap[job[r].victim].pending
    <3>1. job[r].victim \in Copies /\ r \in Procs
      BY <1>12 DEF EvictLock, Held, HeldBy, At, Procs
    <3>2. StepOf(r) /\ job[r].pc = "evict" /\ job'[r].pc = "stage"
      BY <1>12, <2>1 DEF EvictLock, StepOf, Shape, At, Procs, Goto, JobState
    <3>5. Stands(r)' /\ job[r].pc \notin Holding /\ job'[r].pc \in Holding
      BY <3>2, ProcsAssumption DEF Stands, Holding
    <3>3. Flushed(r)' = job[r].victim
      BY <1>12, <2>1, <3>1, CopiesAssumption
         DEF EvictLock, Flushed, Goto, Shape, JobState
    <3>4. Free(job[r].victim) /\ Acquire(job[r].victim, r)
      BY <1>12, <2>1 DEF EvictLock
    <3> QED
      BY <3>1, <3>2, <3>3, <3>4, <3>5, HeldAcquire
  <2>2. CASE ~heap[job[r].victim].pending
    <3>1. StepOf(r) /\ job[r].pc = "evict" /\ job'[r].pc = "list"
      BY <1>12, <2>2 DEF EvictLock, StepOf, Shape, At, Procs, JobState
    <3>2. Stands(r)' /\ job[r].pc \notin Holding /\ job'[r].pc \notin Holding
      BY <3>1, ProcsAssumption DEF Stands, Holding
    <3> QED
      BY <1>12, <2>2, <3>1, <3>2, HeldFree DEF EvictLock, Procs
  <2> QED
    BY <2>1, <2>2
<1>13. ASSUME NEW r \in Requests, ListSnapshots(r) PROVE Held'
  <2>1. StepOf(r)
    BY <1>13 DEF ListSnapshots, StepOf, Shape, Finish
  <2>2. Stands(r)'
    BY <1>13, ProcsAssumption
       DEF ListSnapshots, Stands, Shape, At, Procs, Idle, Finish, Held, HeldBy, Cells,
           JobState
  <2>3. job[r].pc \notin Holding /\ job'[r].pc \notin Holding
    BY <1>13 DEF ListSnapshots, Shape, At, Procs, Idle, Finish, Holding, JobState
  <2> QED
    BY <1>13, <2>1, <2>2, <2>3, HeldFree DEF ListSnapshots, Procs, mem
<1>14. ASSUME NEW r \in Requests, DeleteObject(r) PROVE Held'
  <2>1. StepOf(r)
    BY <1>14 DEF DeleteObject, StepOf, Shape, Finish, Goto
  <2>2. Stands(r)'
    BY <1>14, ProcsAssumption
       DEF DeleteObject, Stands, Shape, At, Procs, Idle, Finish, Goto, Held, HeldBy,
           Cells, JobState
  <2>3. job[r].pc \notin Holding /\ job'[r].pc \notin Holding
    BY <1>14 DEF DeleteObject, Shape, At, Procs, Idle, Finish, Goto, Holding, JobState
  <2> QED
    BY <1>14, <2>1, <2>2, <2>3, HeldFree DEF DeleteObject, Procs, mem
<1>15. ASSUME NEW r \in Requests, DeleteRows(r) PROVE Held'
  <2>1. StepOf(r)
    BY <1>15 DEF DeleteRows, StepOf, Shape, Finish
  <2>2. Stands(r)'
    BY <1>15, ProcsAssumption
       DEF DeleteRows, Stands, Shape, At, Procs, Idle, Finish, Held, HeldBy, Cells,
           JobState
  <2>3. job[r].pc \notin Holding /\ job'[r].pc \notin Holding
    BY <1>15 DEF DeleteRows, Shape, At, Procs, Idle, Finish, Holding, JobState
  <2> QED
    BY <1>15, <2>1, <2>2, <2>3, HeldFree DEF DeleteRows, Procs, mem
<1>16. ASSUME NEW f \in Ids, ReceiveChunk(f) PROVE Held'
  <2>1. StepOf(Editor) /\ job[Editor].pc = "idle"
    BY <1>16 DEF ReceiveChunk, StepOf, Shape, At
  <2>2. \/ job'[Editor].pc = "apply" /\ job'[Editor].cell \in Copies
        \/ job'[Editor].pc = "add" /\ job'[Editor].file \in Ids
    <3>1. CASE cache[f] \in Copies
      <4>1. job' = [job EXCEPT ![Editor] = [Idle EXCEPT !.pc = "apply", !.cell = cache[f]]]
        BY <1>16, <3>1, CopiesAssumption DEF ReceiveChunk
      <4> QED
        BY <3>1, <4>1 DEF Shape, Procs, Idle
    <3>2. CASE cache[f] = NoCopy
      <4>1. job' = [job EXCEPT ![Editor] = [Idle EXCEPT
                      !.pc = "add", !.file = f, !.object = FetchFile(f).object,
                      !.version = FetchFile(f).version]]
        BY <1>16, <3>2 DEF ReceiveChunk
      <4> QED
        BY <4>1 DEF Shape, Procs, Idle
    <3> QED
      BY <3>1, <3>2 DEF Shape, Cells
  <2>3. Stands(Editor)' /\ job[Editor].pc \notin Holding /\ job'[Editor].pc \notin Holding
    BY <2>1, <2>2, ProcsAssumption DEF Stands, Holding
  <2> QED
    BY <1>16, <2>1, <2>3, HeldFree DEF ReceiveChunk, Procs, mem
<1>17. ASSUME LoadFile PROVE Held'
  <2>1. StepOf(Editor) /\ job[Editor].pc = "add"
    BY <1>17 DEF LoadFile, StepOf, Shape, At, Finish
  <2>2. \/ job'[Editor].pc = "apply" /\ job'[Editor].cell \in Copies
        \/ job'[Editor].pc = "idle"
    <3>1. (CHOOSE y \in Unreferenced : TRUE) \in Copies
      BY <1>17 DEF LoadFile, Unreferenced
    <3>2. CASE job[Editor].object \in DOMAIN store
      <4> DEFINE x == CHOOSE y \in Unreferenced : TRUE
      <4>1. job' = [job EXCEPT ![Editor].pc = "apply", ![Editor].cell = x]
        BY <1>17, <3>2 DEF LoadFile
      <4>2. x \in Copies
        BY <3>1
      <4> HIDE DEF x
      <4> QED
        BY <4>1, <4>2 DEF Shape, Procs, JobState
    <3>3. CASE job[Editor].object \notin DOMAIN store
      BY <1>17, <3>3 DEF LoadFile, Shape, Procs, Finish, Idle
    <3> QED
      BY <3>2, <3>3
  <2>3. Stands(Editor)' /\ job[Editor].pc \notin Holding /\ job'[Editor].pc \notin Holding
    BY <2>1, <2>2, ProcsAssumption DEF Stands, Holding
  <2> QED
    BY <1>17, <2>1, <2>3, HeldFree DEF LoadFile, Procs
<1>18. ASSUME ApplyChunk PROVE Held'
  <2>1. StepOf(Editor)
    BY <1>18 DEF ApplyChunk, StepOf, Shape, Finish
  <2>2. Stands(Editor)'
    BY <1>18, ProcsAssumption
       DEF ApplyChunk, Stands, Shape, At, Procs, Idle, Finish, Held, HeldBy, Cells,
           JobState
  <2>3. job[Editor].pc \notin Holding /\ job'[Editor].pc \notin Holding
    BY <1>18 DEF ApplyChunk, Shape, At, Procs, Idle, Finish, Holding, JobState
  <2> QED
    BY <1>18, <2>1, <2>2, <2>3, HeldFree DEF ApplyChunk, Procs
<1>19. ASSUME NEW f \in Ids, ProcessFile(f) PROVE Held'
  <2>1. StepOf(Ticker)
    BY <1>19 DEF ProcessFile, StepOf, Shape
  <2>2. Stands(Ticker)'
    BY <1>19
       DEF ProcessFile, Stands, Shape, At, Procs, Idle, Held, HeldBy, Cells, JobState
  <2>3. job[Ticker].pc \notin Holding /\ job'[Ticker].pc \notin Holding
    BY <1>19 DEF ProcessFile, Shape, At, Procs, Idle, Holding, JobState
  <2> QED
    BY <1>19, <2>1, <2>2, <2>3, HeldFree DEF ProcessFile, Procs, mem
<1>20. ASSUME StartFlush PROVE Held'
  <2>1. CASE Goto(Ticker, "snapshot") /\ Acquire(job[Ticker].cell, Ticker)
    <3>1. job[Ticker].cell \in Copies /\ Ticker \in Procs
      BY <1>20 DEF StartFlush, Held, HeldBy, At, Procs
    <3>2. /\ StepOf(Ticker) /\ Stands(Ticker)'
          /\ job[Ticker].pc \notin Holding /\ job'[Ticker].pc \in Holding
      BY <1>20, <2>1
         DEF StartFlush, StepOf, Stands, Shape, At, Procs, Goto, Holding, Held
    <3>3. Flushed(Ticker)' = job[Ticker].cell
      BY <1>20, <2>1, <3>1 DEF StartFlush, Flushed, Goto, Shape, JobState, Held
    <3> QED
      BY <1>20, <2>1, <3>1, <3>2, <3>3, HeldAcquire DEF StartFlush
  <2>2. CASE Finish(Ticker) /\ UNCHANGED owner
    <3>1. /\ StepOf(Ticker) /\ Stands(Ticker)'
          /\ job[Ticker].pc \notin Holding /\ job'[Ticker].pc \notin Holding
      BY <1>20, <2>2
         DEF StartFlush, StepOf, Stands, Shape, At, Procs, Finish, Idle, Holding
    <3> QED
      BY <2>2, <3>1, HeldFree DEF Procs
  <2> QED
    BY <1>20, <2>1, <2>2 DEF StartFlush
<1>21. ASSUME CreateSnapshotObject PROVE Held'
  <2>1. StepOf(Ticker)
    BY <1>21 DEF CreateSnapshotObject, StepOf, Shape, Goto
  <2>3. job[Ticker].pc \in Holding /\ job'[Ticker].pc \in Holding
    BY <1>21 DEF CreateSnapshotObject, Shape, At, Procs, Goto, Holding, JobState
  <2>2. job'[Ticker].cell = job[Ticker].cell /\ job'[Ticker].victim = job[Ticker].victim
    BY <1>21 DEF CreateSnapshotObject, Shape, Procs, Goto, JobState
  <2> QED
    BY <1>21, <2>1, <2>2, <2>3, HeldOn DEF CreateSnapshotObject, Procs, mem
<1>22. ASSUME CreateSnapshotRow PROVE Held'
  <2>1. StepOf(Ticker)
    BY <1>22 DEF CreateSnapshotRow, StepOf, Shape, Goto
  <2>3. job[Ticker].pc \in Holding /\ job'[Ticker].pc \in Holding
    BY <1>22 DEF CreateSnapshotRow, Shape, At, Procs, Goto, Holding, JobState
  <2>2. job'[Ticker].cell = job[Ticker].cell /\ job'[Ticker].victim = job[Ticker].victim
    BY <1>22 DEF CreateSnapshotRow, Shape, Procs, Goto, JobState
  <2> QED
    BY <1>22, <2>1, <2>2, <2>3, HeldOn DEF CreateSnapshotRow, Procs, mem
<1>23. ASSUME NEW p \in Procs, StageObject(p) PROVE Held'
  <2>1. job[p].pc \in Holding
    BY <1>23 DEF StageObject, At, Holding
  <2>2. CASE AfterFlush(p)
    BY <2>1, <2>2, HeldAfterFlush
  <2>3. CASE (Goto(p, "rename") \/ Goto(p, "hash")) /\ UNCHANGED owner
    <3>1. StepOf(p)
      BY <2>3 DEF StepOf, Shape, Goto
    <3>3. job'[p].pc \in Holding
      BY <2>3 DEF Shape, Goto, Holding, JobState
    <3>2. job'[p].cell = job[p].cell /\ job'[p].victim = job[p].victim
      BY <2>3 DEF Shape, Goto, JobState
    <3> QED
      BY <2>1, <2>3, <3>1, <3>2, <3>3, HeldOn
  <2> QED
    BY <1>23, <2>2, <2>3 DEF StageObject
<1>24. ASSUME NEW p \in Procs, RenameObject(p) PROVE Held'
  <2>1. job[p].pc \in Holding
    BY <1>24 DEF RenameObject, At, Holding
  <2>2. CASE AfterFlush(p)
    BY <2>1, <2>2, HeldAfterFlush
  <2>3. CASE (Goto(p, "rename") \/ Goto(p, "hash")) /\ UNCHANGED owner
    <3>1. StepOf(p)
      BY <2>3 DEF StepOf, Shape, Goto
    <3>3. job'[p].pc \in Holding
      BY <2>3 DEF Shape, Goto, Holding, JobState
    <3>2. job'[p].cell = job[p].cell /\ job'[p].victim = job[p].victim
      BY <2>3 DEF Shape, Goto, JobState
    <3> QED
      BY <2>1, <2>3, <3>1, <3>2, <3>3, HeldOn
  <2> QED
    BY <1>24, <2>2, <2>3 DEF RenameObject
<1>25. ASSUME NEW p \in Procs, FlushDone(p) PROVE Held'
  <2>1. job[p].pc \in Holding
    BY <1>25 DEF FlushDone, At, Holding
  <2> QED
    BY <1>25, <2>1, HeldAfterFlush DEF FlushDone
<1>26. ASSUME NEW p \in Procs, FlushFails(p) PROVE Held'
  <2>1. job[p].pc \in Holding
    BY <1>26 DEF FlushFails, Holding
  <2> QED
    BY <1>26, <2>1, HeldAfterFlush DEF FlushFails
<1>27. ASSUME PurgeCache PROVE Held'
  BY <1>27 DEF PurgeCache, Held, HeldBy, HoldersGoOn, Flushed, mem
<1>28. ASSUME Crash PROVE Held'
  <2>1. \A p \in Procs : job'[p].pc = "idle" /\ job'[p].victim = NoCopy
    BY <1>28 DEF Crash, Idle
  <2>2. \A x \in Copies : owner'[x] = NoProc
    BY <1>28 DEF Crash
  <2> QED
    BY <2>1, <2>2 DEF Held, HeldBy, HoldersGoOn, Holding, Procs
<1>29. CASE UNCHANGED vars
  BY <1>29 DEF Held, HeldBy, HoldersGoOn, Flushed, vars, mem
<1> QED
  BY <1>1, <1>2, <1>3, <1>4, <1>5, <1>6, <1>7, <1>8, <1>9, <1>10, <1>11, <1>12, <1>13,
     <1>14, <1>15, <1>16, <1>17, <1>18, <1>19, <1>20, <1>21, <1>22, <1>23, <1>24, <1>25,
     <1>26, <1>27, <1>28, <1>29
     DEF Next, RequestStep, EditStep, TickerStep, FlushStep

-------------------------------------------------------------------------------
(* The keys of the rows *)

\* A row that is written keeps its id and its object.
LEMMA Rewritten ==
  ASSUME Shape, NEW f, NEW q \in Paths \cup {NoPath}, NEW v \in Nat,
         UpdateWorkspacePath(f, q) \/ UpdateFileVersion(f, v)
  PROVE  /\ \A n \in files' : \E r \in files : n.id = r.id /\ n.object = r.object
         /\ \A r \in files : \E n \in files' : n.id = r.id /\ n.object = r.object
<1>1. ASSUME NEW n \in files' PROVE \E r \in files : n.id = r.id /\ n.object = r.object
  BY <1>1 DEF UpdateWorkspacePath, UpdateFileVersion, Shape, FileRow
<1>2. ASSUME NEW r \in files PROVE \E n \in files' : n.id = r.id /\ n.object = r.object
  <2>1. CASE UpdateWorkspacePath(f, q)
    <3> DEFINE n == IF r.id = f THEN [r EXCEPT !.path = q] ELSE r
    <3>1. n \in files' /\ n.id = r.id /\ n.object = r.object
      BY <2>1 DEF UpdateWorkspacePath, Shape, FileRow
    <3> QED
      BY <3>1
  <2>2. CASE UpdateFileVersion(f, v)
    <3> DEFINE n == IF r.id = f THEN [r EXCEPT !.version = v] ELSE r
    <3>1. n \in files' /\ n.id = r.id /\ n.object = r.object
      BY <2>2 DEF UpdateFileVersion, Shape, FileRow
    <3> QED
      BY <3>1
  <2> QED
    BY <2>1, <2>2
<1> QED
  BY <1>1, <1>2

\* The row that is inserted.
LEMMA Created ==
  ASSUME NEW q, NEW o, CreateFile(q, o)
  PROVE  \A n \in files' : n \in files \/ (n.id = nextId /\ n.object = o)
BY DEF CreateFile

\* A rename to a path that is free keeps the keys.
LEMMA KeysRename ==
  ASSUME Shape, Keys, NEW f, NEW q \in Paths \cup {NoPath}, UpdateWorkspacePath(f, q), PathFree(f, q),
         UNCHANGED nextId
  PROVE  Keys'
<1>1. \A n \in files' : \E r \in files :
        /\ n.id = r.id /\ n = IF r.id = f THEN [r EXCEPT !.path = q] ELSE r
        /\ n.path = IF r.id = f THEN q ELSE r.path
  BY DEF UpdateWorkspacePath, Shape, FileRow
<1> QED
  BY <1>1 DEF Keys, OnePathOneFile, PathFree

\* A new version keeps the keys.
LEMMA KeysVersion ==
  ASSUME Shape, Keys, NEW f, NEW v \in Nat, UpdateFileVersion(f, v), UNCHANGED nextId
  PROVE  Keys'
<1>1. \A n \in files' : \E r \in files :
        /\ n.id = r.id /\ n = IF r.id = f THEN [r EXCEPT !.version = v] ELSE r
        /\ n.path = r.path
  BY DEF UpdateFileVersion, Shape, FileRow
<1> QED
  BY <1>1 DEF Keys, OnePathOneFile

\* A new row with a free path keeps the keys.
LEMMA KeysInsert ==
  ASSUME Shape, Keys, NEW q, NEW o, CreateFile(q, o), PathFree(nextId, q)
  PROVE  Keys'
<1>1. \A r \in files : r.id \in Nat /\ r.id < nextId /\ r.path # q
  BY DEF Keys, PathFree, Shape, FileRow
<1> QED
  BY <1>1 DEF Keys, OnePathOneFile, CreateFile, Shape

\* Every action keeps the keys of files.
LEMMA KeysStep == Shape /\ Held /\ Keys /\ [Next]_vars => Keys'
<1> SUFFICES ASSUME Shape, Held, Keys, [Next]_vars PROVE Keys'
  OBVIOUS
<1>1. ASSUME NEW r \in Requests, InsertFile(r) PROVE Keys'
  <2>1. CASE PathFree(nextId, job[r].path) /\ CreateFile(job[r].path, job[r].object)
    BY <2>1, KeysInsert
  <2>2. CASE UNCHANGED <<files, nextId>>
    BY <2>2 DEF Keys, OnePathOneFile
  <2> QED
    BY <1>1, <2>1, <2>2 DEF InsertFile
<1>2. ASSUME NEW r \in Requests, RenameFile(r) PROVE Keys'
  <2>1. CASE PathFree(job[r].file, job[r].path)
    <3>1. job[r].path \in Paths \cup {NoPath}
      BY DEF Shape, JobState, Procs
    <3> QED
      BY <1>2, <2>1, <3>1, KeysRename DEF RenameFile
  <2>2. CASE UNCHANGED <<files, nextId>>
    BY <2>2 DEF Keys, OnePathOneFile
  <2> QED
    BY <1>2, <2>1, <2>2 DEF RenameFile
<1>3. ASSUME NEW r \in Requests, DeleteRows(r) PROVE Keys'
  <2>1. files' \subseteq files /\ UNCHANGED nextId
    BY <1>3 DEF DeleteRows, DeleteFile
  <2> QED
    BY <2>1 DEF Keys, OnePathOneFile
<1>4. ASSUME ApplyChunk PROVE Keys'
  <2>1. heap[job[Editor].cell].version + 1 \in Nat
    BY <1>4 DEF ApplyChunk, Shape, Held, HeldBy, At, Procs, CopyState
  <2>2. CASE UpdateFileVersion(heap[job[Editor].cell].file, heap[job[Editor].cell].version + 1)
    BY <1>4, <2>1, <2>2, KeysVersion DEF ApplyChunk
  <2>3. CASE UNCHANGED <<files, nextId>>
    BY <2>3 DEF Keys, OnePathOneFile
  <2> QED
    BY <1>4, <2>2, <2>3 DEF ApplyChunk
<1>5. CASE UNCHANGED <<files, nextId>>
  BY <1>5 DEF Keys, OnePathOneFile
<1>6. ASSUME NEW r \in Requests,
          \/ (\E q \in Paths : CheckPath(r, q)) \/ RequestExport(r)
          \/ (\E f \in Ids, q \in Paths : RequestRename(r, f, q))
          \/ (\E f \in Ids : RequestDelete(r, f)) \/ CreateObject(r) \/ ExportFile(r)
          \/ LookUpCached(r) \/ ResetPending(r) \/ RemoveCached(r)
          \/ EvictLock(r) \/ ListSnapshots(r) \/ DeleteObject(r)
      PROVE  Keys'
  BY <1>6, <1>5
     DEF CheckPath, RequestRename, RequestExport, RequestDelete, CreateObject,
         ExportFile, LookUpCached, ResetPending, RemoveCached, EvictLock,
         ListSnapshots, DeleteObject, db, disk, mem, env
<1>7. ASSUME    \/ (\E f \in Ids : ReceiveChunk(f)) \/ LoadFile
      PROVE  Keys'
  BY <1>7, <1>5 DEF ReceiveChunk, LoadFile, db, disk, mem, env
<1>8. ASSUME    \/ (\E f \in Ids : ProcessFile(f)) \/ StartFlush \/ CreateSnapshotObject
          \/ CreateSnapshotRow
      PROVE  Keys'
  BY <1>8, <1>5
     DEF ProcessFile, StartFlush, CreateSnapshotObject, CreateSnapshotRow, db, disk,
         mem, env
<1>9. ASSUME NEW p \in Procs,
          \/ StageObject(p) \/ RenameObject(p) \/ FlushDone(p)
          \/ FlushFails(p)
      PROVE  Keys'
  BY <1>9, <1>5 DEF StageObject, RenameObject, FlushDone, FlushFails, db, disk, env
<1>10. ASSUME    \/ PurgeCache \/ Crash
      PROVE  Keys'
  BY <1>10, <1>5 DEF PurgeCache, Crash, db, disk, mem, env
<1>11. CASE UNCHANGED vars
  BY <1>11, <1>5 DEF vars, db, disk, mem, env
<1> QED
  BY <1>1, <1>2, <1>3, <1>4, <1>5, <1>6, <1>7, <1>8, <1>9, <1>10, <1>11
     DEF Next, RequestStep, EditStep, TickerStep, FlushStep

-------------------------------------------------------------------------------
(* The objects *)

\* Whoever removes an object has come to delete it.
LEMMA MadeGrows == [Next]_vars => Made \subseteq Made'
<1> SUFFICES ASSUME [Next]_vars PROVE Made \subseteq Made'
  OBVIOUS
<1>1. ASSUME NEW r \in Requests, CreateObject(r) PROVE Made \subseteq Made'
  <2>1. DOMAIN store \subseteq DOMAIN store'
    BY <1>1 DEF CreateObject, Fill, NewObject, disk
  <2> QED
    BY <1>1, <2>1 DEF CreateObject, Made
<1>2. ASSUME NEW r \in Requests, DeleteObject(r) PROVE Made \subseteq Made'
  <2>1. ASSUME NEW o, Unlink(o) PROVE Made \subseteq Made'
    BY <2>1 DEF Unlink, Made
  <2> QED
    BY <1>2, <2>1 DEF DeleteObject, Made
<1>3. ASSUME CreateSnapshotObject PROVE Made \subseteq Made'
  <2>1. DOMAIN store \subseteq DOMAIN store'
    BY <1>3 DEF CreateSnapshotObject, Fill, NewObject, disk
  <2> QED
    BY <1>3, <2>1 DEF CreateSnapshotObject, Made, env
<1>4. ASSUME NEW p \in Procs, RenameObject(p) PROVE Made \subseteq Made'
  <2>1. DOMAIN store \subseteq DOMAIN store'
    BY <1>4 DEF RenameObject, Fill
  <2> QED
    BY <1>4, <2>1 DEF RenameObject, Made, env
<1>5. CASE UNCHANGED <<store, unlinked>>
  BY <1>5 DEF Made
<1>6. ASSUME NEW r \in Requests,
          \/ (\E q \in Paths : CheckPath(r, q)) \/ RequestExport(r)
          \/ (\E f \in Ids, q \in Paths : RequestRename(r, f, q))
          \/ (\E f \in Ids : RequestDelete(r, f)) \/ InsertFile(r) \/ RenameFile(r)
          \/ ExportFile(r) \/ LookUpCached(r) \/ ResetPending(r)
          \/ RemoveCached(r) \/ EvictLock(r) \/ ListSnapshots(r)
          \/ DeleteRows(r)
      PROVE  Made \subseteq Made'
  BY <1>6, <1>5
     DEF CheckPath, RequestRename, RequestExport, RequestDelete, InsertFile,
         RenameFile, ExportFile, LookUpCached, ResetPending, RemoveCached, EvictLock,
         ListSnapshots, DeleteRows, db, disk, mem, env
<1>7. ASSUME    \/ (\E f \in Ids : ReceiveChunk(f)) \/ LoadFile \/ ApplyChunk
      PROVE  Made \subseteq Made'
  BY <1>7, <1>5 DEF ReceiveChunk, LoadFile, ApplyChunk, db, disk, mem, env
<1>8. ASSUME    \/ (\E f \in Ids : ProcessFile(f)) \/ StartFlush \/ CreateSnapshotRow
      PROVE  Made \subseteq Made'
  BY <1>8, <1>5 DEF ProcessFile, StartFlush, CreateSnapshotRow, db, disk, mem, env
<1>9. ASSUME NEW p \in Procs,
          \/ StageObject(p) \/ FlushDone(p) \/ FlushFails(p)
      PROVE  Made \subseteq Made'
  BY <1>9, <1>5 DEF StageObject, FlushDone, FlushFails, db, disk, env
<1>10. ASSUME    \/ PurgeCache \/ Crash
      PROVE  Made \subseteq Made'
  BY <1>10, <1>5 DEF PurgeCache, Crash, db, disk, mem, env
<1>11. CASE UNCHANGED vars
  BY <1>11, <1>5 DEF vars, db, disk, mem, env
<1> QED
  BY <1>1, <1>2, <1>3, <1>4, <1>5, <1>6, <1>7, <1>8, <1>9, <1>10, <1>11
     DEF Next, RequestStep, EditStep, TickerStep, FlushStep

\* What a step that promises no new object has to show.
LEMMA KeptQuiet ==
  ASSUME Kept, Made \subseteq Made', NEW p \in Procs, StepOf(p),
         \A n \in files' : \E r \in files : n.object = r.object,
         \A n \in snapshots' : n.object \in Made',
         job'[p].pc \notin {"insert", "record", "export"}
  PROVE  Kept'
<1>1. ASSUME NEW q \in Procs
      PROVE  /\ job'[q].pc \in {"insert", "record"} => job'[q].object \in Made'
             /\ job'[q].pc = "export" => job'[q].todo \subseteq Made'
  BY DEF Kept, StepOf
<1>2. \A n \in files' : n.object \in Made'
  BY DEF Kept
<1> QED
  BY <1>1, <1>2 DEF Kept

\* Every action keeps what was promised to exist.
LEMMA KeptStep == Shape /\ Held /\ Kept /\ [Next]_vars => Kept'
<1> SUFFICES ASSUME Shape, Held, Kept, [Next]_vars PROVE Kept'
  OBVIOUS
<1>1. ASSUME NEW r \in Requests, NEW q \in Paths, CheckPath(r, q) PROVE Kept'
  <2>1. StepOf(r)
    BY <1>1 DEF CheckPath, StepOf, Shape
  <2>2. job'[r].pc \notin {"insert", "record", "export"}
    BY <1>1 DEF CheckPath, Shape, JobState, Procs, Idle
  <2>3. UNCHANGED <<files, snapshots>>
    BY <1>1 DEF CheckPath, db
  <2> QED
    BY <2>1, <2>2, <2>3, MadeGrows, KeptQuiet DEF Kept, Procs
<1>2. ASSUME NEW r \in Requests, NEW f \in Ids, NEW q \in Paths, RequestRename(r, f, q)
      PROVE  Kept'
  <2>1. StepOf(r)
    BY <1>2 DEF RequestRename, StepOf, Shape
  <2>2. job'[r].pc \notin {"insert", "record", "export"}
    BY <1>2 DEF RequestRename, Shape, JobState, Procs, Idle
  <2>3. UNCHANGED <<files, snapshots>>
    BY <1>2 DEF RequestRename, db
  <2> QED
    BY <2>1, <2>2, <2>3, MadeGrows, KeptQuiet DEF Kept, Procs
<1>3. ASSUME NEW r \in Requests, RequestExport(r) PROVE Kept'
  <2>1. StepOf(r) /\ UNCHANGED <<files, snapshots>>
    BY <1>3 DEF RequestExport, StepOf, Shape, db
  <2>2. job'[r].pc = "export" /\ job'[r].todo = {f.object : f \in files}
    BY <1>3 DEF RequestExport, Shape, Procs, Idle
  <2>3. job'[r].todo \subseteq Made
    BY <2>2 DEF Kept
  <2> QED
    BY <2>1, <2>2, <2>3, MadeGrows DEF Kept, StepOf
<1>4. ASSUME NEW r \in Requests, NEW f \in Ids, RequestDelete(r, f) PROVE Kept'
  <2>1. StepOf(r)
    BY <1>4 DEF RequestDelete, StepOf, Shape
  <2>2. job'[r].pc \notin {"insert", "record", "export"}
    BY <1>4 DEF RequestDelete, Shape, JobState, Procs, Idle
  <2>3. UNCHANGED <<files, snapshots>>
    BY <1>4 DEF RequestDelete, db
  <2> QED
    BY <2>1, <2>2, <2>3, MadeGrows, KeptQuiet DEF Kept, Procs
<1>5. ASSUME NEW r \in Requests, CreateObject(r) PROVE Kept'
  <2>1. StepOf(r) /\ UNCHANGED <<files, snapshots>>
    BY <1>5 DEF CreateObject, StepOf, Shape, Finish, db
  <2>2. CASE NewObject(0) /\ job' = [job EXCEPT ![r].pc = "insert", ![r].object = FreshName]
    <3>1. job'[r].pc = "insert" /\ job'[r].object \in Made'
      BY <2>2 DEF NewObject, Fill, FreshName, Made, Shape, JobState, Procs
    <3> QED
      BY <2>1, <3>1, MadeGrows DEF Kept, StepOf
  <2>3. CASE Finish(r)
    <3>1. job'[r].pc = "idle"
      BY <2>3 DEF Finish, Idle, Shape, Procs
    <3> QED
      BY <2>1, <3>1, MadeGrows DEF Kept, StepOf
  <2> QED
    BY <1>5, <2>2, <2>3 DEF CreateObject
<1>6. ASSUME NEW r \in Requests, InsertFile(r) PROVE Kept'
  <2>1. StepOf(r) /\ job'[r].pc = "idle"
    BY <1>6 DEF InsertFile, StepOf, Shape, Procs, Idle, Finish
  <2>2. \A n \in files' : n.object \in Made'
    BY <1>6, MadeGrows DEF InsertFile, CreateFile, Kept, At, Procs
  <2>3. UNCHANGED snapshots
    BY <1>6 DEF InsertFile
  <2> QED
    BY <2>1, <2>2, <2>3, MadeGrows DEF Kept, StepOf
<1>7. ASSUME NEW r \in Requests, RenameFile(r) PROVE Kept'
  <2>1. StepOf(r)
    BY <1>7 DEF RenameFile, StepOf, Shape, Finish
  <2>2. job'[r].pc \notin {"insert", "record", "export"}
    BY <1>7 DEF RenameFile, Shape, JobState, Procs, Idle, Finish
  <2>3. \A n \in files' : \E x \in files : n.object = x.object
    <3>1. job[r].path \in Paths \cup {NoPath}
      BY DEF Shape, JobState, Procs
    <3> QED
      BY <1>7, <3>1, Rewritten DEF RenameFile
  <2>4. \A n \in snapshots' : n.object \in Made'
    BY <1>7, MadeGrows DEF RenameFile, Kept
  <2> QED
    BY <2>1, <2>2, <2>3, <2>4, MadeGrows, KeptQuiet DEF Procs
<1>8. ASSUME NEW r \in Requests, ExportFile(r) PROVE Kept'
  <2>1. StepOf(r) /\ UNCHANGED <<files, snapshots>>
    BY <1>8 DEF ExportFile, StepOf, Shape, Finish, db
  <2>2. \/ job'[r].pc = "idle"
        \/ job'[r].pc = "export" /\ job'[r].todo \subseteq Made
    BY <1>8 DEF ExportFile, Shape, JobState, Procs, Finish, Idle, At, Kept
  <2> QED
    BY <2>1, <2>2, MadeGrows DEF Kept, StepOf
<1>9. ASSUME NEW r \in Requests, LookUpCached(r) PROVE Kept'
  <2>1. StepOf(r)
    BY <1>9 DEF LookUpCached, StepOf, Shape
  <2>2. job'[r].pc \notin {"insert", "record", "export"}
    BY <1>9 DEF LookUpCached, Shape, JobState, Procs
  <2>3. UNCHANGED <<files, snapshots>>
    BY <1>9 DEF LookUpCached, db
  <2> QED
    BY <2>1, <2>2, <2>3, MadeGrows, KeptQuiet DEF Kept, Procs
<1>10. ASSUME NEW r \in Requests, ResetPending(r) PROVE Kept'
  <2>1. StepOf(r)
    BY <1>10 DEF ResetPending, StepOf, Shape, Goto
  <2>2. job'[r].pc \notin {"insert", "record", "export"}
    BY <1>10 DEF ResetPending, Shape, JobState, Procs, Goto
  <2>3. UNCHANGED <<files, snapshots>>
    BY <1>10 DEF ResetPending, db
  <2> QED
    BY <2>1, <2>2, <2>3, MadeGrows, KeptQuiet DEF Kept, Procs
<1>11. ASSUME NEW r \in Requests, RemoveCached(r) PROVE Kept'
  <2>1. StepOf(r)
    BY <1>11 DEF RemoveCached, StepOf, Shape
  <2>2. job'[r].pc \notin {"insert", "record", "export"}
    BY <1>11 DEF RemoveCached, Shape, JobState, Procs
  <2>3. UNCHANGED <<files, snapshots>>
    BY <1>11 DEF RemoveCached, db
  <2> QED
    BY <2>1, <2>2, <2>3, MadeGrows, KeptQuiet DEF Kept, Procs
<1>12. ASSUME NEW r \in Requests, EvictLock(r) PROVE Kept'
  <2>1. StepOf(r)
    BY <1>12 DEF EvictLock, StepOf, Shape, Goto
  <2>2. job'[r].pc \notin {"insert", "record", "export"}
    BY <1>12 DEF EvictLock, Shape, JobState, Procs, Goto
  <2>3. UNCHANGED <<files, snapshots>>
    BY <1>12 DEF EvictLock, db
  <2> QED
    BY <2>1, <2>2, <2>3, MadeGrows, KeptQuiet DEF Kept, Procs
<1>13. ASSUME NEW r \in Requests, ListSnapshots(r) PROVE Kept'
  <2>1. StepOf(r)
    BY <1>13 DEF ListSnapshots, StepOf, Shape, Finish
  <2>2. job'[r].pc \notin {"insert", "record", "export"}
    BY <1>13 DEF ListSnapshots, Shape, JobState, Procs, Idle, Finish
  <2>3. UNCHANGED <<files, snapshots>>
    BY <1>13 DEF ListSnapshots, db
  <2> QED
    BY <2>1, <2>2, <2>3, MadeGrows, KeptQuiet DEF Kept, Procs
<1>14. ASSUME NEW r \in Requests, DeleteObject(r) PROVE Kept'
  <2>1. StepOf(r)
    BY <1>14 DEF DeleteObject, StepOf, Shape, Finish, Goto
  <2>2. job'[r].pc \notin {"insert", "record", "export"}
    <3>1. \/ \E t : job' = [job EXCEPT ![r].todo = t]
          \/ Goto(r, "rows") \/ Finish(r)
      BY <1>14 DEF DeleteObject
    <3>2. At(r, "unlink")
      BY <1>14 DEF DeleteObject
    <3> QED
      BY <3>1, <3>2 DEF At, Shape, JobState, Procs, Idle, Finish, Goto
  <2>3. UNCHANGED <<files, snapshots>>
    BY <1>14 DEF DeleteObject, db
  <2> QED
    BY <2>1, <2>2, <2>3, MadeGrows, KeptQuiet DEF Kept, Procs
<1>15. ASSUME NEW r \in Requests, DeleteRows(r) PROVE Kept'
  <2>1. StepOf(r)
    BY <1>15 DEF DeleteRows, StepOf, Shape, Finish
  <2>2. job'[r].pc \notin {"insert", "record", "export"}
    BY <1>15 DEF DeleteRows, Shape, JobState, Procs, Idle, Finish
  <2>3. \A n \in files' : \E x \in files : n.object = x.object
    BY <1>15 DEF DeleteRows, DeleteFile
  <2>4. \A n \in snapshots' : n.object \in Made'
    BY <1>15, MadeGrows DEF DeleteRows, DeleteSnapshotsForFile, Kept
  <2> QED
    BY <2>1, <2>2, <2>3, <2>4, MadeGrows, KeptQuiet DEF Procs
<1>16. ASSUME NEW f \in Ids, ReceiveChunk(f) PROVE Kept'
  <2>1. StepOf(Editor)
    BY <1>16 DEF ReceiveChunk, StepOf, Shape
  <2>2. job'[Editor].pc \notin {"insert", "record", "export"}
    <3>1. \/ job' = [job EXCEPT ![Editor] = [Idle EXCEPT !.pc = "apply", !.cell = cache[f]]]
          \/ job' = [job EXCEPT ![Editor] = [Idle EXCEPT
                       !.pc = "add", !.file = f, !.object = FetchFile(f).object,
                       !.version = FetchFile(f).version]]
      BY <1>16 DEF ReceiveChunk
    <3>2. Editor \in DOMAIN job
      BY DEF Shape, Procs
    <3>3. job'[Editor].pc \in {"apply", "add"}
      BY <3>1, <3>2 DEF Idle
    <3> QED
      BY <3>3
  <2>3. UNCHANGED <<files, snapshots>>
    BY <1>16 DEF ReceiveChunk, db
  <2> QED
    BY <2>1, <2>2, <2>3, MadeGrows, KeptQuiet DEF Kept, Procs
<1>17. ASSUME LoadFile PROVE Kept'
  <2>1. StepOf(Editor)
    BY <1>17 DEF LoadFile, StepOf, Shape, Finish
  <2>2. job'[Editor].pc \notin {"insert", "record", "export"}
    BY <1>17 DEF LoadFile, Shape, JobState, Procs, Idle, Finish
  <2>3. UNCHANGED <<files, snapshots>>
    BY <1>17 DEF LoadFile, db
  <2> QED
    BY <2>1, <2>2, <2>3, MadeGrows, KeptQuiet DEF Kept, Procs
<1>18. ASSUME ApplyChunk PROVE Kept'
  <2>1. StepOf(Editor)
    BY <1>18 DEF ApplyChunk, StepOf, Shape, Finish
  <2>2. job'[Editor].pc \notin {"insert", "record", "export"}
    BY <1>18 DEF ApplyChunk, Shape, JobState, Procs, Idle, Finish
  <2>3. \A n \in files' : \E x \in files : n.object = x.object
    <3>1. heap[job[Editor].cell].version + 1 \in Nat
      BY <1>18 DEF ApplyChunk, Shape, Held, HeldBy, At, Procs, CopyState
    <3>2. CASE UpdateFileVersion(heap[job[Editor].cell].file, heap[job[Editor].cell].version + 1)
      BY <3>1, <3>2, Rewritten
    <3> QED
      BY <1>18, <3>2 DEF ApplyChunk
  <2>4. \A n \in snapshots' : n.object \in Made'
    BY <1>18, MadeGrows DEF ApplyChunk, Kept
  <2> QED
    BY <2>1, <2>2, <2>3, <2>4, MadeGrows, KeptQuiet DEF Procs
<1>19. ASSUME NEW f \in Ids, ProcessFile(f) PROVE Kept'
  <2>1. StepOf(Ticker)
    BY <1>19 DEF ProcessFile, StepOf, Shape
  <2>2. job'[Ticker].pc \notin {"insert", "record", "export"}
    BY <1>19 DEF ProcessFile, Shape, JobState, Procs, Idle
  <2>3. UNCHANGED <<files, snapshots>>
    BY <1>19 DEF ProcessFile, db
  <2> QED
    BY <2>1, <2>2, <2>3, MadeGrows, KeptQuiet DEF Kept, Procs
<1>20. ASSUME StartFlush PROVE Kept'
  <2>1. StepOf(Ticker)
    BY <1>20 DEF StartFlush, StepOf, Shape, Finish, Goto
  <2>2. job'[Ticker].pc \notin {"insert", "record", "export"}
    BY <1>20 DEF StartFlush, Shape, JobState, Procs, Idle, Finish, Goto
  <2>3. UNCHANGED <<files, snapshots>>
    BY <1>20 DEF StartFlush, db
  <2> QED
    BY <2>1, <2>2, <2>3, MadeGrows, KeptQuiet DEF Kept, Procs
<1>21. ASSUME CreateSnapshotObject PROVE Kept'
  <2>1. StepOf(Ticker) /\ UNCHANGED <<files, snapshots>>
    BY <1>21 DEF CreateSnapshotObject, StepOf, Shape, Goto, db
  <2>2. CASE /\ NewObject(heap[job[Ticker].cell].file)
             /\ job' = [job EXCEPT ![Ticker].pc = "record", ![Ticker].object = FreshName]
    <3>1. job'[Ticker].pc = "record" /\ job'[Ticker].object \in Made'
      BY <2>2 DEF NewObject, Fill, FreshName, Made, Shape, JobState, Procs
    <3> QED
      BY <2>1, <3>1, MadeGrows DEF Kept, StepOf
  <2>3. CASE Goto(Ticker, "stage")
    <3>1. job'[Ticker].pc = "stage"
      BY <2>3 DEF Goto, Shape, JobState, Procs
    <3> QED
      BY <2>1, <3>1, MadeGrows DEF Kept, StepOf
  <2> QED
    BY <1>21, <2>2, <2>3 DEF CreateSnapshotObject
<1>22. ASSUME CreateSnapshotRow PROVE Kept'
  <2>1. StepOf(Ticker)
    BY <1>22 DEF CreateSnapshotRow, StepOf, Shape, Goto
  <2>2. job'[Ticker].pc \notin {"insert", "record", "export"}
    BY <1>22 DEF CreateSnapshotRow, Shape, JobState, Procs, Goto
  <2>3. UNCHANGED files
    BY <1>22 DEF CreateSnapshotRow
  <2>4. \A n \in snapshots' : n.object \in Made'
    BY <1>22, MadeGrows DEF CreateSnapshotRow, CreateSnapshot, Kept, At, Procs
  <2> QED
    BY <2>1, <2>2, <2>3, <2>4, MadeGrows, KeptQuiet DEF Procs
<1>23. ASSUME NEW p \in Procs, StageObject(p) PROVE Kept'
  <2>1. StepOf(p)
    BY <1>23 DEF StageObject, StepOf, Shape, Finish, Goto, AfterFlush
  <2>2. job'[p].pc \notin {"insert", "record", "export"}
    BY <1>23 DEF StageObject, Shape, JobState, Procs, Idle, Finish, Goto, AfterFlush
  <2>3. UNCHANGED <<files, snapshots>>
    BY <1>23 DEF StageObject, db
  <2> QED
    BY <2>1, <2>2, <2>3, MadeGrows, KeptQuiet DEF Kept, Procs
<1>24. ASSUME NEW p \in Procs, RenameObject(p) PROVE Kept'
  <2>1. StepOf(p)
    BY <1>24 DEF RenameObject, StepOf, Shape, Finish, Goto, AfterFlush
  <2>2. job'[p].pc \notin {"insert", "record", "export"}
    BY <1>24 DEF RenameObject, Shape, JobState, Procs, Idle, Finish, Goto, AfterFlush
  <2>3. UNCHANGED <<files, snapshots>>
    BY <1>24 DEF RenameObject, db
  <2> QED
    BY <2>1, <2>2, <2>3, MadeGrows, KeptQuiet DEF Kept, Procs
<1>25. ASSUME NEW p \in Procs, FlushDone(p) PROVE Kept'
  <2>1. StepOf(p)
    BY <1>25 DEF FlushDone, StepOf, Shape, Finish, AfterFlush
  <2>2. job'[p].pc \notin {"insert", "record", "export"}
    BY <1>25 DEF FlushDone, Shape, JobState, Procs, Idle, Finish, AfterFlush
  <2>3. UNCHANGED <<files, snapshots>>
    BY <1>25 DEF FlushDone, db
  <2> QED
    BY <2>1, <2>2, <2>3, MadeGrows, KeptQuiet DEF Kept, Procs
<1>26. ASSUME NEW p \in Procs, FlushFails(p) PROVE Kept'
  <2>1. StepOf(p)
    BY <1>26 DEF FlushFails, StepOf, Shape, Finish, AfterFlush
  <2>2. job'[p].pc \notin {"insert", "record", "export"}
    BY <1>26 DEF FlushFails, Shape, JobState, Procs, Idle, Finish, AfterFlush
  <2>3. UNCHANGED <<files, snapshots>>
    BY <1>26 DEF FlushFails, db
  <2> QED
    BY <2>1, <2>2, <2>3, MadeGrows, KeptQuiet DEF Kept, Procs
<1>27. ASSUME Crash PROVE Kept'
  <2>1. UNCHANGED <<files, snapshots>> /\ \A p \in Procs : job'[p].pc = "idle"
    BY <1>27 DEF Crash, db, Idle
  <2> QED
    BY <2>1, MadeGrows DEF Kept
<1>28. CASE UNCHANGED <<files, snapshots, job>>
  BY MadeGrows, <1>28 DEF Kept
<1>29. ASSUME    \/ PurgeCache
      PROVE  Kept'
  BY <1>29, <1>28 DEF PurgeCache, disk, mem, env
<1>30. CASE UNCHANGED vars
  BY <1>30, <1>28 DEF vars, db, disk, mem, env
<1> QED
  BY <1>1, <1>2, <1>3, <1>4, <1>5, <1>6, <1>7, <1>8, <1>9, <1>10, <1>11, <1>12, <1>13,
     <1>14, <1>15, <1>16, <1>17, <1>18, <1>19, <1>20, <1>21, <1>22, <1>23, <1>24, <1>25,
     <1>26, <1>27, <1>28, <1>29, <1>30
     DEF Next, RequestStep, EditStep, TickerStep, FlushStep

-------------------------------------------------------------------------------
(* What refers to a file *)

\* No action leaves an operation or a snapshot of a file that is gone.
LEMMA ReferenceStep ==
  Shape /\ Held /\ NothingRefersToDeleted /\ [Next]_vars => NothingRefersToDeleted'
<1> SUFFICES ASSUME Shape, Held, NothingRefersToDeleted, [Next]_vars PROVE NothingRefersToDeleted'
  OBVIOUS
<1>1. ASSUME NEW r \in Requests, InsertFile(r) PROVE NothingRefersToDeleted'
  <2>1. files \subseteq files' /\ UNCHANGED <<operations, snapshots, pooled>>
    BY <1>1 DEF InsertFile, CreateFile
  <2> QED
    BY <2>1 DEF NothingRefersToDeleted, Exists
<1>2. ASSUME NEW r \in Requests, RenameFile(r) PROVE NothingRefersToDeleted'
  <2>1. \A x \in files : \E n \in files' : n.id = x.id
    <3>1. job[r].path \in Paths \cup {NoPath}
      BY DEF Shape, JobState, Procs
    <3> QED
      BY <1>2, <3>1, Rewritten DEF RenameFile
  <2> QED
    BY <1>2, <2>1 DEF RenameFile, NothingRefersToDeleted, Exists
<1>3. ASSUME NEW r \in Requests, DeleteRows(r) PROVE NothingRefersToDeleted'
  <2>1. CASE UNCHANGED <<files, operations, snapshots, pooled>>
    BY <2>1 DEF NothingRefersToDeleted, Exists
  <2>2. CASE /\ Deletable(job[r].file) \/ Unchecked
             /\ DeleteSnapshotsForFile(job[r].file) /\ DeleteFile(job[r].file)
             /\ UNCHANGED <<operations, pooled>>
    BY <2>2
       DEF NothingRefersToDeleted, Exists, Deletable, Unchecked,
           DeleteSnapshotsForFile, FetchSnapshots, DeleteFile
  <2> QED
    BY <1>3, <2>1, <2>2 DEF DeleteRows
<1>4. ASSUME ApplyChunk PROVE NothingRefersToDeleted'
  <2> DEFINE f == heap[job[Editor].cell].file
             v == heap[job[Editor].cell].version + 1
  <2>1. v \in Nat
    BY <1>4 DEF ApplyChunk, Shape, Held, HeldBy, At, Procs, CopyState
  <2>2. CASE /\ Exists(f) \/ Unchecked
             /\ CreateOperation(f, v) /\ UpdateFileVersion(f, v)
             /\ UNCHANGED <<snapshots, pooled>>
    <3>1. \A x \in files : \E n \in files' : n.id = x.id
      BY <2>1, <2>2, Rewritten
    <3> HIDE DEF f, v
    <3>2. \A o \in operations' : o \in operations \/ o.file = f
      BY <2>2 DEF CreateOperation
    <3> QED
      BY <2>2, <3>1, <3>2 DEF NothingRefersToDeleted, Exists, Unchecked
  <2>3. CASE UNCHANGED <<files, operations, snapshots, pooled>>
    BY <2>3 DEF NothingRefersToDeleted, Exists
  <2> QED
    BY <1>4, <2>2, <2>3 DEF ApplyChunk
<1>5. ASSUME CreateSnapshotRow PROVE NothingRefersToDeleted'
  <2>1. UNCHANGED <<files, operations, pooled>>
    BY <1>5 DEF CreateSnapshotRow
  <2>2. CASE UNCHANGED snapshots
    BY <2>1, <2>2 DEF NothingRefersToDeleted, Exists
  <2>3. ASSUME NEW f, NEW v, NEW o, CreateSnapshot(f, v, o), Exists(f) \/ Unchecked
        PROVE  NothingRefersToDeleted'
    <3>1. ASSUME NEW n \in snapshots' PROVE n \in snapshots \/ n.file = f
      BY <2>3, <3>1 DEF CreateSnapshot
    <3> QED
      BY <2>1, <2>3, <3>1 DEF NothingRefersToDeleted, Exists, Unchecked
  <2> QED
    BY <1>5, <2>2, <2>3 DEF CreateSnapshotRow
<1>6. ASSUME PurgeCache PROVE NothingRefersToDeleted'
  <2>1. operations' \subseteq operations /\ UNCHANGED <<files, snapshots, pooled>>
    BY <1>6 DEF PurgeCache
  <2> QED
    BY <2>1 DEF NothingRefersToDeleted, Exists
<1>7. CASE UNCHANGED <<files, operations, snapshots, pooled>>
  BY <1>7 DEF NothingRefersToDeleted, Exists
<1>8. ASSUME NEW r \in Requests,
          \/ (\E q \in Paths : CheckPath(r, q)) \/ RequestExport(r)
          \/ (\E f \in Ids, q \in Paths : RequestRename(r, f, q))
          \/ (\E f \in Ids : RequestDelete(r, f)) \/ CreateObject(r) \/ ExportFile(r)
          \/ LookUpCached(r) \/ ResetPending(r) \/ RemoveCached(r)
          \/ EvictLock(r) \/ ListSnapshots(r) \/ DeleteObject(r)
      PROVE  NothingRefersToDeleted'
  BY <1>8, <1>7
     DEF CheckPath, RequestRename, RequestExport, RequestDelete, CreateObject,
         ExportFile, LookUpCached, ResetPending, RemoveCached, EvictLock,
         ListSnapshots, DeleteObject, db, disk, mem, env
<1>9. ASSUME    \/ (\E f \in Ids : ReceiveChunk(f)) \/ LoadFile
      PROVE  NothingRefersToDeleted'
  BY <1>9, <1>7 DEF ReceiveChunk, LoadFile, db, disk, mem, env
<1>10. ASSUME    \/ (\E f \in Ids : ProcessFile(f)) \/ StartFlush \/ CreateSnapshotObject
      PROVE  NothingRefersToDeleted'
  BY <1>10, <1>7 DEF ProcessFile, StartFlush, CreateSnapshotObject, db, disk, mem, env
<1>11. ASSUME NEW p \in Procs,
          \/ StageObject(p) \/ RenameObject(p) \/ FlushDone(p)
          \/ FlushFails(p)
      PROVE  NothingRefersToDeleted'
  BY <1>11, <1>7 DEF StageObject, RenameObject, FlushDone, FlushFails, db, disk, env
<1>12. ASSUME    \/ Crash
      PROVE  NothingRefersToDeleted'
  BY <1>12, <1>7 DEF Crash, db, disk
<1>13. CASE UNCHANGED vars
  BY <1>13, <1>7 DEF vars, db, disk, mem, env
<1> QED
  BY <1>1, <1>2, <1>3, <1>4, <1>5, <1>6, <1>7, <1>8, <1>9, <1>10, <1>11, <1>12, <1>13
     DEF Next, RequestStep, EditStep, TickerStep, FlushStep

-------------------------------------------------------------------------------
(* Whose text an object holds *)

\* Where the known owners come from.
LEMMA NamesOf ==
  /\ \A r \in files : <<r.id, r.object>> \in Names
  /\ \A x \in Copies : heap[x].object # 0 => <<heap[x].file, heap[x].object>> \in Names
  /\ At(Editor, "add") => <<job[Editor].file, job[Editor].object>> \in Names
  /\ \A n \in Names : \/ \E r \in files : n = <<r.id, r.object>>
                      \/ \E x \in Copies : /\ heap[x].object # 0
                                           /\ n = <<heap[x].file, heap[x].object>>
                      \/ At(Editor, "add") /\ n = <<job[Editor].file, job[Editor].object>>
BY DEF Names

\* No new name is known, and what is written is written by the owner of the object.
NamesStay ==
  /\ \A n \in files' : \E r \in files : n.id = r.id /\ n.object = r.object
  /\ \A x \in Copies : heap'[x].object # 0 => <<heap'[x].file, heap'[x].object>> \in Names
  /\ job'[Editor].pc = "add" => <<job'[Editor].file, job'[Editor].object>> \in Names

OwnersWrite ==
  \A o \in DOMAIN store' :
    \/ o = 0 \/ o >= nextObject
    \/ o \in DOMAIN store /\ store'[o] = store[o]
    \/ \E n \in Names : n[2] = o /\ store'[o] = n[1]

\* No owner that was not known before.
LEMMA NamesShrink == NamesStay => Names' \subseteq Names
<1> SUFFICES ASSUME NamesStay PROVE Names' \subseteq Names
  OBVIOUS
<1>1. \A n \in files' : <<n.id, n.object>> \in Names
  BY NamesOf DEF NamesStay
<1> QED
  BY <1>1 DEF NamesStay, Names, At

\* What a step that creates and inserts nothing has to show.
LEMMA NamedQuiet ==
  ASSUME Shape, Named, NamesStay, OwnersWrite, nextObject' \in Nat, nextObject <= nextObject',
         \A q \in Requests : job'[q].pc = "insert" => job'[q] = job[q]
  PROVE  Named'
<1>1. Names' \subseteq Names
  BY NamesShrink
<1>2. nextObject' > 0 /\ \A n \in Names' : n[2] \in 1..(nextObject' - 1)
  BY <1>1 DEF Named, Shape
<1>3. \A m, n \in Names' : m[2] = n[2] => m[1] = n[1]
  BY <1>1 DEF Named
<1>4. ASSUME NEW n \in Names', n[2] \in DOMAIN store' PROVE store'[n[2]] \in {0, n[1]}
  BY <1>1, <1>4 DEF Named, OwnersWrite, Shape
<1>5. ASSUME NEW r \in Requests, job'[r].pc = "insert"
      PROVE  LET o == job'[r].object IN
             /\ o \in 1..(nextObject' - 1)
             /\ \A n \in Names' : n[2] # o
             /\ o \in DOMAIN store' => store'[o] = 0
  BY <1>1, <1>5 DEF Named, OwnersWrite, At, Shape
<1>6. \A r, q \in Requests : job'[r].pc = "insert" /\ job'[q].pc = "insert" /\ r # q
                               => job'[r].object # job'[q].object
  BY DEF Named, At
<1> QED
  BY <1>2, <1>3, <1>4, <1>5, <1>6 DEF Named, At

\* A step that changes no row, no copy and no object.
LEMMA NamedFrame ==
  ASSUME Shape, Named, UNCHANGED <<files, heap, store, nextObject>>,
         NEW p \in Procs, StepOf(p),
         job'[p].pc # "insert", p = Editor => job'[p].pc # "add"
  PROVE  Named'
<1>1. NamesStay
  BY NamesOf, ProcsAssumption DEF NamesStay, StepOf, At, Procs
<1>2. OwnersWrite
  BY DEF OwnersWrite
<1>3. \A q \in Requests : job'[q].pc = "insert" => job'[q] = job[q]
  BY DEF StepOf, Procs
<1> QED
  BY <1>1, <1>2, <1>3, NamedQuiet DEF Shape

\* Every action keeps objects apart.
LEMMA NamedStep == Shape /\ Held /\ Named /\ [Next]_vars => Named'
<1> SUFFICES ASSUME Shape, Held, Named, [Next]_vars PROVE Named'
  OBVIOUS
<1>1. ASSUME NEW r \in Requests, NEW q \in Paths, CheckPath(r, q) PROVE Named'
  <2>1. StepOf(r)
    BY <1>1 DEF CheckPath, StepOf, Shape
  <2>2. job'[r].pc \notin {"insert", "add"}
    BY <1>1 DEF CheckPath, Shape, JobState, Procs, Idle
  <2>3. UNCHANGED <<files, heap, store, nextObject>>
    BY <1>1 DEF CheckPath, db, disk, mem
  <2> QED
    BY <2>1, <2>2, <2>3, NamedFrame DEF Procs
<1>2. ASSUME NEW r \in Requests, NEW f \in Ids, NEW q \in Paths, RequestRename(r, f, q)
      PROVE  Named'
  <2>1. StepOf(r)
    BY <1>2 DEF RequestRename, StepOf, Shape
  <2>2. job'[r].pc \notin {"insert", "add"}
    BY <1>2 DEF RequestRename, Shape, JobState, Procs, Idle
  <2>3. UNCHANGED <<files, heap, store, nextObject>>
    BY <1>2 DEF RequestRename, db, disk, mem
  <2> QED
    BY <2>1, <2>2, <2>3, NamedFrame DEF Procs
<1>3. ASSUME NEW r \in Requests, RequestExport(r) PROVE Named'
  <2>1. StepOf(r)
    BY <1>3 DEF RequestExport, StepOf, Shape
  <2>2. job'[r].pc \notin {"insert", "add"}
    BY <1>3 DEF RequestExport, Shape, JobState, Procs, Idle
  <2>3. UNCHANGED <<files, heap, store, nextObject>>
    BY <1>3 DEF RequestExport, db, disk, mem
  <2> QED
    BY <2>1, <2>2, <2>3, NamedFrame DEF Procs
<1>4. ASSUME NEW r \in Requests, NEW f \in Ids, RequestDelete(r, f) PROVE Named'
  <2>1. StepOf(r)
    BY <1>4 DEF RequestDelete, StepOf, Shape
  <2>2. job'[r].pc \notin {"insert", "add"}
    BY <1>4 DEF RequestDelete, Shape, JobState, Procs, Idle
  <2>3. UNCHANGED <<files, heap, store, nextObject>>
    BY <1>4 DEF RequestDelete, db, disk, mem
  <2> QED
    BY <2>1, <2>2, <2>3, NamedFrame DEF Procs
<1>5. ASSUME NEW r \in Requests, CreateObject(r) PROVE Named'
  <2>1. StepOf(r) /\ UNCHANGED <<files, heap>> /\ job'[Editor] = job[Editor]
    BY <1>5, ProcsAssumption DEF CreateObject, StepOf, Shape, Finish, Procs, db, mem
  <2>2. NamesStay
    BY <2>1, NamesOf DEF NamesStay, At
  <2>3. CASE NewObject(0) /\ job' = [job EXCEPT ![r].pc = "insert", ![r].object = FreshName]
    <3>1. job'[r].object = nextObject /\ nextObject' = nextObject + 1
      BY <2>3 DEF NewObject, FreshName, Shape, JobState, Procs
    <3>2. \A o \in DOMAIN store' : IF o = nextObject THEN store'[o] = 0
                                   ELSE o \in DOMAIN store /\ store'[o] = store[o]
      BY <2>3 DEF NewObject, FreshName, Fill
    <3>3. Names' \subseteq Names
      BY <2>2, NamesShrink
    <3>4. /\ nextObject' > 0
          /\ \A n \in Names' : n[2] \in 1..(nextObject' - 1) /\ n[2] # nextObject
          /\ \A m, n \in Names' : m[2] = n[2] => m[1] = n[1]
      BY <3>1, <3>3 DEF Named, Shape
    <3>5. ASSUME NEW n \in Names', n[2] \in DOMAIN store' PROVE store'[n[2]] \in {0, n[1]}
      BY <3>2, <3>3, <3>5 DEF Named
    <3>6. ASSUME NEW q \in Requests, job'[q].pc = "insert"
          PROVE  LET o == job'[q].object IN
                 /\ o \in 1..(nextObject' - 1)
                 /\ \A n \in Names' : n[2] # o
                 /\ o \in DOMAIN store' => store'[o] = 0
                 /\ q # r => o < nextObject
      <4>1. CASE q = r
        BY <3>1, <3>2, <3>4, <4>1 DEF Named, Shape
      <4>2. CASE q # r
        <5>1. job'[q] = job[q] /\ At(q, "insert")
          BY <2>1, <3>6, <4>2 DEF StepOf, Procs, At
        <5> QED
          BY <3>1, <3>2, <3>3, <5>1 DEF Named, Shape
      <4> QED
        BY <4>1, <4>2
    <3>7. \A u, q \in Requests : job'[u].pc = "insert" /\ job'[q].pc = "insert" /\ u # q
                                   => job'[u].object # job'[q].object
      <4>1. \A q \in Requests : q # r => job'[q] = job[q]
        BY <2>1 DEF StepOf, Procs
      <4> QED
        BY <3>1, <3>6, <4>1 DEF Named, At, Shape
    <3> QED
      BY <3>4, <3>5, <3>6, <3>7 DEF Named, At
  <2>4. CASE Finish(r) /\ UNCHANGED disk
    <3>1. job'[r].pc # "insert"
      BY <2>4 DEF Finish, Idle, Shape, Procs
    <3>2. \A q \in Requests : job'[q].pc = "insert" => job'[q] = job[q]
      BY <2>1, <3>1 DEF StepOf, Procs
    <3>3. OwnersWrite /\ UNCHANGED nextObject
      BY <2>4 DEF OwnersWrite, disk
    <3> QED
      BY <2>2, <3>2, <3>3, NamedQuiet DEF Shape
  <2> QED
    BY <1>5, <2>3, <2>4 DEF CreateObject
<1>6. ASSUME NEW r \in Requests, InsertFile(r) PROVE Named'
  <2> DEFINE obj == job[r].object
  <2>1. StepOf(r) /\ UNCHANGED <<heap, store, nextObject>> /\ job'[Editor] = job[Editor]
    BY <1>6, ProcsAssumption DEF InsertFile, StepOf, Shape, Finish, Procs, disk, mem
  <2>2. job'[r].pc # "insert" /\ At(r, "insert")
    BY <1>6 DEF InsertFile, Finish, Idle, Shape, Procs
  <2>3. \A q \in Requests : job'[q].pc = "insert" => q # r /\ job'[q] = job[q]
    BY <2>1, <2>2 DEF StepOf, Procs
  <2>4. CASE UNCHANGED files
    <3>1. NamesStay
      BY <2>1, <2>4, NamesOf DEF NamesStay, At
    <3>2. OwnersWrite
      BY <2>1 DEF OwnersWrite
    <3> QED
      BY <2>1, <2>3, <3>1, <3>2, NamedQuiet DEF Shape
  <2>5. CASE CreateFile(job[r].path, obj)
    <3>1. \A n \in files' : n \in files \/ (n.id = nextId /\ n.object = obj)
      BY <2>5, Created
    <3>2. \A n \in Names' : n \in Names \/ n = <<nextId, obj>>
      BY <2>1, <3>1 DEF Names, At
    <3>3. /\ obj \in 1..(nextObject - 1) /\ \A n \in Names : n[2] # obj
          /\ obj \in DOMAIN store => store[obj] = 0
      BY <2>2 DEF Named
    <3> HIDE DEF obj
    <3>4. /\ \A n \in Names' : n[2] \in 1..(nextObject' - 1)
          /\ \A m, n \in Names' : m[2] = n[2] => m[1] = n[1]
          /\ \A n \in Names' : n[2] \in DOMAIN store' => store'[n[2]] \in {0, n[1]}
      BY <2>1, <3>2, <3>3 DEF Named
    <3>5. ASSUME NEW q \in Requests, job'[q].pc = "insert"
          PROVE  LET u == job'[q].object IN
                 /\ u \in 1..(nextObject' - 1)
                 /\ \A n \in Names' : n[2] # u
                 /\ u \in DOMAIN store' => store'[u] = 0
      <4>1. q # r /\ job'[q] = job[q] /\ At(q, "insert")
        BY <2>3, <3>5 DEF At
      <4>2. job[q].object # obj
        BY <2>2, <4>1 DEF Named, obj
      <4> QED
        BY <2>1, <3>2, <4>1, <4>2 DEF Named
    <3>6. \A u, q \in Requests : job'[u].pc = "insert" /\ job'[q].pc = "insert" /\ u # q
                                   => job'[u].object # job'[q].object
      BY <2>3 DEF Named, At
    <3> QED
      BY <2>1, <3>4, <3>5, <3>6 DEF Named, At
  <2> QED
    BY <1>6, <2>4, <2>5 DEF InsertFile
<1>7. ASSUME NEW r \in Requests, RenameFile(r) PROVE Named'
  <2>1. StepOf(r)
    BY <1>7 DEF RenameFile, StepOf, Shape, Finish
  <2>2. job'[r].pc \notin {"insert", "add"}
    BY <1>7 DEF RenameFile, Shape, JobState, Procs, Idle, Finish
  <2>3. NamesStay
    <3>1. \A n \in files' : \E x \in files : n.id = x.id /\ n.object = x.object
      <4>1. job[r].path \in Paths \cup {NoPath}
        BY DEF Shape, JobState, Procs
      <4> QED
        BY <1>7, <4>1, Rewritten DEF RenameFile
    <3> QED
      BY <1>7, <2>1, <2>2, <3>1, NamesOf, ProcsAssumption
         DEF RenameFile, NamesStay, StepOf, At, Procs, mem
  <2>4. OwnersWrite
    BY <1>7 DEF RenameFile, OwnersWrite, disk
  <2>5. nextObject' \in Nat /\ nextObject <= nextObject'
    BY <1>7 DEF RenameFile, disk, Shape
  <2>6. \A q \in Requests : job'[q].pc = "insert" => job'[q] = job[q]
    BY <2>1, <2>2 DEF StepOf, Procs
  <2> QED
    BY <2>3, <2>4, <2>5, <2>6, NamedQuiet
<1>8. ASSUME NEW r \in Requests, ExportFile(r) PROVE Named'
  <2>1. StepOf(r)
    BY <1>8 DEF ExportFile, StepOf, Shape, Finish
  <2>2. job'[r].pc \notin {"insert", "add"}
    <3>1. At(r, "export") /\ (Finish(r) \/ \E t : job' = [job EXCEPT ![r].todo = t])
      BY <1>8 DEF ExportFile
    <3> QED
      BY <3>1 DEF At, Shape, JobState, Procs, Idle, Finish
  <2>3. UNCHANGED <<files, heap, store, nextObject>>
    BY <1>8 DEF ExportFile, db, disk, mem
  <2> QED
    BY <2>1, <2>2, <2>3, NamedFrame DEF Procs
<1>9. ASSUME NEW r \in Requests, LookUpCached(r) PROVE Named'
  <2>1. StepOf(r)
    BY <1>9 DEF LookUpCached, StepOf, Shape
  <2>2. job'[r].pc \notin {"insert", "add"}
    BY <1>9 DEF LookUpCached, Shape, JobState, Procs
  <2>3. UNCHANGED <<files, heap, store, nextObject>>
    BY <1>9 DEF LookUpCached, db, disk, mem
  <2> QED
    BY <2>1, <2>2, <2>3, NamedFrame DEF Procs
<1>10. ASSUME NEW r \in Requests, ResetPending(r) PROVE Named'
  <2>1. StepOf(r)
    BY <1>10 DEF ResetPending, StepOf, Shape, Goto
  <2>2. job'[r].pc \notin {"insert", "add"}
    BY <1>10 DEF ResetPending, Shape, JobState, Procs, Goto
  <2>3. NamesStay
    <3>1. /\ files' = files
          /\ \A x \in Copies : heap'[x].object = heap[x].object /\ heap'[x].file = heap[x].file
      BY <1>10 DEF ResetPending, Shape, CopyState, db
    <3>2. job'[Editor] = job[Editor]
      BY <2>1, ProcsAssumption DEF StepOf, Procs
    <3> QED
      BY <3>1, <3>2, NamesOf DEF NamesStay, At
  <2>4. OwnersWrite
    BY <1>10 DEF ResetPending, OwnersWrite, disk
  <2>5. nextObject' \in Nat /\ nextObject <= nextObject'
    BY <1>10 DEF ResetPending, disk, Shape
  <2>6. \A q \in Requests : job'[q].pc = "insert" => job'[q] = job[q]
    BY <2>1, <2>2 DEF StepOf, Procs
  <2> QED
    BY <2>3, <2>4, <2>5, <2>6, NamedQuiet
<1>11. ASSUME NEW r \in Requests, RemoveCached(r) PROVE Named'
  <2>1. StepOf(r)
    BY <1>11 DEF RemoveCached, StepOf, Shape
  <2>2. job'[r].pc \notin {"insert", "add"}
    BY <1>11 DEF RemoveCached, Shape, JobState, Procs
  <2>3. UNCHANGED <<files, heap, store, nextObject>>
    BY <1>11 DEF RemoveCached, db, disk
  <2> QED
    BY <2>1, <2>2, <2>3, NamedFrame DEF Procs
<1>12. ASSUME NEW r \in Requests, EvictLock(r) PROVE Named'
  <2>1. StepOf(r)
    BY <1>12 DEF EvictLock, StepOf, Shape, Goto
  <2>2. job'[r].pc \notin {"insert", "add"}
    BY <1>12 DEF EvictLock, Shape, JobState, Procs, Goto
  <2>3. UNCHANGED <<files, heap, store, nextObject>>
    BY <1>12 DEF EvictLock, db, disk
  <2> QED
    BY <2>1, <2>2, <2>3, NamedFrame DEF Procs
<1>13. ASSUME NEW r \in Requests, ListSnapshots(r) PROVE Named'
  <2>1. StepOf(r)
    BY <1>13 DEF ListSnapshots, StepOf, Shape, Finish
  <2>2. job'[r].pc \notin {"insert", "add"}
    BY <1>13 DEF ListSnapshots, Shape, JobState, Procs, Idle, Finish
  <2>3. UNCHANGED <<files, heap, store, nextObject>>
    BY <1>13 DEF ListSnapshots, db, disk, mem
  <2> QED
    BY <2>1, <2>2, <2>3, NamedFrame DEF Procs
<1>14. ASSUME NEW r \in Requests, DeleteObject(r) PROVE Named'
  <2>1. StepOf(r)
    BY <1>14 DEF DeleteObject, StepOf, Shape, Finish, Goto
  <2>2. job'[r].pc \notin {"insert", "add"}
    <3>1. \/ \E t : job' = [job EXCEPT ![r].todo = t]
          \/ Goto(r, "rows") \/ Finish(r)
      BY <1>14 DEF DeleteObject
    <3>2. At(r, "unlink")
      BY <1>14 DEF DeleteObject
    <3> QED
      BY <3>1, <3>2 DEF At, Shape, JobState, Procs, Idle, Finish, Goto
  <2>3. NamesStay
    BY <1>14, <2>1, <2>2, NamesOf, ProcsAssumption
       DEF DeleteObject, NamesStay, StepOf, At, Procs, mem, db
  <2>4. OwnersWrite
    <3>1. ASSUME NEW o, Unlink(o) PROVE OwnersWrite
      BY <3>1 DEF Unlink, OwnersWrite
    <3>2. CASE UNCHANGED store
      BY <3>2 DEF OwnersWrite
    <3> QED
      BY <1>14, <3>1, <3>2 DEF DeleteObject
  <2>5. nextObject' \in Nat /\ nextObject <= nextObject'
    BY <1>14 DEF DeleteObject, Shape
  <2>6. \A q \in Requests : job'[q].pc = "insert" => job'[q] = job[q]
    BY <2>1, <2>2 DEF StepOf, Procs
  <2> QED
    BY <2>3, <2>4, <2>5, <2>6, NamedQuiet
<1>15. ASSUME NEW r \in Requests, DeleteRows(r) PROVE Named'
  <2>1. StepOf(r)
    BY <1>15 DEF DeleteRows, StepOf, Shape, Finish
  <2>2. job'[r].pc \notin {"insert", "add"}
    BY <1>15 DEF DeleteRows, Shape, JobState, Procs, Idle, Finish
  <2>3. NamesStay
    <3>1. \A n \in files' : \E x \in files : n.id = x.id /\ n.object = x.object
      BY <1>15 DEF DeleteRows, DeleteFile
    <3> QED
      BY <1>15, <2>1, <2>2, <3>1, NamesOf, ProcsAssumption
         DEF DeleteRows, NamesStay, StepOf, At, Procs, mem
  <2>4. OwnersWrite
    BY <1>15 DEF DeleteRows, OwnersWrite, disk
  <2>5. nextObject' \in Nat /\ nextObject <= nextObject'
    BY <1>15 DEF DeleteRows, disk, Shape
  <2>6. \A q \in Requests : job'[q].pc = "insert" => job'[q] = job[q]
    BY <2>1, <2>2 DEF StepOf, Procs
  <2> QED
    BY <2>3, <2>4, <2>5, <2>6, NamedQuiet
<1>16. ASSUME NEW f \in Ids, ReceiveChunk(f) PROVE Named'
  <2>1. StepOf(Editor) /\ job'[Editor].pc # "insert" /\ UNCHANGED <<files, heap, store, nextObject>>
    <3>1. \/ job' = [job EXCEPT ![Editor] = [Idle EXCEPT !.pc = "apply", !.cell = cache[f]]]
          \/ job' = [job EXCEPT ![Editor] = [Idle EXCEPT
                       !.pc = "add", !.file = f, !.object = FetchFile(f).object,
                       !.version = FetchFile(f).version]]
      BY <1>16 DEF ReceiveChunk
    <3> QED
      BY <1>16, <3>1 DEF ReceiveChunk, StepOf, Shape, Procs, Idle, db, mem, disk
  <2>2. job'[Editor].pc = "add" =>
          /\ Exists(f) /\ job'[Editor].file = f
          /\ job'[Editor].object = FetchFile(f).object
    <3>1. \/ job' = [job EXCEPT ![Editor] = [Idle EXCEPT !.pc = "apply", !.cell = cache[f]]]
          \/ Exists(f) /\ job' = [job EXCEPT ![Editor] = [Idle EXCEPT
                       !.pc = "add", !.file = f, !.object = FetchFile(f).object,
                       !.version = FetchFile(f).version]]
      BY <1>16 DEF ReceiveChunk
    <3>2. Editor \in DOMAIN job
      BY DEF Shape, Procs
    <3> QED
      BY <3>1, <3>2 DEF Idle
  <2>3. Exists(f) => <<f, FetchFile(f).object>> \in Names
    BY Fetched, NamesOf
  <2>4. NamesStay
    BY <2>1, <2>2, <2>3, NamesOf DEF NamesStay
  <2>5. OwnersWrite
    BY <2>1 DEF OwnersWrite
  <2>6. \A q \in Requests : job'[q].pc = "insert" => job'[q] = job[q]
    BY <2>1, ProcsAssumption DEF StepOf, Procs
  <2> QED
    BY <2>1, <2>4, <2>5, <2>6, NamedQuiet DEF Shape
<1>17. ASSUME LoadFile PROVE Named'
  <2>1. StepOf(Editor)
    BY <1>17 DEF LoadFile, StepOf, Shape, Finish
  <2>2. job'[Editor].pc \notin {"insert", "add"}
    BY <1>17 DEF LoadFile, Shape, JobState, Procs, Idle, Finish
  <2>3. NamesStay
    <3>1. \/ UNCHANGED heap
          \/ \E y : heap' = [heap EXCEPT ![y] =
                      [file |-> job[Editor].file, object |-> job[Editor].object,
                       version |-> job[Editor].version, pending |-> FALSE]]
      BY <1>17 DEF LoadFile
    <3>2. \A x \in Copies : \/ heap'[x] = heap[x]
                           \/ /\ heap'[x].file = job[Editor].file
                              /\ heap'[x].object = job[Editor].object
      BY <3>1 DEF Shape
    <3> QED
      BY <1>17, <2>1, <2>2, <3>2, NamesOf DEF LoadFile, NamesStay, db
  <2>4. OwnersWrite
    BY <1>17 DEF LoadFile, OwnersWrite, disk
  <2>5. nextObject' \in Nat /\ nextObject <= nextObject'
    BY <1>17 DEF LoadFile, disk, Shape
  <2>6. \A q \in Requests : job'[q].pc = "insert" => job'[q] = job[q]
    BY <2>1, <2>2 DEF StepOf, Procs
  <2> QED
    BY <2>3, <2>4, <2>5, <2>6, NamedQuiet
<1>18. ASSUME ApplyChunk PROVE Named'
  <2>1. StepOf(Editor)
    BY <1>18 DEF ApplyChunk, StepOf, Shape, Finish
  <2>2. job'[Editor].pc \notin {"insert", "add"}
    BY <1>18 DEF ApplyChunk, Shape, JobState, Procs, Idle, Finish
  <2>3. NamesStay
    <3>1. \A n \in files' : \E x \in files : n.id = x.id /\ n.object = x.object
      <4>1. heap[job[Editor].cell].version + 1 \in Nat
        BY <1>18 DEF ApplyChunk, Shape, Held, HeldBy, At, Procs, CopyState
      <4>2. CASE UpdateFileVersion(heap[job[Editor].cell].file, heap[job[Editor].cell].version + 1)
        BY <4>1, <4>2, Rewritten
      <4> QED
        BY <1>18, <4>2 DEF ApplyChunk
    <3>2. \A x \in Copies : heap'[x].file = heap[x].file /\ heap'[x].object = heap[x].object
      BY <1>18 DEF ApplyChunk, Shape, CopyState
    <3> QED
      BY <2>1, <2>2, <3>1, <3>2, NamesOf DEF NamesStay
  <2>4. OwnersWrite
    BY <1>18 DEF ApplyChunk, OwnersWrite, disk
  <2>5. nextObject' \in Nat /\ nextObject <= nextObject'
    BY <1>18 DEF ApplyChunk, disk, Shape
  <2>6. \A q \in Requests : job'[q].pc = "insert" => job'[q] = job[q]
    BY <2>1, <2>2 DEF StepOf, Procs
  <2> QED
    BY <2>3, <2>4, <2>5, <2>6, NamedQuiet
<1>19. ASSUME NEW f \in Ids, ProcessFile(f) PROVE Named'
  <2>1. StepOf(Ticker)
    BY <1>19 DEF ProcessFile, StepOf, Shape
  <2>2. job'[Ticker].pc \notin {"insert", "add"}
    BY <1>19 DEF ProcessFile, Shape, JobState, Procs, Idle
  <2>3. UNCHANGED <<files, heap, store, nextObject>>
    BY <1>19 DEF ProcessFile, db, disk, mem
  <2> QED
    BY <2>1, <2>2, <2>3, NamedFrame DEF Procs
<1>20. ASSUME StartFlush PROVE Named'
  <2>1. StepOf(Ticker)
    BY <1>20 DEF StartFlush, StepOf, Shape, Finish, Goto
  <2>2. job'[Ticker].pc \notin {"insert", "add"}
    BY <1>20 DEF StartFlush, Shape, JobState, Procs, Idle, Finish, Goto
  <2>3. UNCHANGED <<files, heap, store, nextObject>>
    BY <1>20 DEF StartFlush, db, disk
  <2> QED
    BY <2>1, <2>2, <2>3, NamedFrame DEF Procs
<1>21. ASSUME CreateSnapshotObject PROVE Named'
  <2>1. StepOf(Ticker)
    BY <1>21 DEF CreateSnapshotObject, StepOf, Shape, Goto
  <2>2. job'[Ticker].pc \notin {"insert", "add"}
    BY <1>21 DEF CreateSnapshotObject, Shape, JobState, Procs, Goto
  <2>3. NamesStay
    BY <1>21, <2>1, <2>2, NamesOf, ProcsAssumption
       DEF CreateSnapshotObject, NamesStay, StepOf, At, Procs, mem, db
  <2>4. OwnersWrite
    <3>1. CASE Fill(nextObject, heap[job[Ticker].cell].file)
      BY <3>1 DEF Fill, OwnersWrite, Shape
    <3>2. CASE UNCHANGED store
      BY <3>2 DEF OwnersWrite
    <3> QED
      BY <1>21, <3>1, <3>2 DEF CreateSnapshotObject, NewObject, FreshName, disk
  <2>5. nextObject' \in Nat /\ nextObject <= nextObject'
    BY <1>21 DEF CreateSnapshotObject, NewObject, disk, Shape
  <2>6. \A q \in Requests : job'[q].pc = "insert" => job'[q] = job[q]
    BY <2>1, <2>2 DEF StepOf, Procs
  <2> QED
    BY <2>3, <2>4, <2>5, <2>6, NamedQuiet
<1>22. ASSUME CreateSnapshotRow PROVE Named'
  <2>1. StepOf(Ticker)
    BY <1>22 DEF CreateSnapshotRow, StepOf, Shape, Goto
  <2>2. job'[Ticker].pc \notin {"insert", "add"}
    BY <1>22 DEF CreateSnapshotRow, Shape, JobState, Procs, Goto
  <2>3. UNCHANGED <<files, heap, store, nextObject>>
    BY <1>22 DEF CreateSnapshotRow, disk, mem
  <2> QED
    BY <2>1, <2>2, <2>3, NamedFrame DEF Procs
<1>23. ASSUME NEW p \in Procs, StageObject(p) PROVE Named'
  <2>1. StepOf(p)
    BY <1>23 DEF StageObject, StepOf, Shape, Finish, Goto, AfterFlush
  <2>2. job'[p].pc \notin {"insert", "add"}
    BY <1>23 DEF StageObject, Shape, JobState, Procs, Idle, Finish, Goto, AfterFlush
  <2>3. UNCHANGED <<files, heap, store, nextObject>>
    BY <1>23 DEF StageObject, db
  <2> QED
    BY <2>1, <2>2, <2>3, NamedFrame DEF Procs
<1>24. ASSUME NEW p \in Procs, RenameObject(p) PROVE Named'
  <2>1. StepOf(p)
    BY <1>24 DEF RenameObject, StepOf, Shape, Finish, Goto, AfterFlush
  <2>2. job'[p].pc \notin {"insert", "add"}
    BY <1>24 DEF RenameObject, Shape, JobState, Procs, Idle, Finish, Goto, AfterFlush
  <2>3. NamesStay
    BY <1>24, <2>1, <2>2, NamesOf, ProcsAssumption
       DEF RenameObject, NamesStay, StepOf, At, Procs, db
  <2>4. OwnersWrite
    <3>1. CASE Fill(heap[Flushed(p)].object, heap[Flushed(p)].file)
      <4> DEFINE x == Flushed(p)
      <4>1. x \in Copies
        BY <1>24 DEF RenameObject, Held, HeldBy, At, Holding
      <4> HIDE DEF x
      <4>2. heap[x].object = 0 \/ \E n \in Names : n[2] = heap[x].object /\ heap[x].file = n[1]
        BY <4>1, NamesOf
      <4>3. Fill(heap[x].object, heap[x].file)
        BY <3>1 DEF x
      <4> QED
        BY <4>2, <4>3 DEF Fill, OwnersWrite
    <3>2. CASE UNCHANGED store
      BY <3>2 DEF OwnersWrite
    <3> QED
      BY <1>24, <3>1, <3>2 DEF RenameObject
  <2>5. nextObject' \in Nat /\ nextObject <= nextObject'
    BY <1>24 DEF RenameObject, Shape
  <2>6. \A q \in Requests : job'[q].pc = "insert" => job'[q] = job[q]
    BY <2>1, <2>2 DEF StepOf, Procs
  <2> QED
    BY <2>3, <2>4, <2>5, <2>6, NamedQuiet
<1>25. ASSUME NEW p \in Procs, FlushDone(p) PROVE Named'
  <2>1. StepOf(p)
    BY <1>25 DEF FlushDone, StepOf, Shape, Finish, AfterFlush
  <2>2. job'[p].pc \notin {"insert", "add"}
    BY <1>25 DEF FlushDone, Shape, JobState, Procs, Idle, Finish, AfterFlush
  <2>3. NamesStay
    <3>1. \A x \in Copies : heap'[x].file = heap[x].file /\ heap'[x].object = heap[x].object
      BY <1>25 DEF FlushDone, Shape, CopyState
    <3> QED
      BY <1>25, <2>1, <2>2, <3>1, NamesOf, ProcsAssumption
         DEF FlushDone, NamesStay, StepOf, At, Procs, db
  <2>4. OwnersWrite
    BY <1>25 DEF FlushDone, OwnersWrite, disk
  <2>5. nextObject' \in Nat /\ nextObject <= nextObject'
    BY <1>25 DEF FlushDone, disk, Shape
  <2>6. \A q \in Requests : job'[q].pc = "insert" => job'[q] = job[q]
    BY <2>1, <2>2 DEF StepOf, Procs
  <2> QED
    BY <2>3, <2>4, <2>5, <2>6, NamedQuiet
<1>26. ASSUME NEW p \in Procs, FlushFails(p) PROVE Named'
  <2>1. StepOf(p)
    BY <1>26 DEF FlushFails, StepOf, Shape, Finish, AfterFlush
  <2>2. job'[p].pc \notin {"insert", "add"}
    BY <1>26 DEF FlushFails, Shape, JobState, Procs, Idle, Finish, AfterFlush
  <2>3. UNCHANGED <<files, heap, store, nextObject>>
    BY <1>26 DEF FlushFails, db, disk
  <2> QED
    BY <2>1, <2>2, <2>3, NamedFrame DEF Procs
<1>27. ASSUME Crash PROVE Named'
  <2>1. \A q \in Procs : job'[q].pc = "idle"
    BY <1>27 DEF Crash, Idle
  <2>2. NamesStay
    BY <1>27, <2>1 DEF Crash, NamesStay, Blank, Procs, db
  <2>3. OwnersWrite /\ UNCHANGED nextObject
    BY <1>27 DEF Crash, OwnersWrite, disk
  <2> QED
    BY <2>1, <2>2, <2>3, NamedQuiet DEF Shape, Procs
<1>28. CASE UNCHANGED <<files, heap, store, nextObject, job>>
  BY <1>28 DEF Named, Names, At
<1>29. ASSUME    \/ PurgeCache
      PROVE  Named'
  BY <1>29, <1>28 DEF PurgeCache, disk, mem, env
<1>30. CASE UNCHANGED vars
  BY <1>30, <1>28 DEF vars, db, disk, mem, env
<1> QED
  BY <1>1, <1>2, <1>3, <1>4, <1>5, <1>6, <1>7, <1>8, <1>9, <1>10, <1>11, <1>12, <1>13,
     <1>14, <1>15, <1>16, <1>17, <1>18, <1>19, <1>20, <1>21, <1>22, <1>23, <1>24, <1>25,
     <1>26, <1>27, <1>28, <1>29, <1>30
     DEF Next, RequestStep, EditStep, TickerStep, FlushStep

-------------------------------------------------------------------------------
(* Theorems *)

\* The server starts in a state of the invariant.
LEMMA InitInv == Init => FilesInv
<1> SUFFICES ASSUME Init PROVE FilesInv
  OBVIOUS
<1>1. PICK q \in Paths : files = {[id |-> 1, path |-> q, object |-> 1, version |-> 0]}
  BY DEF Init
<1>2. Shape
  <2>1. files \subseteq FileRow
    BY <1>1 DEF FileRow
  <2>2. Blank \in CopyState
    BY DEF Blank, CopyState
  <2> QED
    BY <2>1, <2>2, JobTypes DEF Init, Shape, Cells
<1>3. Held
  BY DEF Init, Held, HeldBy, HoldersGoOn, Holding, Idle, Procs
<1>4. Keys
  BY <1>1 DEF Init, Keys, OnePathOneFile
<1>5. Kept
  BY <1>1 DEF Init, Kept, Made, Idle
<1>6. Named
  <2>1. \A n \in Names : n = <<1, 1>>
    BY <1>1 DEF Init, Names, Blank, At, Idle, Procs
  <2> QED
    BY <2>1 DEF Init, Named, At, Idle, Procs
<1>7. NothingRefersToDeleted
  BY DEF Init, NothingRefersToDeleted
<1> QED
  BY <1>2, <1>3, <1>4, <1>5, <1>6, <1>7 DEF FilesInv

\* The invariant of FileLifecycle.
THEOREM FilesInvariant == Spec => []FilesInv
<1>1. FilesInv /\ [Next]_vars => FilesInv'
  BY ShapeStep, HeldStep, KeysStep, KeptStep, NamedStep, ReferenceStep DEF FilesInv
<1> QED
  BY <1>1, InitInv, PTL DEF Spec

\* No path names two files: createFileHandler's and updateFileHandler's checks race,
\* the unique key decides.
THEOREM PathsUnique == Spec => []OnePathOneFile
<1>1. FilesInv => OnePathOneFile
  BY DEF FilesInv, Keys
<1> QED
  BY <1>1, FilesInvariant, PTL

\* The objects of the files, of the snapshots and of a running export are there unless
\* deleteFileHandler has come to them.
THEOREM ObjectsKept == Spec => []NothingDangles
<1>1. FilesInv => NothingDangles
  BY DEF FilesInv, Kept, NothingDangles, Made, At, Procs
<1> QED
  BY <1>1, FilesInvariant, PTL

\* A flush of a copy that outlived its file never reaches the object of another one.
THEOREM TextsKeptApart == Spec => []OwnText
<1>1. FilesInv => OwnText
  <2> SUFFICES ASSUME FilesInv, NEW r \in files, r.object \in DOMAIN store
               PROVE  store[r.object] \in {0, r.id}
    BY DEF OwnText
  <2>1. <<r.id, r.object>> \in Names
    BY NamesOf
  <2> QED
    BY <2>1 DEF FilesInv, Named
<1> QED
  BY <1>1, FilesInvariant, PTL

\* With the foreign keys on, no operation and no snapshot outlives its file.
THEOREM ReferencesHold == Spec => []NothingRefersToDeleted
<1>1. FilesInv => NothingRefersToDeleted
  BY DEF FilesInv
<1> QED
  BY <1>1, FilesInvariant, PTL

\* Whoever holds the mutex of a copy is flushing that copy and waits for no other.
THEOREM HoldersFlush == Spec => []HoldersGoOn
<1>1. FilesInv => HoldersGoOn
  BY DEF FilesInv, Held
<1> QED
  BY <1>1, FilesInvariant, PTL

-------------------------------------------------------------------------------
(* Types: what is given out has room, whoever is still to come *)

\* Objects and ids that were given out: there is room for those to come.
Given == 1..(nextObject - 1)

WantObject == {"object", "snapshot"}
WantFile == {"object", "insert"}

Bounded ==
  /\ nextId > 0 /\ nextObject > 0
  /\ nextObject + Coming(WantObject) <= MaxObjects + 1
  /\ nextId + Coming(WantFile) <= MaxFiles + 1

\* What a goroutine has been asked for, and the copies that were ever loaded.
Deleting == {"get", "reset", "remove", "evict", "list", "unlink", "rows",
             "stage", "rename", "hash"}
Loaded == {x \in Copies : heap[x].file \in Ids} \cup {NoCopy}

Asked(p) ==
  /\ job[p].todo \subseteq Given
  /\ job[p].pc \in {"object", "insert", "update"} => job[p].path \in Paths
  /\ p \in Requests /\ job[p].pc \in Deleting => job[p].object \in Given
  /\ job[p].cell \in Loaded /\ job[p].victim \in Loaded

Reached ==
  /\ \A p \in Procs : Asked(p)
  /\ \A f \in Ids : cache[f] \in Loaded

Recorded ==
  /\ \A r \in files : r.id > 0 /\ r.path \in Paths
  /\ operations \subseteq [file : Ids, version : Nat]
  /\ \A s \in snapshots : s.file \in Ids
  /\ DOMAIN store \subseteq Given /\ \A o \in DOMAIN store : store[o] \in Ids \cup {0}
  /\ tmp \subseteq Given /\ unlinked \subseteq Given
  /\ pooled \in BOOLEAN /\ edits \in Nat /\ failures \in Nat

TypesInv == Bounded /\ Reached /\ Recorded

\* How many are coming: the count goes with those who join and leave.
LEMMA ComingCount ==
  ASSUME NEW pcs
  PROVE  /\ Coming(pcs) \in Nat
         /\ \A p \in Procs : job[p].pc \in pcs => Coming(pcs) > 0
         /\ (\A q \in Procs : job'[q].pc \in pcs => job[q].pc \in pcs)
              => Coming(pcs)' \in Nat /\ Coming(pcs)' <= Coming(pcs)
         /\ \A p \in Procs :
              /\ StepOf(p) => Coming(pcs)' \in Nat /\ Coming(pcs)' <= Coming(pcs) + 1
              /\ StepOf(p) /\ job[p].pc \in pcs /\ job'[p].pc \notin pcs
                   => Coming(pcs)' + 1 <= Coming(pcs)
<1> DEFINE S == {p \in Procs : job[p].pc \in pcs}
           T == {p \in Procs : job'[p].pc \in pcs}
<1>1. IsFiniteSet(Procs)
  <2>1. IsFiniteSet(Requests)
    BY ProcsAssumption
  <2>2. IsFiniteSet((Requests \cup {Editor}) \cup {Ticker})
    BY <2>1, FS_AddElement
  <2>3. Procs = (Requests \cup {Editor}) \cup {Ticker}
    BY DEF Procs
  <2> QED
    BY <2>2, <2>3
<1>2. IsFiniteSet(S) /\ IsFiniteSet(T)
  <2>1. S \in SUBSET Procs /\ T \in SUBSET Procs
    OBVIOUS
  <2> QED
    BY <1>1, <2>1, FS_Subset
<1>3. Coming(pcs) = Cardinality(S) /\ Coming(pcs)' = Cardinality(T)
  BY DEF Coming
<1> HIDE DEF S, T
<1>4. Coming(pcs) \in Nat /\ Coming(pcs)' \in Nat
  BY <1>2, <1>3, FS_CardinalityType
<1>5. ASSUME NEW p \in Procs, job[p].pc \in pcs PROVE Coming(pcs) > 0
  <2>1. p \in S
    BY <1>5 DEF S
  <2>2. Cardinality(S) # 0
    BY <1>2, <2>1, FS_EmptySet
  <2> QED
    BY <1>3, <1>4, <2>2
<1>6. ASSUME \A q \in Procs : job'[q].pc \in pcs => job[q].pc \in pcs
      PROVE  Coming(pcs)' <= Coming(pcs)
  <2>1. T \in SUBSET S
    BY <1>6 DEF S, T
  <2> QED
    BY <1>2, <1>3, <2>1, FS_Subset
<1>7. ASSUME NEW p \in Procs, StepOf(p) PROVE Coming(pcs)' <= Coming(pcs) + 1
  <2>1. T \in SUBSET (S \cup {p})
    BY <1>7 DEF S, T, StepOf
  <2>2. IsFiniteSet(S \cup {p}) /\ Cardinality(S \cup {p}) <= Cardinality(S) + 1
    <3>1. /\ IsFiniteSet(S \cup {p})
          /\ Cardinality(S \cup {p}) = IF p \in S THEN Cardinality(S) ELSE Cardinality(S) + 1
      BY <1>2, FS_AddElement
    <3> QED
      BY <3>1, <1>3, <1>4
  <2>3. Cardinality(T) <= Cardinality(S \cup {p})
    BY <2>1, <2>2, FS_Subset
  <2>4. Cardinality(S \cup {p}) \in Nat
    BY <2>2, FS_CardinalityType
  <2> QED
    BY <2>2, <2>3, <2>4, <1>3, <1>4
<1>8. ASSUME NEW p \in Procs, StepOf(p), job[p].pc \in pcs, job'[p].pc \notin pcs
      PROVE  Coming(pcs)' + 1 <= Coming(pcs)
  <2>1. T \in SUBSET (S \ {p}) /\ p \in S
    BY <1>8 DEF S, T, StepOf
  <2>2. IsFiniteSet(S \ {p}) /\ Cardinality(S \ {p}) = Cardinality(S) - 1
    BY <1>2, <2>1, FS_RemoveElement
  <2>3. Cardinality(T) <= Cardinality(S \ {p})
    BY <2>1, <2>2, FS_Subset
  <2> QED
    BY <2>2, <2>3, <1>3, <1>4
<1> QED
  BY <1>4, <1>5, <1>6, <1>7, <1>8

\* A step on which nobody asks for room and nothing is given out.
LEMMA BoundedQuiet ==
  ASSUME Shape, Bounded, UNCHANGED <<nextId, nextObject>>,
         \A q \in Procs : job'[q].pc \in {"object", "snapshot", "insert"} => job'[q] = job[q]
  PROVE  Bounded'
<1>1. /\ Coming(WantObject)' \in Nat /\ Coming(WantObject)' <= Coming(WantObject)
      /\ Coming(WantFile)' \in Nat /\ Coming(WantFile)' <= Coming(WantFile)
  BY ComingCount DEF WantObject, WantFile
<1>2. Coming(WantObject) \in Nat /\ Coming(WantFile) \in Nat
  BY ComingCount
<1>3. nextId' = nextId /\ nextObject' = nextObject /\ nextId \in Nat /\ nextObject \in Nat
  BY DEF Shape
<1> QED
  BY <1>1, <1>2, <1>3, BoundsAssumption DEF Bounded

\* Names and ids stay within their bounds: whoever is on the way to one has its room.
LEMMA BoundedStep == Shape /\ Held /\ Bounded /\ [Next]_vars => Bounded'
<1> SUFFICES ASSUME Shape, Held, Bounded, [Next]_vars PROVE Bounded'
  OBVIOUS
<1>0. /\ Coming(WantObject) \in Nat /\ Coming(WantFile) \in Nat
      /\ nextId \in Nat /\ nextObject \in Nat
  BY ComingCount DEF Shape
<1>1. ASSUME NEW r \in Requests, NEW q \in Paths, CheckPath(r, q) PROVE Bounded'
  <2>1. StepOf(r) /\ r \in Procs
    BY <1>1 DEF CheckPath, StepOf, Shape, Procs
  <2>2. /\ Coming(WantObject)' \in Nat /\ Coming(WantObject)' <= Coming(WantObject) + 1
        /\ Coming(WantFile)' \in Nat /\ Coming(WantFile)' <= Coming(WantFile) + 1
    BY <2>1, ComingCount
  <2>3. nextObject + Coming(WantObject) <= MaxObjects /\ nextId + Coming(WantFile) <= MaxFiles
    BY <1>1 DEF CheckPath, RoomForObject, RoomForFile, WantObject, WantFile
  <2>4. UNCHANGED <<nextId, nextObject>>
    BY <1>1 DEF CheckPath, db, disk
  <2> QED
    BY <1>0, <2>2, <2>3, <2>4, BoundsAssumption DEF Bounded
<1>2. ASSUME NEW r \in Requests, CreateObject(r) PROVE Bounded'
  <2>1. StepOf(r) /\ r \in Procs /\ job[r].pc = "object" /\ nextId' = nextId
    BY <1>2 DEF CreateObject, StepOf, Shape, Procs, Finish, At, db
  <2>2. job'[r].pc \in {"insert", "idle"}
    BY <1>2, <2>1 DEF CreateObject, Shape, JobState, Finish, Idle
  <2>3. Coming(WantObject)' \in Nat /\ Coming(WantObject)' + 1 <= Coming(WantObject)
    BY <2>1, <2>2, ComingCount DEF WantObject
  <2>4. Coming(WantFile)' \in Nat /\ Coming(WantFile)' <= Coming(WantFile)
    <3>1. \A q \in Procs : job'[q].pc \in WantFile => job[q].pc \in WantFile
      BY <2>1 DEF WantFile, StepOf
    <3> QED
      BY <3>1, ComingCount
  <2>5. nextObject' \in {nextObject, nextObject + 1}
    BY <1>2 DEF CreateObject, NewObject, disk
  <2> QED
    BY <1>0, <2>1, <2>3, <2>4, <2>5, BoundsAssumption DEF Bounded
<1>3. ASSUME NEW r \in Requests, InsertFile(r) PROVE Bounded'
  <2>1. StepOf(r) /\ r \in Procs /\ job[r].pc = "insert" /\ nextObject' = nextObject
    BY <1>3 DEF InsertFile, StepOf, Shape, Procs, Finish, At, disk
  <2>2. job'[r].pc = "idle"
    BY <1>3, <2>1 DEF InsertFile, Shape, Finish, Idle
  <2>3. Coming(WantFile)' \in Nat /\ Coming(WantFile)' + 1 <= Coming(WantFile)
    BY <2>1, <2>2, ComingCount DEF WantFile
  <2>4. Coming(WantObject)' \in Nat /\ Coming(WantObject)' <= Coming(WantObject)
    <3>1. \A q \in Procs : job'[q].pc \in WantObject => job[q].pc \in WantObject
      BY <2>1, <2>2 DEF WantObject, StepOf
    <3> QED
      BY <3>1, ComingCount
  <2>5. nextId' \in {nextId, nextId + 1}
    BY <1>3 DEF InsertFile, CreateFile
  <2> QED
    BY <1>0, <2>1, <2>3, <2>4, <2>5, BoundsAssumption DEF Bounded
<1>4. ASSUME StartFlush PROVE Bounded'
  <2>1. StepOf(Ticker) /\ Ticker \in Procs /\ job[Ticker].pc = "lock"
        /\ UNCHANGED <<nextId, nextObject>>
    BY <1>4 DEF StartFlush, StepOf, Shape, Procs, Finish, Goto, At, db, disk
  <2>2. CASE RoomForObject /\ Goto(Ticker, "snapshot")
    <3>1. job'[Ticker].pc = "snapshot"
      BY <2>1, <2>2 DEF Goto, Shape, JobState
    <3>2. Coming(WantFile)' \in Nat /\ Coming(WantFile)' <= Coming(WantFile)
      <4>1. \A q \in Procs : job'[q].pc \in WantFile => job[q].pc \in WantFile
        BY <2>1, <3>1 DEF WantFile, StepOf
      <4> QED
        BY <4>1, ComingCount
    <3>3. Coming(WantObject)' \in Nat /\ Coming(WantObject)' <= Coming(WantObject) + 1
      BY <2>1, ComingCount
    <3>4. nextObject + Coming(WantObject) <= MaxObjects
      BY <2>2 DEF RoomForObject, WantObject
    <3> QED
      BY <1>0, <2>1, <3>2, <3>3, <3>4, BoundsAssumption DEF Bounded
  <2>3. CASE Finish(Ticker)
    <3>1. job'[Ticker].pc = "idle"
      BY <2>1, <2>3 DEF Finish, Shape, Idle
    <3> QED
      BY <2>1, <3>1, BoundedQuiet DEF StepOf
  <2> QED
    BY <1>4, <2>2, <2>3 DEF StartFlush
<1>5. ASSUME CreateSnapshotObject PROVE Bounded'
  <2>1. StepOf(Ticker) /\ Ticker \in Procs /\ job[Ticker].pc = "snapshot" /\ nextId' = nextId
    BY <1>5 DEF CreateSnapshotObject, StepOf, Shape, Procs, Goto, At, db
  <2>2. job'[Ticker].pc \in {"record", "stage"}
    BY <1>5, <2>1 DEF CreateSnapshotObject, Shape, JobState, Goto
  <2>3. Coming(WantObject)' \in Nat /\ Coming(WantObject)' + 1 <= Coming(WantObject)
    BY <2>1, <2>2, ComingCount DEF WantObject
  <2>4. Coming(WantFile)' \in Nat /\ Coming(WantFile)' <= Coming(WantFile)
    <3>1. \A q \in Procs : job'[q].pc \in WantFile => job[q].pc \in WantFile
      BY <2>1, <2>2 DEF WantFile, StepOf
    <3> QED
      BY <3>1, ComingCount
  <2>5. nextObject' \in {nextObject, nextObject + 1}
    BY <1>5 DEF CreateSnapshotObject, NewObject, disk
  <2> QED
    BY <1>0, <2>1, <2>3, <2>4, <2>5, BoundsAssumption DEF Bounded
<1>6. ASSUME NEW r \in Requests,
             \/ (\E f \in Ids, q \in Paths : RequestRename(r, f, q)) \/ RequestExport(r)
             \/ (\E f \in Ids : RequestDelete(r, f)) \/ RenameFile(r) \/ ExportFile(r)
             \/ LookUpCached(r) \/ ResetPending(r) \/ RemoveCached(r) \/ EvictLock(r)
             \/ ListSnapshots(r) \/ DeleteObject(r) \/ DeleteRows(r)
      PROVE  Bounded'
  <2>1. UNCHANGED <<nextId, nextObject>>
    BY <1>6
       DEF RequestRename, RequestExport, RequestDelete, RenameFile, ExportFile,
           LookUpCached, ResetPending, RemoveCached, EvictLock, ListSnapshots, DeleteObject,
           DeleteRows, db, disk
  <2>2. StepOf(r) /\ r \in Procs
    BY <1>6
       DEF RequestRename, RequestExport, RequestDelete, RenameFile, ExportFile,
           LookUpCached, ResetPending, RemoveCached, EvictLock, ListSnapshots, DeleteObject,
           DeleteRows, Goto, Finish, StepOf, Shape, Procs
  <2>3. job'[r].pc \notin {"object", "snapshot", "insert"}
    <3>1. ASSUME NEW f \in Ids, NEW q \in Paths, RequestRename(r, f, q)
          PROVE  job'[r].pc = "update"
      <4>1. job'[r] = [Idle EXCEPT !.pc = "update", !.file = f, !.path = q]
        BY <2>2, <3>1 DEF RequestRename, Shape
      <4> QED
        BY <4>1 DEF Idle
    <3>2. ASSUME NEW f \in Ids, RequestDelete(r, f) PROVE job'[r].pc = "get"
      <4>1. job'[r] = [Idle EXCEPT !.pc = "get", !.file = f, !.object = FetchFile(f).object]
        BY <2>2, <3>2 DEF RequestDelete, Shape
      <4> QED
        BY <4>1 DEF Idle
    <3>3. CASE RequestExport(r)
      BY <2>2, <3>3 DEF RequestExport, Idle, Shape
    <3>4. CASE RenameFile(r) \/ DeleteRows(r)
      BY <2>2, <3>4 DEF RenameFile, DeleteRows, Finish, Idle, Shape
    <3>5. CASE ExportFile(r)
      BY <2>2, <3>5 DEF ExportFile, Finish, Idle, Shape, JobState, At
    <3>6. CASE LookUpCached(r) \/ RemoveCached(r)
      BY <2>2, <3>6 DEF LookUpCached, RemoveCached, Shape, JobState
    <3>7. CASE ResetPending(r) \/ EvictLock(r)
      BY <2>2, <3>7 DEF ResetPending, EvictLock, Goto, Shape, JobState
    <3>8. CASE ListSnapshots(r)
      BY <2>2, <3>8 DEF ListSnapshots, Finish, Idle, Shape, JobState
    <3>9. CASE DeleteObject(r)
      BY <2>2, <3>9 DEF DeleteObject, Goto, Finish, Idle, Shape, JobState, At
    <3> QED
      BY <1>6, <3>1, <3>2, <3>3, <3>4, <3>5, <3>6, <3>7, <3>8, <3>9
  <2> QED
    BY <2>1, <2>2, <2>3, BoundedQuiet DEF StepOf
<1>7. ASSUME (\E f \in Ids : ReceiveChunk(f)) \/ LoadFile \/ ApplyChunk PROVE Bounded'
  <2>1. UNCHANGED <<nextId, nextObject>>
    BY <1>7 DEF ReceiveChunk, LoadFile, ApplyChunk, db, disk
  <2>2. StepOf(Editor) /\ Editor \in Procs
    BY <1>7 DEF ReceiveChunk, LoadFile, ApplyChunk, Finish, StepOf, Shape, Procs
  <2>3. job'[Editor].pc \notin {"object", "snapshot", "insert"}
    <3>1. ASSUME NEW f \in Ids, ReceiveChunk(f) PROVE job'[Editor].pc \in {"apply", "add"}
      <4>1. CASE cache[f] = NoCopy
        <5>1. job'[Editor] = [Idle EXCEPT !.pc = "add", !.file = f,
                                !.object = FetchFile(f).object, !.version = FetchFile(f).version]
          BY <2>2, <3>1, <4>1 DEF ReceiveChunk, Shape
        <5> QED
          BY <5>1 DEF Idle
      <4>2. CASE cache[f] # NoCopy
        <5>1. job'[Editor] = [Idle EXCEPT !.pc = "apply", !.cell = cache[f]]
          BY <2>2, <3>1, <4>2 DEF ReceiveChunk, Shape
        <5> QED
          BY <5>1 DEF Idle
      <4> QED
        BY <4>1, <4>2
    <3>2. CASE LoadFile
      BY <2>2, <3>2 DEF LoadFile, Finish, Idle, Shape, JobState
    <3>3. CASE ApplyChunk
      BY <2>2, <3>3 DEF ApplyChunk, Finish, Idle, Shape
    <3> QED
      BY <1>7, <3>1, <3>2, <3>3
  <2> QED
    BY <2>1, <2>2, <2>3, BoundedQuiet DEF StepOf
<1>8. ASSUME (\E f \in Ids : ProcessFile(f)) \/ CreateSnapshotRow PROVE Bounded'
  <2>1. UNCHANGED <<nextId, nextObject>>
    BY <1>8 DEF ProcessFile, CreateSnapshotRow, db, disk
  <2>2. StepOf(Ticker) /\ Ticker \in Procs
    BY <1>8 DEF ProcessFile, CreateSnapshotRow, Goto, StepOf, Shape, Procs
  <2>3. job'[Ticker].pc \notin {"object", "snapshot", "insert"}
    <3>1. CASE \E f \in Ids : ProcessFile(f)
      BY <2>2, <3>1 DEF ProcessFile, Idle, Shape
    <3>2. CASE CreateSnapshotRow
      BY <2>2, <3>2 DEF CreateSnapshotRow, Goto, Shape, JobState
    <3> QED
      BY <1>8, <3>1, <3>2
  <2> QED
    BY <2>1, <2>2, <2>3, BoundedQuiet DEF StepOf
<1>9. ASSUME NEW p \in Procs, FlushStep(p) PROVE Bounded'
  <2>1. UNCHANGED <<nextId, nextObject>>
    BY <1>9 DEF FlushStep, StageObject, RenameObject, FlushDone, FlushFails, db, disk
  <2>2. StepOf(p)
    BY <1>9 DEF FlushStep, StageObject, RenameObject, FlushDone, FlushFails, AfterFlush,
                Goto, Finish, StepOf, Shape
  <2>3. job'[p].pc \notin {"object", "snapshot", "insert"}
    BY <1>9 DEF FlushStep, StageObject, RenameObject, FlushDone, FlushFails, AfterFlush,
                Goto, Finish, Idle, Shape, JobState
  <2> QED
    BY <2>1, <2>2, <2>3, BoundedQuiet DEF StepOf
<1>10. CASE PurgeCache
  <2>1. UNCHANGED <<nextId, nextObject, job>>
    BY <1>10 DEF PurgeCache, disk
  <2> QED
    BY <2>1, BoundedQuiet
<1>11. CASE Crash
  <2>1. UNCHANGED <<nextId, nextObject>> /\ \A q \in Procs : job'[q].pc = "idle"
    BY <1>11 DEF Crash, db, disk, Idle
  <2> QED
    BY <2>1, BoundedQuiet
<1>12. CASE UNCHANGED vars
  <2>1. UNCHANGED <<nextId, nextObject, job>>
    BY <1>12 DEF vars, db, disk
  <2> QED
    BY <2>1, BoundedQuiet
<1> QED
  BY <1>1, <1>2, <1>3, <1>4, <1>5, <1>6, <1>7, <1>8, <1>9, <1>10, <1>11, <1>12
     DEF Next, RequestStep, EditStep, TickerStep

\* What was given out stays so, and a copy that was loaded has its file until the end of
\* the process.
LEMMA LoadedGrows == Shape /\ Held /\ [Next]_vars =>
  /\ Given \subseteq Given'
  /\ Crash \/ Loaded \subseteq Loaded'
<1> SUFFICES ASSUME Shape, Held, [Next]_vars
             PROVE  Given \subseteq Given' /\ (Crash \/ Loaded \subseteq Loaded')
  OBVIOUS
<1>0. ASSUME nextObject' \in {nextObject, nextObject + 1} PROVE Given \subseteq Given'
  <2>1. nextObject \in Nat
    BY DEF Shape
  <2>2. CASE nextObject' = nextObject
    BY <2>2 DEF Given
  <2>3. CASE nextObject' = nextObject + 1
    <3>1. \A n \in Nat : 1..(n - 1) \subseteq 1..(n + 1 - 1)
      OBVIOUS
    <3> QED
      BY <2>1, <2>3, <3>1 DEF Given
  <2> QED
    BY <1>0, <2>2, <2>3
<1>1. CASE UNCHANGED <<heap, nextObject>>
  BY <1>1 DEF Given, Loaded
<1>2. ASSUME NEW r \in Requests, CreateObject(r)
      PROVE  Given \subseteq Given' /\ Loaded \subseteq Loaded'
  <2>1. nextObject' \in {nextObject, nextObject + 1} /\ heap' = heap
    BY <1>2 DEF CreateObject, NewObject, disk, mem
  <2> QED
    BY <2>1, <1>0 DEF Loaded
<1>3. ASSUME CreateSnapshotObject
      PROVE  Given \subseteq Given' /\ Loaded \subseteq Loaded'
  <2>1. nextObject' \in {nextObject, nextObject + 1} /\ heap' = heap
    BY <1>3 DEF CreateSnapshotObject, NewObject, disk, mem
  <2> QED
    BY <2>1, <1>0 DEF Loaded
<1>4. ASSUME NEW r \in Requests, ResetPending(r)
      PROVE  Given \subseteq Given' /\ Loaded \subseteq Loaded'
  <2>1. nextObject' = nextObject /\ \A x \in Copies : heap'[x].file = heap[x].file
    BY <1>4 DEF ResetPending, Shape, CopyState, disk
  <2> QED
    BY <2>1 DEF Given, Loaded
<1>5. ASSUME LoadFile PROVE Given \subseteq Given' /\ Loaded \subseteq Loaded'
  <2>1. nextObject' = nextObject
        /\ \A x \in Copies : heap'[x].file \in {heap[x].file, job[Editor].file}
    <3> DEFINE x0 == CHOOSE y \in Unreferenced : TRUE
               c == [file |-> job[Editor].file, object |-> job[Editor].object,
                     version |-> job[Editor].version, pending |-> FALSE]
    <3>1. nextObject' = nextObject /\ heap' \in {heap, [heap EXCEPT ![x0] = c]}
      BY <1>5 DEF LoadFile, disk
    <3>2. c.file = job[Editor].file
      OBVIOUS
    <3> HIDE DEF x0, c
    <3> QED
      BY <3>1, <3>2 DEF Shape
  <2>2. job[Editor].file \in Ids
    BY <1>5 DEF LoadFile, Held, HeldBy, At, Procs
  <2> QED
    BY <2>1, <2>2 DEF Given, Loaded
<1>6. ASSUME ApplyChunk PROVE Given \subseteq Given' /\ Loaded \subseteq Loaded'
  <2>1. nextObject' = nextObject /\ \A x \in Copies : heap'[x].file = heap[x].file
    BY <1>6 DEF ApplyChunk, Shape, CopyState, disk
  <2> QED
    BY <2>1 DEF Given, Loaded
<1>7. ASSUME NEW p \in Procs, FlushDone(p)
      PROVE  Given \subseteq Given' /\ Loaded \subseteq Loaded'
  <2>1. nextObject' = nextObject /\ \A x \in Copies : heap'[x].file = heap[x].file
    BY <1>7 DEF FlushDone, Shape, CopyState, disk
  <2> QED
    BY <2>1 DEF Given, Loaded
<1>8. ASSUME NEW r \in Requests,
             \/ (\E q \in Paths : CheckPath(r, q)) \/ RequestExport(r)
             \/ (\E f \in Ids, q \in Paths : RequestRename(r, f, q))
             \/ (\E f \in Ids : RequestDelete(r, f)) \/ InsertFile(r) \/ RenameFile(r)
             \/ ExportFile(r) \/ LookUpCached(r) \/ RemoveCached(r) \/ EvictLock(r)
             \/ ListSnapshots(r) \/ DeleteObject(r) \/ DeleteRows(r)
      PROVE  UNCHANGED <<heap, nextObject>>
  BY <1>8
     DEF CheckPath, RequestRename, RequestExport, RequestDelete, InsertFile, RenameFile,
         ExportFile, LookUpCached, RemoveCached, EvictLock, ListSnapshots, DeleteObject,
         DeleteRows, disk, mem
<1>9. ASSUME \/ (\E f \in Ids : ReceiveChunk(f)) \/ (\E f \in Ids : ProcessFile(f))
             \/ StartFlush \/ CreateSnapshotRow \/ PurgeCache \/ UNCHANGED vars
      PROVE  UNCHANGED <<heap, nextObject>>
  BY <1>9 DEF ReceiveChunk, ProcessFile, StartFlush, CreateSnapshotRow, PurgeCache, disk,
              mem, vars
<1>10. ASSUME NEW p \in Procs, StageObject(p) \/ RenameObject(p) \/ FlushFails(p)
       PROVE  UNCHANGED <<heap, nextObject>>
  BY <1>10 DEF StageObject, RenameObject, FlushFails, disk
<1>11. CASE Crash
  BY <1>11, <1>0 DEF Crash, disk
<1> QED
  BY <1>1, <1>2, <1>3, <1>4, <1>5, <1>6, <1>7, <1>8, <1>9, <1>10, <1>11
     DEF Next, RequestStep, EditStep, TickerStep, FlushStep

\* A step of one goroutine that leaves the cache alone.
LEMMA ReachedFrame ==
  ASSUME Reached, Given \subseteq Given', Loaded \subseteq Loaded', UNCHANGED cache,
         NEW p \in Procs, StepOf(p), Asked(p)'
  PROVE  Reached'
<1>1. ASSUME NEW q \in Procs, q # p PROVE Asked(q)'
  <2>1. Asked(q) /\ job'[q] = job[q]
    BY <1>1 DEF Reached, StepOf
  <2> QED
    BY <2>1 DEF Asked
<1>2. \A f \in Ids : cache'[f] \in Loaded'
  BY DEF Reached
<1> QED
  BY <1>1, <1>2 DEF Reached

\* A goroutine that is done, or goes on with what it was asked.
LEMMA AskedOn ==
  ASSUME Reached, Given \subseteq Given', Loaded \subseteq Loaded', NEW p \in Procs,
         \/ job'[p] = Idle
         \/ /\ job'[p].todo \subseteq job[p].todo
            /\ job'[p].cell \in {job[p].cell, NoCopy}
            /\ job'[p].victim \in {job[p].victim, NoCopy}
            /\ job'[p].pc \notin {"object", "insert", "update"}
            /\ p \in Requests /\ job'[p].pc \in Deleting =>
                 job[p].pc \in Deleting /\ job'[p].object = job[p].object
  PROVE  Asked(p)'
<1>1. Asked(p) /\ NoCopy \in Loaded'
  BY DEF Reached, Loaded
<1>2. CASE job'[p] = Idle
  BY <1>1, <1>2 DEF Asked, Idle, Deleting
<1>3. CASE job'[p] # Idle
  BY <1>1, <1>3 DEF Asked
<1> QED
  BY <1>2, <1>3

\* Every action keeps to what was asked, to what was given out and to loaded copies.
LEMMA ReachedStep ==
  Shape /\ Held /\ Kept /\ Named /\ Reached /\ Recorded /\ [Next]_vars => Reached'
<1> SUFFICES ASSUME Shape, Held, Kept, Named, Reached, Recorded, [Next]_vars
             PROVE  Reached'
  OBVIOUS
<1>0. Given \subseteq Given' /\ (Crash \/ Loaded \subseteq Loaded')
  BY LoadedGrows
<1>1. CASE Crash
  BY <1>1, <1>0 DEF Crash, Reached, Asked, Idle, Deleting, Loaded, Procs
<1>2. CASE PurgeCache \/ UNCHANGED vars
  <2>1. UNCHANGED <<cache, job, heap, nextObject>>
    BY <1>2 DEF PurgeCache, vars, mem, disk
  <2> QED
    BY <2>1 DEF Reached, Asked, Loaded, Given
<1> SUFFICES ASSUME Loaded \subseteq Loaded', ~Crash, ~PurgeCache, Next PROVE Reached'
  BY <1>0, <1>1, <1>2
<1>3. \A r \in files : r.object \in Given
  BY NamesOf DEF Named, Given
<1>4. \A s \in snapshots : s.object \in Given
  BY DEF Kept, Made, Recorded
<1>5. ASSUME NEW p \in Procs, StepOf(p), cache' = cache,
             \/ job'[p] = Idle
             \/ /\ job'[p].todo = job[p].todo
                /\ job'[p].cell = job[p].cell
                /\ job'[p].victim \in {job[p].victim, NoCopy}
                /\ job'[p].object = job[p].object
                /\ job'[p].pc \notin {"object", "insert", "update"}
                /\ p \in Requests => job[p].pc \in Deleting
      PROVE  Reached'
  BY <1>5, <1>0, AskedOn, ReachedFrame
<1>6. ASSUME NEW r \in Requests, NEW q \in Paths, CheckPath(r, q) PROVE Reached'
  <2>1. StepOf(r) /\ cache' = cache /\ r \in Procs
        /\ job'[r] = [Idle EXCEPT !.pc = "object", !.path = q]
    BY <1>6 DEF CheckPath, StepOf, Shape, Procs, mem
  <2>2. Asked(r)'
    BY <2>1 DEF Asked, Idle, Deleting, Loaded
  <2> QED
    BY <2>1, <2>2, <1>0, ReachedFrame
<1>7. ASSUME NEW r \in Requests, NEW f \in Ids, NEW q \in Paths, RequestRename(r, f, q)
      PROVE  Reached'
  <2>1. StepOf(r) /\ cache' = cache /\ r \in Procs
        /\ job'[r] = [Idle EXCEPT !.pc = "update", !.file = f, !.path = q]
    BY <1>7 DEF RequestRename, StepOf, Shape, Procs, mem
  <2>2. Asked(r)'
    BY <2>1 DEF Asked, Idle, Deleting, Loaded
  <2> QED
    BY <2>1, <2>2, <1>0, ReachedFrame
<1>8. ASSUME NEW r \in Requests, RequestExport(r) PROVE Reached'
  <2>1. StepOf(r) /\ cache' = cache /\ r \in Procs
        /\ job'[r] = [Idle EXCEPT !.pc = "export", !.todo = {f.object : f \in files}]
    BY <1>8 DEF RequestExport, StepOf, Shape, Procs, mem
  <2>2. {f.object : f \in files} \subseteq Given'
    BY <1>0, <1>3
  <2>3. Asked(r)'
    BY <2>1, <2>2 DEF Asked, Idle, Deleting, Loaded
  <2> QED
    BY <2>1, <2>3, <1>0, ReachedFrame
<1>9. ASSUME NEW r \in Requests, NEW f \in Ids, RequestDelete(r, f) PROVE Reached'
  <2>1. StepOf(r) /\ cache' = cache /\ r \in Procs
        /\ job'[r] = [Idle EXCEPT !.pc = "get", !.file = f, !.object = FetchFile(f).object]
    BY <1>9 DEF RequestDelete, StepOf, Shape, Procs, mem
  <2>2. FetchFile(f).object \in Given'
    BY <1>9, <1>0, <1>3, Fetched DEF RequestDelete
  <2>3. Asked(r)'
    BY <2>1, <2>2 DEF Asked, Idle, Loaded
  <2> QED
    BY <2>1, <2>3, <1>0, ReachedFrame
<1>10. ASSUME NEW r \in Requests, CreateObject(r) PROVE Reached'
  <2>1. StepOf(r) /\ cache' = cache /\ r \in Procs /\ job[r].pc = "object"
    BY <1>10 DEF CreateObject, StepOf, Shape, Procs, mem, Finish, At
  <2>2. CASE Finish(r)
    BY <2>1, <2>2, <1>5 DEF Finish, Shape
  <2>3. CASE job' = [job EXCEPT ![r].pc = "insert", ![r].object = FreshName]
    <3>1. /\ job'[r].pc = "insert" /\ job'[r].path = job[r].path
          /\ job'[r].todo = job[r].todo
          /\ job'[r].cell = job[r].cell /\ job'[r].victim = job[r].victim
      BY <2>1, <2>3 DEF Shape, JobState
    <3>2. Asked(r)
      BY <2>1 DEF Reached
    <3>3. Asked(r)'
      BY <2>1, <3>1, <3>2, <1>0 DEF Asked, Deleting
    <3> QED
      BY <2>1, <3>3, <1>0, ReachedFrame
  <2> QED
    BY <1>10, <2>2, <2>3 DEF CreateObject
<1>11. ASSUME NEW r \in Requests, InsertFile(r) \/ RenameFile(r) \/ DeleteRows(r)
       PROVE  Reached'
  <2>1. StepOf(r) /\ cache' = cache /\ r \in Procs /\ job'[r] = Idle
    BY <1>11 DEF InsertFile, RenameFile, DeleteRows, StepOf, Shape, Procs, mem, Finish
  <2> QED
    BY <2>1, <1>5
<1>12. ASSUME NEW r \in Requests, ExportFile(r) PROVE Reached'
  <2>1. StepOf(r) /\ cache' = cache /\ r \in Procs /\ job[r].pc = "export"
    BY <1>12 DEF ExportFile, StepOf, Shape, Procs, mem, Finish, At
  <2>2. CASE Finish(r)
    BY <2>1, <2>2, <1>5 DEF Finish, Shape
  <2>3. ASSUME NEW o, job' = [job EXCEPT ![r].todo = @ \ {o}] PROVE Reached'
    <3>1. /\ job'[r].pc = "export" /\ job'[r].todo \subseteq job[r].todo
          /\ job'[r].cell = job[r].cell /\ job'[r].victim = job[r].victim
      BY <2>1, <2>3 DEF Shape, JobState
    <3>2. Asked(r)'
      BY <2>1, <3>1, <1>0, AskedOn DEF Deleting
    <3> QED
      BY <2>1, <3>2, <1>0, ReachedFrame
  <2> QED
    BY <1>12, <2>2, <2>3 DEF ExportFile
<1>13. ASSUME NEW r \in Requests, LookUpCached(r) PROVE Reached'
  <2>1. StepOf(r) /\ cache' = cache /\ r \in Procs /\ job[r].pc = "get"
        /\ job[r].file \in Ids
    BY <1>13 DEF LookUpCached, StepOf, Shape, Procs, mem, At, Held, HeldBy
  <2>2. /\ job'[r].pc \in {"list", "reset"} /\ job'[r].cell = cache[job[r].file]
        /\ job'[r].todo = job[r].todo /\ job'[r].victim = job[r].victim
        /\ job'[r].object = job[r].object
    BY <1>13, <2>1 DEF LookUpCached, Shape, JobState
  <2>3. Asked(r) /\ cache[job[r].file] \in Loaded
    BY <2>1 DEF Reached
  <2>4. Asked(r)'
    BY <2>1, <2>2, <2>3, <1>0 DEF Asked, Deleting
  <2> QED
    BY <2>1, <2>4, <1>0, ReachedFrame
<1>14. ASSUME NEW r \in Requests, ResetPending(r) \/ EvictLock(r) PROVE Reached'
  <2>1. StepOf(r) /\ cache' = cache /\ r \in Procs /\ job[r].pc \in Deleting
    BY <1>14 DEF ResetPending, EvictLock, Goto, StepOf, Shape, Procs, mem, At, Deleting
  <2>2. /\ job'[r].todo = job[r].todo /\ job'[r].cell = job[r].cell
        /\ job'[r].victim \in {job[r].victim, NoCopy} /\ job'[r].object = job[r].object
        /\ job'[r].pc \notin {"object", "insert", "update"}
    BY <1>14, <2>1 DEF ResetPending, EvictLock, Goto, Shape, JobState
  <2> QED
    BY <2>1, <2>2, <1>5
<1>15. ASSUME NEW r \in Requests, RemoveCached(r) PROVE Reached'
  <2>1. StepOf(r) /\ r \in Procs /\ job[r].pc = "remove" /\ job[r].file \in Ids
        /\ cache' = [cache EXCEPT ![job[r].file] = NoCopy]
    BY <1>15 DEF RemoveCached, StepOf, Shape, Procs, At, Held, HeldBy
  <2>2. /\ job'[r].pc \in {"list", "evict"} /\ job'[r].cell = NoCopy
        /\ job'[r].todo = job[r].todo /\ job'[r].victim = cache[job[r].file]
        /\ job'[r].object = job[r].object
    BY <1>15, <2>1 DEF RemoveCached, Shape, JobState
  <2>3. Asked(r) /\ cache[job[r].file] \in Loaded /\ NoCopy \in Loaded
    BY <2>1 DEF Reached, Loaded
  <2>4. Asked(r)'
    BY <2>1, <2>2, <2>3, <1>0 DEF Asked, Deleting
  <2>5. \A q \in Procs : Asked(q)'
    BY <2>1, <2>4, <1>0 DEF Reached, Asked, StepOf
  <2>6. \A f \in Ids : cache'[f] \in Loaded'
    BY <2>1, <2>3, <1>0 DEF Reached, Shape
  <2> QED
    BY <2>5, <2>6 DEF Reached
<1>16. ASSUME NEW r \in Requests, ListSnapshots(r) PROVE Reached'
  <2>1. StepOf(r) /\ cache' = cache /\ r \in Procs /\ job[r].pc = "list"
    BY <1>16 DEF ListSnapshots, StepOf, Shape, Procs, mem, At, Finish
  <2>2. CASE Finish(r)
    BY <2>1, <2>2, <1>5 DEF Finish, Shape
  <2>3. CASE job' = [job EXCEPT ![r].pc = "unlink",
                       ![r].todo = {s.object : s \in FetchSnapshots(job[r].file)}]
    <3>1. /\ job'[r].pc = "unlink"
          /\ job'[r].todo = {s.object : s \in FetchSnapshots(job[r].file)}
          /\ job'[r].cell = job[r].cell /\ job'[r].victim = job[r].victim
          /\ job'[r].object = job[r].object
      BY <2>1, <2>3 DEF Shape, JobState
    <3>2. {s.object : s \in FetchSnapshots(job[r].file)} \subseteq Given
      BY <1>4 DEF FetchSnapshots
    <3>3. Asked(r)
      BY <2>1 DEF Reached
    <3>4. Asked(r)'
      BY <2>1, <3>1, <3>2, <3>3, <1>0 DEF Asked, Deleting
    <3> QED
      BY <2>1, <3>4, <1>0, ReachedFrame
  <2> QED
    BY <1>16, <2>2, <2>3 DEF ListSnapshots
<1>17. ASSUME NEW r \in Requests, DeleteObject(r) PROVE Reached'
  <2>1. StepOf(r) /\ cache' = cache /\ r \in Procs /\ job[r].pc = "unlink"
    BY <1>17 DEF DeleteObject, StepOf, Shape, Procs, mem, At, Finish, Goto
  <2>2. CASE Finish(r)
    BY <2>1, <2>2, <1>5 DEF Finish, Shape
  <2>3. CASE Goto(r, "rows")
    <3>1. /\ job'[r].pc = "rows" /\ job'[r].todo = job[r].todo
          /\ job'[r].cell = job[r].cell /\ job'[r].victim = job[r].victim
          /\ job'[r].object = job[r].object
      BY <2>1, <2>3 DEF Goto, Shape, JobState
    <3> QED
      BY <2>1, <3>1, <1>5 DEF Deleting
  <2>4. ASSUME NEW o, job' = [job EXCEPT ![r].todo = @ \ {o}] PROVE Reached'
    <3>1. /\ job'[r].pc = "unlink" /\ job'[r].todo \subseteq job[r].todo
          /\ job'[r].cell = job[r].cell /\ job'[r].victim = job[r].victim
          /\ job'[r].object = job[r].object
      BY <2>1, <2>4 DEF Shape, JobState
    <3>2. Asked(r)'
      BY <2>1, <3>1, <1>0, AskedOn DEF Deleting
    <3> QED
      BY <2>1, <3>2, <1>0, ReachedFrame
  <2> QED
    BY <1>17, <2>2, <2>3, <2>4 DEF DeleteObject
<1>18. ASSUME NEW f \in Ids, ReceiveChunk(f) PROVE Reached'
  <2>1. StepOf(Editor) /\ cache' = cache /\ Editor \in Procs /\ Editor \notin Requests
    BY <1>18, ProcsAssumption DEF ReceiveChunk, StepOf, Shape, Procs, mem
  <2>2. /\ job'[Editor].pc \in {"apply", "add"} /\ job'[Editor].todo = {}
        /\ job'[Editor].cell \in {cache[f], NoCopy} /\ job'[Editor].victim = NoCopy
    <3>1. CASE cache[f] = NoCopy
      <4>1. job'[Editor] = [Idle EXCEPT !.pc = "add", !.file = f,
                              !.object = FetchFile(f).object, !.version = FetchFile(f).version]
        BY <1>18, <2>1, <3>1 DEF ReceiveChunk, Shape
      <4> QED
        BY <4>1 DEF Idle
    <3>2. CASE cache[f] # NoCopy
      <4>1. job'[Editor] = [Idle EXCEPT !.pc = "apply", !.cell = cache[f]]
        BY <1>18, <2>1, <3>2 DEF ReceiveChunk, Shape
      <4> QED
        BY <4>1 DEF Idle
    <3> QED
      BY <3>1, <3>2
  <2>3. cache[f] \in Loaded /\ NoCopy \in Loaded
    BY DEF Reached, Loaded
  <2>4. Asked(Editor)'
    BY <2>1, <2>2, <2>3, <1>0 DEF Asked
  <2> QED
    BY <2>1, <2>4, <1>0, ReachedFrame
<1>19. CASE LoadFile
  <2>1. StepOf(Editor) /\ Editor \in Procs /\ Editor \notin Requests
        /\ job[Editor].file \in Ids
    BY <1>19, ProcsAssumption DEF LoadFile, StepOf, Shape, Procs, Finish, Held, HeldBy, At
  <2>2. CASE Finish(Editor) /\ UNCHANGED cache
    BY <2>1, <2>2, <1>5 DEF Finish, Shape
  <2>3. CASE ~(Finish(Editor) /\ UNCHANGED cache)
    <3> DEFINE x == CHOOSE y \in Unreferenced : TRUE
               c == [file |-> job[Editor].file, object |-> job[Editor].object,
                     version |-> job[Editor].version, pending |-> FALSE]
    <3>1. /\ x \in Copies
          /\ heap' = [heap EXCEPT ![x] = c]
          /\ cache' = [cache EXCEPT ![job[Editor].file] = x]
          /\ job' = [job EXCEPT ![Editor].pc = "apply", ![Editor].cell = x]
      <4>1. x \in Unreferenced
        BY <1>19 DEF LoadFile
      <4>2. x \in Copies
        BY <4>1 DEF Unreferenced
      <4>3. job[Editor].object \in DOMAIN store
        BY <1>19, <2>3 DEF LoadFile
      <4> QED
        BY <1>19, <4>2, <4>3 DEF LoadFile
    <3>2. c.file = job[Editor].file
      OBVIOUS
    <3> HIDE DEF x, c
    <3>3. x \in Loaded'
      BY <2>1, <3>1, <3>2 DEF Loaded, Shape
    <3>4. /\ job'[Editor].pc = "apply" /\ job'[Editor].cell = x
          /\ job'[Editor].todo = job[Editor].todo
          /\ job'[Editor].victim = job[Editor].victim
      BY <2>1, <3>1 DEF Shape, JobState
    <3>5. Asked(Editor)
      BY <2>1 DEF Reached
    <3>6. Asked(Editor)'
      BY <2>1, <3>3, <3>4, <3>5, <1>0 DEF Asked
    <3>7. \A q \in Procs : Asked(q)'
      BY <2>1, <3>6, <1>0 DEF Reached, Asked, StepOf
    <3>8. \A f \in Ids : cache'[f] \in Loaded'
      BY <2>1, <3>1, <3>3, <1>0 DEF Reached, Shape
    <3> QED
      BY <3>7, <3>8 DEF Reached
  <2> QED
    BY <2>2, <2>3
<1>20. CASE ApplyChunk
  <2>1. StepOf(Editor) /\ cache' = cache /\ Editor \in Procs /\ job'[Editor] = Idle
    BY <1>20 DEF ApplyChunk, StepOf, Shape, Procs, Finish
  <2> QED
    BY <2>1, <1>5
<1>21. ASSUME NEW f \in Ids, ProcessFile(f) PROVE Reached'
  <2>1. StepOf(Ticker) /\ cache' = cache /\ Ticker \in Procs /\ Ticker \notin Requests
        /\ job'[Ticker] = [Idle EXCEPT !.pc = "lock", !.cell = cache[f]]
    BY <1>21, ProcsAssumption DEF ProcessFile, StepOf, Shape, Procs, mem
  <2>2. cache[f] \in Loaded /\ NoCopy \in Loaded
    BY DEF Reached, Loaded
  <2>3. Asked(Ticker)'
    BY <2>1, <2>2, <1>0 DEF Asked, Idle
  <2> QED
    BY <2>1, <2>3, <1>0, ReachedFrame
<1>22. CASE StartFlush \/ CreateSnapshotObject \/ CreateSnapshotRow
  <2>1. StepOf(Ticker) /\ cache' = cache /\ Ticker \in Procs /\ Ticker \notin Requests
    BY <1>22, ProcsAssumption
       DEF StartFlush, CreateSnapshotObject, CreateSnapshotRow, StepOf, Shape, Procs, mem,
           Goto, Finish
  <2>2. CASE Finish(Ticker)
    BY <2>1, <2>2, <1>5 DEF Finish, Shape
  <2>3. CASE ~Finish(Ticker)
    <3>1. /\ job'[Ticker].todo = job[Ticker].todo /\ job'[Ticker].cell = job[Ticker].cell
          /\ job'[Ticker].victim = job[Ticker].victim
          /\ job'[Ticker].pc \in {"snapshot", "record", "stage"}
      BY <1>22, <2>1, <2>3
         DEF StartFlush, CreateSnapshotObject, CreateSnapshotRow, Shape, JobState, Goto
    <3>2. Asked(Ticker)'
      BY <2>1, <3>1, <1>0, AskedOn
    <3> QED
      BY <2>1, <3>2, <1>0, ReachedFrame
  <2> QED
    BY <2>2, <2>3
<1>23. ASSUME NEW p \in Procs, FlushStep(p) PROVE Reached'
  <2>1. StepOf(p) /\ cache' = cache /\ job[p].pc \in Deleting
    BY <1>23
       DEF FlushStep, StageObject, RenameObject, FlushDone, FlushFails, AfterFlush, StepOf,
           Shape, Goto, Finish, At, Deleting
  <2>2. CASE p = Ticker /\ Finish(p)
    BY <2>1, <2>2, <1>5 DEF Finish, Shape
  <2>3. CASE ~(p = Ticker /\ Finish(p))
    <3>1. \/ Goto(p, "rename") \/ Goto(p, "hash")
          \/ job' = [job EXCEPT ![p].pc = "list", ![p].victim = NoCopy]
      BY <1>23, <2>3
         DEF FlushStep, StageObject, RenameObject, FlushDone, FlushFails, AfterFlush
    <3>2. /\ job'[p].todo = job[p].todo /\ job'[p].cell = job[p].cell
          /\ job'[p].victim \in {job[p].victim, NoCopy} /\ job'[p].object = job[p].object
          /\ job'[p].pc \notin {"object", "insert", "update"}
      BY <3>1 DEF Goto, Shape, JobState
    <3> QED
      BY <2>1, <3>2, <1>5
  <2> QED
    BY <2>2, <2>3
<1> QED
  BY <1>6, <1>7, <1>8, <1>9, <1>10, <1>11, <1>12, <1>13, <1>14, <1>15, <1>16, <1>17,
     <1>18, <1>19, <1>20, <1>21, <1>22, <1>23
     DEF Next, RequestStep, EditStep, TickerStep

\* A step that changes neither rows nor objects.
LEMMA RecordedFrame ==
  ASSUME Recorded, Given \subseteq Given',
         UNCHANGED <<files, operations, snapshots, pooled, store, tmp, unlinked>>,
         edits' \in Nat, failures' \in Nat
  PROVE  Recorded'
BY DEF Recorded

\* An object that is filled was given out, and holds the text of a file.
LEMMA RecordedFill ==
  ASSUME Recorded, Given \subseteq Given', NEW o \in Given', NEW text \in Ids \cup {0},
         Fill(o, text), UNCHANGED <<files, operations, snapshots, pooled, unlinked>>,
         tmp' \subseteq tmp, edits' \in Nat, failures' \in Nat
  PROVE  Recorded'
<1>1. /\ DOMAIN store' = DOMAIN store \cup {o}
      /\ \A x \in DOMAIN store' : store'[x] = IF x = o THEN text ELSE store[x]
  BY DEF Fill
<1>2. DOMAIN store' \subseteq Given' /\ \A x \in DOMAIN store' : store'[x] \in Ids \cup {0}
  BY <1>1 DEF Recorded
<1>3. tmp' \subseteq Given' /\ unlinked' \subseteq Given'
  BY DEF Recorded
<1> QED
  BY <1>2, <1>3 DEF Recorded

\* Every action records files that were given an id, and objects that were given a name.
LEMMA RecordedStep ==
  Shape /\ Held /\ Bounded /\ Reached /\ Recorded /\ [Next]_vars => Recorded'
<1> SUFFICES ASSUME Shape, Held, Bounded, Reached, Recorded, [Next]_vars PROVE Recorded'
  OBVIOUS
<1>0. Given \subseteq Given' /\ edits \in Nat /\ failures \in Nat
  BY LoadedGrows DEF Recorded
<1>1. ASSUME UNCHANGED <<files, operations, snapshots, pooled, store, tmp>>,
             UNCHANGED unlinked, UNCHANGED edits, UNCHANGED failures \/ Fault
      PROVE  Recorded'
  <2>1. edits' \in Nat /\ failures' \in Nat
    BY <1>0, <1>1 DEF Fault
  <2> QED
    BY <1>0, <1>1, <2>1, RecordedFrame
<1>2. ASSUME NEW r \in Requests,
             \/ (\E q \in Paths : CheckPath(r, q)) \/ RequestExport(r)
             \/ (\E f \in Ids, q \in Paths : RequestRename(r, f, q))
             \/ (\E f \in Ids : RequestDelete(r, f)) \/ ExportFile(r) \/ LookUpCached(r)
             \/ ResetPending(r) \/ RemoveCached(r) \/ EvictLock(r) \/ ListSnapshots(r)
      PROVE  Recorded'
  BY <1>2, <1>1
     DEF CheckPath, RequestExport, RequestRename, RequestDelete, ExportFile, LookUpCached,
         ResetPending, RemoveCached, EvictLock, ListSnapshots, db, disk, env
<1>3. ASSUME NEW text \in Ids \cup {0}, NewObject(text),
             UNCHANGED <<files, operations, snapshots, pooled, unlinked, edits, failures>>
      PROVE  Recorded'
  <2>1. nextObject \in Given'
    <3>1. nextObject \in Nat /\ nextObject > 0 /\ nextObject' = nextObject + 1
      BY <1>3 DEF NewObject, Shape, Bounded
    <3> QED
      BY <3>1 DEF Given
  <2>2. Fill(nextObject, text) /\ tmp' = tmp
    BY <1>3 DEF NewObject, FreshName
  <2> QED
    BY <1>0, <1>3, <2>1, <2>2, RecordedFill
<1>4. ASSUME NEW r \in Requests, CreateObject(r) PROVE Recorded'
  <2>1. CASE NewObject(0) /\ UNCHANGED failures
    BY <1>4, <2>1, <1>3 DEF CreateObject, db
  <2>2. CASE Fault /\ UNCHANGED disk
    BY <1>4, <2>2, <1>1 DEF CreateObject, db, disk
  <2> QED
    BY <1>4, <2>1, <2>2 DEF CreateObject
<1>5. ASSUME NEW r \in Requests, InsertFile(r) PROVE Recorded'
  <2>1. UNCHANGED <<operations, snapshots, pooled, store, tmp, unlinked, edits>>
        /\ failures' \in Nat
    BY <1>5, <1>0 DEF InsertFile, disk, Fault
  <2>2. job[r].path \in Paths
    BY <1>5 DEF InsertFile, At, Reached, Asked, Procs
  <2>3. nextId > 0
    BY DEF Bounded
  <2>4. \A n \in files' : n \in files \/ (n.id = nextId /\ n.path = job[r].path)
    BY <1>5 DEF InsertFile, CreateFile
  <2>5. \A n \in files' : n.id > 0 /\ n.path \in Paths
    BY <2>2, <2>3, <2>4 DEF Recorded
  <2> QED
    BY <1>0, <2>1, <2>5 DEF Recorded
<1>6. ASSUME NEW r \in Requests, RenameFile(r) PROVE Recorded'
  <2>1. UNCHANGED <<operations, snapshots, pooled, store, tmp, unlinked, edits, failures>>
    BY <1>6 DEF RenameFile, disk, env
  <2>2. job[r].path \in Paths
    BY <1>6 DEF RenameFile, At, Reached, Asked, Procs
  <2>3. \A n \in files' : \E s \in files : n.id = s.id /\ n.path \in {s.path, job[r].path}
    BY <1>6 DEF RenameFile, UpdateWorkspacePath, Shape, FileRow
  <2>4. \A n \in files' : n.id > 0 /\ n.path \in Paths
    BY <2>2, <2>3 DEF Recorded
  <2> QED
    BY <1>0, <2>1, <2>4 DEF Recorded
<1>7. ASSUME NEW r \in Requests, DeleteObject(r) PROVE Recorded'
  <2>1. UNCHANGED <<files, operations, snapshots, pooled, tmp, edits>> /\ failures' \in Nat
    BY <1>7, <1>0 DEF DeleteObject, db, Fault
  <2>2. ASSUME NEW o \in Given, Unlink(o) PROVE Recorded'
    <3>1. /\ DOMAIN store' \subseteq DOMAIN store
          /\ \A x \in DOMAIN store' : store'[x] = store[x]
          /\ unlinked' = unlinked \cup {o}
      BY <2>2 DEF Unlink
    <3> QED
      BY <1>0, <2>1, <2>2, <3>1 DEF Recorded
  <2>3. CASE UNCHANGED <<store, unlinked>>
    BY <2>1, <2>3, <1>0, RecordedFrame
  <2>4. job[r].object \in Given /\ job[r].todo \subseteq Given
    BY <1>7 DEF DeleteObject, At, Reached, Asked, Deleting, Procs
  <2> QED
    BY <1>7, <2>2, <2>3, <2>4 DEF DeleteObject
<1>8. ASSUME NEW r \in Requests, DeleteRows(r) PROVE Recorded'
  <2>1. UNCHANGED <<operations, pooled, store, tmp, unlinked, edits>> /\ failures' \in Nat
    BY <1>8, <1>0 DEF DeleteRows, disk, Fault
  <2>2. files' \subseteq files /\ snapshots' \subseteq snapshots
    BY <1>8 DEF DeleteRows, DeleteFile, DeleteSnapshotsForFile
  <2> QED
    BY <1>0, <2>1, <2>2 DEF Recorded
<1>9. ASSUME \/ (\E f \in Ids : ReceiveChunk(f)) \/ LoadFile
             \/ (\E f \in Ids : ProcessFile(f)) \/ StartFlush \/ UNCHANGED vars
      PROVE  Recorded'
  BY <1>9, <1>1 DEF ReceiveChunk, LoadFile, ProcessFile, StartFlush, db, disk, env, vars
<1>10. CASE ApplyChunk
  <2> DEFINE f == heap[job[Editor].cell].file
             v == heap[job[Editor].cell].version + 1
  <2>1. f \in Ids /\ v \in Nat
    <3>1. job[Editor].cell \in Copies /\ Editor \in Procs
      BY <1>10 DEF ApplyChunk, At, Held, HeldBy, Procs
    <3>2. job[Editor].cell \in Loaded
      BY <3>1 DEF Reached, Asked
    <3>3. job[Editor].cell # NoCopy
      BY <3>1, CopiesAssumption
    <3> QED
      BY <3>1, <3>2, <3>3 DEF Loaded, Shape, CopyState
  <2>2. UNCHANGED <<snapshots, pooled, store, tmp, unlinked, failures>> /\ edits' \in Nat
    BY <1>10, <1>0 DEF ApplyChunk, disk
  <2>3. operations' \subseteq operations \cup {[file |-> f, version |-> v]}
    BY <1>10 DEF ApplyChunk, CreateOperation
  <2>4. operations' \subseteq [file : Ids, version : Nat]
    BY <2>1, <2>3 DEF Recorded
  <2>5. \A n \in files' : \E s \in files : n.id = s.id /\ n.path = s.path
    <3>1. UpdateFileVersion(f, v) \/ UNCHANGED files
      BY <1>10 DEF ApplyChunk
    <3> QED
      BY <3>1 DEF UpdateFileVersion, Shape, FileRow
  <2> QED
    BY <1>0, <2>2, <2>4, <2>5 DEF Recorded
<1>11. CASE CreateSnapshotObject
  <2>1. job[Ticker].cell \in Copies
    BY <1>11 DEF CreateSnapshotObject, At, Held, HeldBy, Holding, Flushed, Procs
  <2>2. heap[job[Ticker].cell].file \in Ids \cup {0}
    BY <2>1 DEF Shape, CopyState
  <2>3. CASE NewObject(heap[job[Ticker].cell].file) /\ UNCHANGED failures
    BY <1>11, <2>2, <2>3, <1>3 DEF CreateSnapshotObject, db
  <2>4. CASE UNCHANGED disk /\ (Fault \/ UNCHANGED failures)
    BY <1>11, <2>4, <1>1 DEF CreateSnapshotObject, db, disk
  <2> QED
    BY <1>11, <2>3, <2>4 DEF CreateSnapshotObject
<1>12. CASE CreateSnapshotRow
  <2>1. job[Ticker].cell \in Copies /\ Ticker \in Procs
    BY <1>12 DEF CreateSnapshotRow, At, Held, HeldBy, Holding, Flushed, Procs
  <2>2. job[Ticker].cell \in Loaded /\ job[Ticker].cell # NoCopy
    BY <2>1, CopiesAssumption DEF Reached, Asked
  <2>3. heap[job[Ticker].cell].file \in Ids
    BY <2>2 DEF Loaded
  <2>4. \A s \in snapshots' : s \in snapshots \/ s.file = heap[job[Ticker].cell].file
    BY <1>12 DEF CreateSnapshotRow, CreateSnapshot
  <2>5. UNCHANGED <<files, operations, pooled, store, tmp, unlinked, edits>> /\ failures' \in Nat
    BY <1>12, <1>0 DEF CreateSnapshotRow, disk, Fault
  <2> QED
    BY <1>0, <2>3, <2>4, <2>5 DEF Recorded
<1>13. ASSUME NEW p \in Procs, StageObject(p) PROVE Recorded'
  <2>1. UNCHANGED <<files, operations, snapshots, pooled, store, unlinked, edits, failures>>
    BY <1>13 DEF StageObject, db, env
  <2>2. tmp' \subseteq tmp \cup DOMAIN store
    BY <1>13 DEF StageObject
  <2> QED
    BY <1>0, <2>1, <2>2 DEF Recorded
<1>14. ASSUME NEW p \in Procs, RenameObject(p) PROVE Recorded'
  <2>1. UNCHANGED <<files, operations, snapshots, pooled, unlinked, edits, failures>>
    BY <1>14 DEF RenameObject, db, env
  <2>2. CASE UNCHANGED <<store, tmp>>
    BY <2>1, <2>2, <1>1
  <2>3. CASE ~UNCHANGED <<store, tmp>>
    <3>1. /\ heap[Flushed(p)].object \in tmp /\ tmp' \subseteq tmp
          /\ Fill(heap[Flushed(p)].object, heap[Flushed(p)].file)
      BY <1>14, <2>3 DEF RenameObject
    <3>2. Flushed(p) \in Copies
      BY <1>14 DEF RenameObject, At, Held, HeldBy, Holding
    <3>3. heap[Flushed(p)].file \in Ids \cup {0}
      BY <3>2 DEF Shape, CopyState
    <3>4. heap[Flushed(p)].object \in Given'
      BY <3>1, <1>0 DEF Recorded
    <3> QED
      BY <1>0, <2>1, <3>1, <3>3, <3>4, RecordedFill
  <2> QED
    BY <2>2, <2>3
<1>15. ASSUME NEW p \in Procs, FlushDone(p) \/ FlushFails(p) PROVE Recorded'
  BY <1>15, <1>1 DEF FlushDone, FlushFails, db, disk, env
<1>16. CASE PurgeCache
  <2>1. operations' \subseteq operations
    BY <1>16 DEF PurgeCache
  <2>2. UNCHANGED <<files, snapshots, pooled, store, tmp, unlinked, edits, failures>>
    BY <1>16 DEF PurgeCache, disk, env
  <2> QED
    BY <1>0, <2>1, <2>2 DEF Recorded
<1>17. CASE Crash
  BY <1>17, <1>1 DEF Crash, db, disk
<1> QED
  BY <1>2, <1>4, <1>5, <1>6, <1>7, <1>8, <1>9, <1>10, <1>11, <1>12, <1>13, <1>14, <1>15,
     <1>16, <1>17
     DEF Next, RequestStep, EditStep, TickerStep, FlushStep

\* Nobody has asked for anything when the server starts.
LEMMA InitTypes == Init => TypesInv
<1> SUFFICES ASSUME Init PROVE TypesInv
  OBVIOUS
<1>1. PICK q \in Paths : files = {[id |-> 1, path |-> q, object |-> 1, version |-> 0]}
  BY DEF Init
<1>2. Coming(WantObject) = 0 /\ Coming(WantFile) = 0
  <2>1. \A p \in Procs : job[p].pc = "idle"
    BY DEF Init, Idle
  <2>2. \A pcs \in {WantObject, WantFile} : {p \in Procs : job[p].pc \in pcs} = {}
    BY <2>1 DEF WantObject, WantFile
  <2> QED
    BY <2>2, FS_EmptySet DEF Coming
<1>3. Bounded
  BY <1>2, BoundsAssumption DEF Init, Bounded
<1>4. Reached
  BY DEF Init, Reached, Asked, Idle, Deleting, Loaded
<1>5. Recorded
  <2>1. Given = {1}
    BY DEF Init, Given
  <2> QED
    BY <1>1, <2>1 DEF Init, Recorded
<1> QED
  BY <1>3, <1>4, <1>5 DEF TypesInv

\* What was given out is within the bounds, and so are the types.
LEMMA TypesWithin == FilesInv /\ TypesInv => TypeOK
<1> SUFFICES ASSUME FilesInv, TypesInv PROVE TypeOK
  OBVIOUS
<1> USE DEF FilesInv, TypesInv
<1>1. Given \subseteq Objects /\ \A i \in Nat : i > 0 /\ i < nextId => i \in Ids
  <2>1. /\ Coming(WantObject) \in Nat /\ Coming(WantFile) \in Nat
        /\ nextId \in Nat /\ nextObject \in Nat
    BY ComingCount DEF Shape
  <2>2. nextObject - 1 <= MaxObjects /\ nextId - 1 <= MaxFiles
    BY <2>1, BoundsAssumption DEF Bounded
  <2> QED
    BY <2>1, <2>2, BoundsAssumption DEF Given, Objects, Ids
<1>2. files \subseteq [id : Ids, path : Paths, object : Objects, version : Nat]
  <2>1. ASSUME NEW r \in files
        PROVE  r.id \in Ids /\ r.path \in Paths /\ r.object \in Objects
    <3>1. r.object \in Given
      BY NamesOf DEF Named, Given
    <3>2. r.id \in Nat /\ r.id > 0 /\ r.id < nextId /\ r.path \in Paths
      BY DEF Shape, FileRow, Keys, Recorded
    <3> QED
      BY <1>1, <3>1, <3>2
  <2> QED
    BY <2>1 DEF Shape, FileRow
<1>3. snapshots \subseteq [file : Ids, version : Nat, object : Objects]
  <2>1. ASSUME NEW s \in snapshots PROVE s.file \in Ids /\ s.object \in Objects
    <3>1. s.object \in Given
      BY DEF Kept, Made, Recorded
    <3> QED
      BY <1>1, <3>1 DEF Recorded
  <2> QED
    BY <2>1 DEF Shape
<1>4. heap \in [Copies -> [file : Ids \cup {0}, object : Objects \cup {0},
                           version : Nat, pending : BOOLEAN]]
  <2>1. ASSUME NEW x \in Copies PROVE heap[x].object \in Objects \cup {0}
    <3>1. heap[x].object # 0 => heap[x].object \in Given
      BY NamesOf DEF Named, Given
    <3> QED
      BY <1>1, <3>1
  <2> QED
    BY <2>1 DEF Shape, CopyState
<1>5. \A p \in Procs : job[p].pc \in PC /\ job[p].todo \subseteq Objects
  BY <1>1 DEF Shape, JobState, Reached, Asked
<1>6. /\ DOMAIN store \subseteq Objects /\ \A o \in DOMAIN store : store[o] \in Ids \cup {0}
      /\ tmp \subseteq Objects /\ unlinked \subseteq Objects
      /\ operations \subseteq [file : Ids, version : Nat]
      /\ pooled \in BOOLEAN /\ edits \in Nat /\ failures \in Nat
  BY <1>1 DEF Recorded
<1> QED
  BY <1>2, <1>3, <1>4, <1>5, <1>6 DEF TypeOK, Shape

\* The types of the rows, the objects, the copies and the goroutines: no row has an id, no
\* object a name that was not given out.
THEOREM TypesHold == Spec => []TypeOK
<1>1. FilesInv /\ TypesInv /\ [Next]_vars => TypesInv'
  BY BoundedStep, ReachedStep, RecordedStep DEF FilesInv, TypesInv
<1>2. FilesInv /\ TypesInv => TypeOK
  BY TypesWithin
<1> QED
  BY <1>1, <1>2, InitTypes, FilesInvariant, PTL DEF Spec
==============================================================================
