---------------------------- MODULE FileLifecycle ----------------------------
(***************************************************************************)
(* Files come, move and go.  HTTP requests create, rename, delete and      *)
(* export the files of a workspace, each in several steps of database,     *)
(* cache and object store, while a client edits them and the ticker takes  *)
(* snapshots of the edited copies and flushes them.                        *)
(*                                                                         *)
(* The three tables are sets of rows under their keys.  An object is known *)
(* by its name, which is fresh, and holds the text of a file or what was   *)
(* uploaded.  What becomes of the single edits is FileSync's matter: here  *)
(* an edit is one step, and a copy has changes that are not stored or not. *)
(***************************************************************************)
EXTENDS Naturals, FiniteSets

CONSTANTS Requests, Editor, Ticker,   \* goroutines
          Copies, NoCopy, NoProc,
          Paths, NoPath,
          MaxFiles, MaxObjects, MaxEdits, MaxFailures  \* bounds

Procs == Requests \cup {Editor, Ticker}
Ids == 1..MaxFiles
Objects == 1..MaxObjects
Cells == Copies \cup {NoCopy}

ASSUME ProcsAssumption ==
  /\ Editor # Ticker /\ {Editor, Ticker} \cap Requests = {} /\ NoProc \notin Procs
  /\ IsFiniteSet(Requests)
ASSUME CopiesAssumption == NoCopy \notin Copies /\ NoPath \notin Paths
ASSUME BoundsAssumption ==
  /\ MaxFiles \in Nat \ {0} /\ MaxObjects \in Nat \ {0} /\ MaxEdits \in Nat
  /\ MaxFailures \in Nat

VARIABLES
  files,       \* rows of files
  nextId,      \* the id the next row gets: AUTOINCREMENT
  operations,  \* keys of the rows of operations
  snapshots,   \* rows of snapshots
  pooled,      \* may a transaction use a connection without foreign keys?
  store,       \* the file whose text each object holds, 0 for an upload
  tmp,         \* objects with a ".tmp" sibling
  nextObject,  \* the next fresh name
  heap, cache, owner,  \* the LockedCachedFile values, fileCache, their mut
  job,         \* what each goroutine is doing
  unlinked,    \* objects a delete has come to
  edits, failures

db   == <<files, nextId, operations, snapshots, pooled>>
disk == <<store, tmp, nextObject>>
mem  == <<heap, cache, owner>>
env  == <<unlinked, edits, failures>>
vars == <<db, disk, mem, job, env>>

Blank == [file |-> 0, object |-> 0, version |-> 0, pending |-> FALSE]

PC == {"idle", "object", "insert", "update", "export",
       "get", "reset", "remove", "evict", "list", "unlink", "rows",
       "add", "apply", "lock", "snapshot", "record", "stage", "rename", "hash"}

\* object: the name read from a row, or created; todo: names still to visit.
Idle == [pc |-> "idle", file |-> 0, version |-> 0, path |-> NoPath,
         object |-> 0, cell |-> NoCopy, victim |-> NoCopy, todo |-> {}]

\* The server starts on a workspace with one file.
Init ==
  /\ \E p \in Paths : files = {[id |-> 1, path |-> p, object |-> 1, version |-> 0]}
  /\ nextId = 2 /\ operations = {} /\ snapshots = {} /\ pooled \in BOOLEAN
  /\ store = [o \in {1} |-> 0] /\ tmp = {} /\ nextObject = 2
  /\ heap  = [x \in Copies |-> Blank]
  /\ cache = [f \in Ids |-> NoCopy]
  /\ owner = [x \in Copies |-> NoProc]
  /\ job   = [p \in Procs |-> Idle]
  /\ unlinked = {} /\ edits = 0 /\ failures = 0

-------------------------------------------------------------------------------
(* The queries and the keys they run into *)

Exists(f) == \E r \in files : r.id = f
FetchFile(f) == CHOOSE r \in files : r.id = f
FetchFileFromWorkspacePath(p) == {r \in files : r.path = p}
FetchSnapshots(f) == {s \in snapshots : s.file = f}

\* PRAGMA foreign_keys is set on one connection: when there are more of them a
\* statement may or may not be checked.
Unchecked == pooled

\* Mutant: the key of the first migration, which is on disk_path.
PathFreeForObject(f, p) ==
  \A r \in files : r.id # f /\ r.path = p =>
    \A own \in files : own.id = f => own.object # r.object

\* UNIQUE (workspace_id, workspace_path).
PathFree(f, p) == \A r \in files : r.id # f => r.path # p

CreateFile(p, o) ==
  /\ files' = files \cup {[id |-> nextId, path |-> p, object |-> o, version |-> 0]}
  /\ nextId' = nextId + 1

UpdateWorkspacePath(f, p) ==
  files' = {IF r.id = f THEN [r EXCEPT !.path = p] ELSE r : r \in files}

UpdateFileVersion(f, v) ==
  files' = {IF r.id = f THEN [r EXCEPT !.version = v] ELSE r : r \in files}

DeleteFile(f) == files' = {r \in files : r.id # f}

CreateOperation(f, v) == operations' = operations \cup {[file |-> f, version |-> v]}

CreateSnapshot(f, v, o) ==
  snapshots' = snapshots \cup {[file |-> f, version |-> v, object |-> o]}

DeleteSnapshotsForFile(f) == snapshots' = snapshots \ FetchSnapshots(f)

\* Mutant: the tables refer to files without a foreign key.
DeletableAlways(f) == f \in Ids

\* FOREIGN KEY (file_id) of operations; the snapshots go in the same transaction.
Deletable(f) == \A o \in operations : o.file # f

\* PRIMARY KEY (file_id, version), FOREIGN KEY (file_id).
Insertable(f, v, rows) == \A r \in rows : r.file # f \/ r.version # v

-------------------------------------------------------------------------------
(* Helpers *)

At(p, pc) == job[p].pc = pc
Goto(p, pc) == job' = [job EXCEPT ![p].pc = pc]
Finish(p) == job' = [job EXCEPT ![p] = Idle]

Free(x) == owner[x] = NoProc
Acquire(x, p) == owner' = [owner EXCEPT ![x] = p]
Release(x) == owner' = [owner EXCEPT ![x] = NoProc]

\* Bound: steps that fail, the end of the process included.
Fault == failures < MaxFailures /\ failures' = failures + 1

Unreferenced ==
  {x \in Copies : /\ \A f \in Ids : cache[f] # x
                  /\ \A p \in Procs : job[p].cell # x /\ job[p].victim # x}

\* Bound: whoever is on the way to an object, or to a row, gets one.
Coming(pcs) == Cardinality({p \in Procs : job[p].pc \in pcs})
RoomForObject == nextObject + Coming({"object", "snapshot"}) <= MaxObjects
RoomForFile == nextId + Coming({"object", "insert"}) <= MaxFiles

\* Mutant: the first name no object has.
FirstFree == CHOOSE o \in 1..nextObject :
               o \notin DOMAIN store /\ \A x \in 1..(o - 1) : x \in DOMAIN store

\* A random UUID nothing ever had.
FreshName == nextObject

\* An object holds a text from now on, whether it did before or not.
Fill(o, text) ==
  store' = [x \in DOMAIN store \cup {o} |-> IF x = o THEN text ELSE store[x]]

NewObject(text) ==
  /\ Fill(FreshName, text)
  /\ nextObject' = nextObject + 1
  /\ UNCHANGED tmp

-------------------------------------------------------------------------------
(* createFileHandler *)

\* The path is not taken yet; 409 if it is.
CheckPath(r, p) ==
  /\ At(r, "idle") /\ RoomForObject /\ RoomForFile
  /\ FetchFileFromWorkspacePath(p) = {}
  /\ job' = [job EXCEPT ![r] = [Idle EXCEPT !.pc = "object", !.path = p]]
  /\ UNCHANGED <<db, disk, mem, env>>

\* Mutant: the error is not returned, and the name is empty.
CreateObjectGoesOn(r) ==
  /\ At(r, "object")
  /\ \/ /\ NewObject(0)
        /\ job' = [job EXCEPT ![r].pc = "insert", ![r].object = FreshName]
        /\ UNCHANGED failures
     \/ Fault /\ Goto(r, "insert") /\ UNCHANGED disk
  /\ UNCHANGED <<db, mem, unlinked, edits>>

CreateObject(r) ==
  /\ At(r, "object")
  /\ \/ /\ NewObject(0)
        /\ job' = [job EXCEPT ![r].pc = "insert", ![r].object = FreshName]
        /\ UNCHANGED failures
     \/ Fault /\ Finish(r) /\ UNCHANGED disk
  /\ UNCHANGED <<db, mem, unlinked, edits>>

\* A path that was taken meanwhile is an error; the object stays behind.
InsertFile(r) ==
  /\ At(r, "insert")
  /\ \/ /\ PathFree(nextId, job[r].path)
        /\ CreateFile(job[r].path, job[r].object)
        /\ UNCHANGED failures
     \/ ~PathFree(nextId, job[r].path) /\ UNCHANGED <<files, nextId, failures>>
     \/ Fault /\ UNCHANGED <<files, nextId>>
  /\ Finish(r)
  /\ UNCHANGED <<operations, snapshots, pooled, disk, mem, unlinked, edits>>

-------------------------------------------------------------------------------
(* updateFileHandler and exportHandler *)

RequestRename(r, f, p) ==
  /\ At(r, "idle") /\ Exists(f) /\ FetchFile(f).path # p
  /\ job' = [job EXCEPT ![r] = [Idle EXCEPT !.pc = "update", !.file = f, !.path = p]]
  /\ UNCHANGED <<db, disk, mem, env>>

\* A row that is gone is not updated; the cached copy keeps its old path.
RenameFile(r) ==
  /\ At(r, "update")
  /\ IF PathFree(job[r].file, job[r].path)
       THEN UpdateWorkspacePath(job[r].file, job[r].path)
       ELSE UNCHANGED files
  /\ Finish(r)
  /\ UNCHANGED <<nextId, operations, snapshots, pooled, disk, mem, env>>

\* The list of the files first, their objects one after the other.
RequestExport(r) ==
  /\ At(r, "idle") /\ files # {}
  /\ job' = [job EXCEPT ![r] = [Idle EXCEPT !.pc = "export",
                                            !.todo = {f.object : f \in files}]]
  /\ UNCHANGED <<db, disk, mem, env>>

\* An object that cannot be read cuts the archive short.
ExportFile(r) ==
  /\ At(r, "export")
  /\ \E o \in job[r].todo :
       IF o \in DOMAIN store /\ job[r].todo # {o}
         THEN job' = [job EXCEPT ![r].todo = @ \ {o}] ELSE Finish(r)
  /\ UNCHANGED <<db, disk, mem, env>>

-------------------------------------------------------------------------------
(* deleteFileHandler *)

RequestDelete(r, f) ==
  /\ At(r, "idle") /\ Exists(f)
  /\ job' = [job EXCEPT ![r] = [Idle EXCEPT !.pc = "get", !.file = f,
                                            !.object = FetchFile(f).object]]
  /\ UNCHANGED <<db, disk, mem, env>>

LookUpCached(r) ==
  LET x == cache[job[r].file] IN
  /\ At(r, "get")
  /\ job' = [job EXCEPT ![r].pc = IF x = NoCopy THEN "list" ELSE "reset", ![r].cell = x]
  /\ UNCHANGED <<db, disk, mem, env>>

\* Mutant: the mutex is held on by a deferred unlock.
ResetPendingKeepsLock(r) ==
  LET x == job[r].cell IN
  /\ At(r, "reset") /\ Free(x)
  /\ heap' = [heap EXCEPT ![x].pending = FALSE]
  /\ Acquire(x, r)
  /\ Goto(r, "remove")
  /\ UNCHANGED <<db, disk, cache, env>>

\* What is not stored yet is given up.
ResetPending(r) ==
  LET x == job[r].cell IN
  /\ At(r, "reset") /\ Free(x)
  /\ heap' = [heap EXCEPT ![x].pending = FALSE]
  /\ Goto(r, "remove")
  /\ UNCHANGED <<db, disk, cache, owner, env>>

\* fileCache.Remove calls back for the copy that is registered by now.
RemoveCached(r) ==
  LET f == job[r].file IN
  /\ At(r, "remove")
  /\ cache' = [cache EXCEPT ![f] = NoCopy]
  /\ job' = [job EXCEPT ![r].pc = IF cache[f] = NoCopy THEN "list" ELSE "evict",
                        ![r].cell = NoCopy, ![r].victim = cache[f]]
  /\ UNCHANGED <<db, disk, heap, owner, env>>

\* onEvicted: an edit may have come in between.
EvictLock(r) ==
  LET x == job[r].victim IN
  /\ At(r, "evict") /\ Free(x)
  /\ IF heap[x].pending
       THEN Goto(r, "stage") /\ Acquire(x, r)
       ELSE job' = [job EXCEPT ![r].pc = "list", ![r].victim = NoCopy] /\ UNCHANGED owner
  /\ UNCHANGED <<db, disk, heap, cache, env>>

ListSnapshots(r) ==
  /\ At(r, "list")
  /\ \/ /\ job' = [job EXCEPT ![r].pc = "unlink",
                     ![r].todo = {s.object : s \in FetchSnapshots(job[r].file)}]
        /\ UNCHANGED failures
     \/ Fault /\ Finish(r)
  /\ UNCHANGED <<db, disk, mem, unlinked, edits>>

Unlink(o) ==
  /\ store' = [x \in DOMAIN store \ {o} |-> store[x]]
  /\ unlinked' = unlinked \cup {o}

\* The objects of the snapshots go one by one, the file's goes last; one that
\* is gone already is no error.
DeleteObject(r) ==
  LET todo == job[r].todo IN
  /\ At(r, "unlink")
  /\ \/ /\ todo # {}
        /\ \E o \in todo : Unlink(o) /\ job' = [job EXCEPT ![r].todo = @ \ {o}]
        /\ UNCHANGED failures
     \/ /\ todo = {} /\ Unlink(job[r].object) /\ Goto(r, "rows")
        /\ UNCHANGED failures
     \/ Fault /\ Finish(r) /\ UNCHANGED <<store, unlinked>>
  /\ UNCHANGED <<db, tmp, nextObject, mem, edits>>

\* One transaction.  Operations that still refer to the file make it fail, and
\* the objects are gone all the same.
DeleteRows(r) ==
  LET f == job[r].file IN
  /\ At(r, "rows")
  /\ \/ /\ Deletable(f) \/ Unchecked
        /\ DeleteSnapshotsForFile(f) /\ DeleteFile(f)
        /\ UNCHANGED failures
     \/ ~Deletable(f) /\ UNCHANGED <<files, snapshots, failures>>
     \/ Fault /\ UNCHANGED <<files, snapshots>>
  /\ Finish(r)
  /\ UNCHANGED <<nextId, operations, pooled, disk, mem, unlinked, edits>>

-------------------------------------------------------------------------------
(* A chunk message: the copy is found or loaded, then edited under its mutex *)

ReceiveChunk(f) ==
  /\ At(Editor, "idle") /\ edits < MaxEdits /\ f < nextId
  /\ IF cache[f] # NoCopy
       THEN job' = [job EXCEPT ![Editor] = [Idle EXCEPT !.pc = "apply", !.cell = cache[f]]]
       ELSE /\ Exists(f)
            /\ job' = [job EXCEPT ![Editor] = [Idle EXCEPT
                         !.pc = "add", !.file = f, !.object = FetchFile(f).object,
                         !.version = FetchFile(f).version]]
  /\ UNCHANGED <<db, disk, mem, env>>

\* The row was read before: the file may be gone by now.  Bound: a copy is left.
LoadFile ==
  LET j == job[Editor] IN
  /\ At(Editor, "add") /\ Unreferenced # {}
  /\ IF j.object \in DOMAIN store
       THEN LET x == CHOOSE y \in Unreferenced : TRUE IN
            /\ heap' = [heap EXCEPT ![x] = [file |-> j.file, object |-> j.object,
                                            version |-> j.version, pending |-> FALSE]]
            /\ cache' = [cache EXCEPT ![j.file] = x]
            /\ job' = [job EXCEPT ![Editor].pc = "apply", ![Editor].cell = x]
       ELSE Finish(Editor) /\ UNCHANGED <<heap, cache>>
  /\ UNCHANGED <<db, disk, owner, env>>

\* persistChunkOperation and what follows it: the message is recorded and
\* applied, or dropped because the file or its version is not free for it.
ApplyChunk ==
  LET x == job[Editor].cell
      f == heap[x].file
      v == heap[x].version + 1
  IN
  /\ At(Editor, "apply") /\ Free(x)
  /\ \/ /\ Insertable(f, v, operations) /\ (Exists(f) \/ Unchecked)
        /\ CreateOperation(f, v) /\ UpdateFileVersion(f, v)
        /\ heap' = [heap EXCEPT ![x].version = v, ![x].pending = TRUE]
        /\ edits' = edits + 1
     \/ /\ ~Insertable(f, v, operations) \/ ~Exists(f)
        /\ UNCHANGED <<files, operations, heap, edits>>
  /\ Finish(Editor)
  /\ UNCHANGED <<nextId, snapshots, pooled, disk, cache, owner, unlinked, failures>>

-------------------------------------------------------------------------------
(* The ticker: a snapshot, then the flush, under the copy's mutex *)

ProcessFile(f) ==
  /\ At(Ticker, "idle") /\ cache[f] # NoCopy
  /\ job' = [job EXCEPT ![Ticker] = [Idle EXCEPT !.pc = "lock", !.cell = cache[f]]]
  /\ UNCHANGED <<db, disk, mem, env>>

\* Due or not: FileSync has the conditions.
StartFlush ==
  LET x == job[Ticker].cell IN
  /\ At(Ticker, "lock") /\ Free(x)
  /\ \/ heap[x].pending /\ RoomForObject /\ Goto(Ticker, "snapshot") /\ Acquire(x, Ticker)
     \/ Finish(Ticker) /\ UNCHANGED owner
  /\ UNCHANGED <<db, disk, heap, cache, env>>

\* The object of a full or diff snapshot; a diff needs the objects of the
\* snapshots it builds on, and any call may fail: the error is logged and the
\* flush goes on.
CreateSnapshotObject ==
  LET x == job[Ticker].cell
      gone == {s \in FetchSnapshots(heap[x].file) : s.object \notin DOMAIN store}
  IN
  /\ At(Ticker, "snapshot")
  /\ \/ /\ NewObject(heap[x].file)
        /\ job' = [job EXCEPT ![Ticker].pc = "record", ![Ticker].object = FreshName]
        /\ UNCHANGED failures
     \/ gone # {} /\ Goto(Ticker, "stage") /\ UNCHANGED <<disk, failures>>
     \/ Fault /\ Goto(Ticker, "stage") /\ UNCHANGED disk
  /\ UNCHANGED <<db, mem, unlinked, edits>>

\* An object whose row cannot be stored stays behind.
CreateSnapshotRow ==
  LET x == job[Ticker].cell
      f == heap[x].file
  IN
  /\ At(Ticker, "record")
  /\ \/ /\ Insertable(f, heap[x].version, snapshots) /\ (Exists(f) \/ Unchecked)
        /\ CreateSnapshot(f, heap[x].version, job[Ticker].object)
        /\ UNCHANGED failures
     \/ /\ ~Insertable(f, heap[x].version, snapshots) \/ ~Exists(f)
        /\ UNCHANGED <<snapshots, failures>>
     \/ Fault /\ UNCHANGED snapshots
  /\ Goto(Ticker, "stage")
  /\ UNCHANGED <<files, nextId, operations, pooled, disk, mem, unlinked, edits>>

\* The copy a flush is about: the one a delete has evicted, or the ticker's.
Flushed(p) == IF job[p].victim # NoCopy THEN job[p].victim ELSE job[p].cell

AfterFlush(p) ==
  /\ Release(Flushed(p))
  /\ IF p = Ticker THEN Finish(p)
                   ELSE job' = [job EXCEPT ![p].pc = "list", ![p].victim = NoCopy]

\* Mutant: the object makes room for the new one first.
StageInPlace(p) ==
  LET o == heap[Flushed(p)].object IN
  /\ At(p, "stage")
  /\ IF o \in DOMAIN store
       THEN tmp' = tmp \cup {o} /\ Goto(p, "rename") /\ UNCHANGED owner
            /\ store' = [x \in DOMAIN store \ {o} |-> store[x]]
       ELSE AfterFlush(p) /\ UNCHANGED <<tmp, store>>
  /\ UNCHANGED <<db, nextObject, heap, cache, env>>

\* An object that is gone is not written again.
StageObject(p) ==
  LET o == heap[Flushed(p)].object IN
  /\ At(p, "stage")
  /\ IF o \in DOMAIN store
       THEN tmp' = tmp \cup {o} /\ Goto(p, "rename") /\ UNCHANGED owner
       ELSE AfterFlush(p) /\ UNCHANGED tmp
  /\ UNCHANGED <<db, store, nextObject, heap, cache, env>>

\* One that goes between the two steps is back now.
RenameObject(p) ==
  LET x == Flushed(p)
      o == heap[x].object
  IN
  /\ At(p, "rename")
  /\ IF o \in tmp
       THEN /\ Fill(o, heap[x].file)
            /\ tmp' = tmp \ {o}
            /\ Goto(p, "hash") /\ UNCHANGED owner
       ELSE AfterFlush(p) /\ UNCHANGED <<store, tmp>>
  /\ UNCHANGED <<db, nextObject, heap, cache, env>>

\* UpdateFileHash, of a row that may be gone.
FlushDone(p) ==
  /\ At(p, "hash")
  /\ heap' = IF p = Ticker THEN [heap EXCEPT ![job[p].cell].pending = FALSE] ELSE heap
  /\ AfterFlush(p)
  /\ UNCHANGED <<db, disk, cache, env>>

FlushFails(p) ==
  /\ job[p].pc \in {"stage", "rename", "hash"} /\ Fault
  /\ AfterFlush(p)
  /\ UNCHANGED <<db, disk, heap, cache, unlinked, edits>>

-------------------------------------------------------------------------------
\* DELETE ... WHERE created_at < ?: the oldest rows of one file after the other.
PurgeCache ==
  /\ \E last \in operations :
       operations' = {o \in operations : o.file = last.file => o.version > last.version}
  /\ UNCHANGED <<files, nextId, snapshots, pooled, disk, mem, job, env>>

Crash ==
  /\ Fault
  /\ heap'  = [x \in Copies |-> Blank]
  /\ cache' = [f \in Ids |-> NoCopy]
  /\ owner' = [x \in Copies |-> NoProc]
  /\ job'   = [p \in Procs |-> Idle]
  /\ UNCHANGED <<db, disk, unlinked, edits>>

-------------------------------------------------------------------------------
RequestStep(r) ==
  \/ CreateObject(r) \/ InsertFile(r) \/ RenameFile(r) \/ ExportFile(r)
  \/ LookUpCached(r) \/ ResetPending(r) \/ RemoveCached(r) \/ EvictLock(r)
  \/ ListSnapshots(r) \/ DeleteObject(r) \/ DeleteRows(r)

EditStep == LoadFile \/ ApplyChunk

TickerStep == StartFlush \/ CreateSnapshotObject \/ CreateSnapshotRow

FlushStep(p) == StageObject(p) \/ RenameObject(p) \/ FlushDone(p) \/ FlushFails(p)

Next ==
  \/ \E r \in Requests :
       \/ \E p \in Paths : CheckPath(r, p)
       \/ \E f \in Ids, p \in Paths : RequestRename(r, f, p)
       \/ RequestExport(r)
       \/ \E f \in Ids : RequestDelete(r, f)
       \/ RequestStep(r)
  \/ \E f \in Ids : ReceiveChunk(f)
  \/ EditStep
  \/ \E f \in Ids : ProcessFile(f)
  \/ TickerStep
  \/ \E p \in Procs : FlushStep(p)
  \/ PurgeCache
  \/ Crash

Spec == Init /\ [][Next]_vars

-------------------------------------------------------------------------------
(* Properties *)

\* The shapes of the variables.
TypeOK ==
  /\ files \subseteq [id : Ids, path : Paths, object : Objects, version : Nat]
  /\ nextId \in Nat /\ pooled \in BOOLEAN
  /\ operations \subseteq [file : Ids, version : Nat]
  /\ snapshots \subseteq [file : Ids, version : Nat, object : Objects]
  /\ DOMAIN store \subseteq Objects /\ \A o \in DOMAIN store : store[o] \in Ids \cup {0}
  /\ tmp \subseteq Objects /\ nextObject \in Nat
  /\ heap \in [Copies -> [file : Ids \cup {0}, object : Objects \cup {0},
                          version : Nat, pending : BOOLEAN]]
  /\ cache \in [Ids -> Cells] /\ owner \in [Copies -> Procs \cup {NoProc}]
  /\ \A p \in Procs : job[p].pc \in PC /\ job[p].todo \subseteq Objects
  /\ unlinked \subseteq Objects
  /\ edits \in Nat /\ failures \in Nat

\* No path names two files, however creates and renames race for it between
\* their checks and their writes.
OnePathOneFile == \A r, s \in files : r.path = s.path => r = s

\* What somebody was promised is there: the object of every file, of every
\* snapshot and of the list an export has read exists, through creates, flushes,
\* failures and crashes, unless a delete has come to it.
NothingDangles ==
  LET promised == {r.object : r \in files} \cup {s.object : s \in snapshots}
                  \cup UNION {job[r].todo : r \in {q \in Requests : At(q, "export")}}
  IN promised \subseteq DOMAIN store \cup unlinked

\* The object of a file holds its own text, uploaded or flushed: what a copy
\* of a deleted file still flushes never ends up in a file that took its path.
OwnText == \A r \in files : r.object \in DOMAIN store => store[r.object] \in {0, r.id}

\* With one connection nothing is recorded of a file that is gone: edits that
\* come through a copy somebody still holds are dropped, and so are snapshots.
NothingRefersToDeleted ==
  ~pooled => /\ \A o \in operations : Exists(o.file)
             /\ \A s \in snapshots : Exists(s.file)

\* Nobody waits while holding a copy's mutex, for another one or for the same:
\* the callback of a delete that has locked the copy finds it free, or held by
\* someone who goes on.
HoldersGoOn ==
  \A x \in Copies : owner[x] # NoProc =>
    /\ job[owner[x]].pc \in {"snapshot", "record", "stage", "rename", "hash"}
    /\ x = Flushed(owner[x])
==============================================================================
