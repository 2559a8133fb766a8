------------------------------- MODULE FileSync -------------------------------
(***************************************************************************)
(* The write path of the server: a chunk message from a client is          *)
(* transformed, recorded in the database, applied to the cached copy and   *)
(* broadcast; cached copies are loaded on a miss, flushed to the object    *)
(* store by the ticker, by evictions and by downloads, and lost in a crash.*)
(*                                                                         *)
(* Every accepted chunk message is known by the version it was given, and  *)
(* a text is the set of the operations it reflects: the complete text at   *)
(* version v is 1..v.  That tells apart the texts the properties are       *)
(* about: complete ones, ones missing an edit, ones ahead of a version.    *)
(***************************************************************************)
EXTENDS Naturals, FiniteSets, Sequences, Snapshots

CONSTANTS Files, Clients, Readers, Ticker, Copies,
          NoProc, NoFile, NoCopy,   \* model values
          CacheSize, MinChangesThreshold,
          WarmCopy,                 \* the copy of each file cached at the start
          Purging,                  \* does purgeCache ever find old operations?
          MaxVersion, MaxFailures, MaxCrashes  \* bounds on the behaviours checked

\* One goroutine per client connection, per download, and the ticker's.
Procs == Clients \cup Readers \cup {Ticker}
Cells == Copies \cup {NoCopy}

ASSUME ProcsAssumption ==
  /\ Clients \cap Readers = {}
  /\ Ticker \notin Clients \cup Readers
  /\ NoProc \notin Procs /\ NoFile \notin Files /\ NoCopy \notin Copies

ASSUME SizesAssumption ==
  /\ CacheSize \in Nat \ {0} /\ MinChangesThreshold \in Nat
  /\ SnapshotCheckpoint \in Nat \ {0} /\ MaxSnapshotDiffChain \in Nat
  /\ MaxVersion \in Nat /\ MaxFailures \in Nat /\ MaxCrashes \in Nat
  /\ Purging \in BOOLEAN

ASSUME WarmAssumption ==
  /\ WarmCopy \in [Files -> Cells]
  /\ \A f, g \in Files : WarmCopy[f] = WarmCopy[g] => f = g \/ WarmCopy[f] = NoCopy

VARIABLES
  rowVersion,  \* files.version
  rowHash,     \* the text files.hash was computed from
  oplog,       \* versions with a row in operations
  snaps,       \* rows of snapshots, oldest first
  disk,        \* the text in the object store
  tmp,         \* the text in the object's ".tmp" sibling, or NoText
  fd,          \* where the file is that a flush has created and not written yet
  heap,        \* LockedCachedFile values: file, version, text, pending changes
  cache,       \* fileCache: the registered copy of each file
  owner,       \* the goroutine that holds each copy's mut
  flight,      \* the loader's call in flight for each file: its leader
  job,         \* what each goroutine is doing
  broadcast,   \* versions handed to broadcastMessage, in order
  reply,       \* the last answer of each download
  failures, crashes

db    == <<rowVersion, rowHash, oplog, snaps>>
store == <<disk, tmp, fd>>
mem   == <<heap, cache, owner, flight>>
env   == <<broadcast, reply, failures, crashes>>
vars  == <<db, store, mem, job, env>>

Complete(v) == 1..v

Copy == [file : Files \cup {NoFile}, version : Nat, text : SUBSET Nat, pending : Nat]
Blank == [file |-> NoFile, version |-> 0, text |-> {}, pending |-> 0]

PC == {"idle", "load", "join", "row", "read", "add", "evict", "done",
       "lock", "persist", "publish", "snapshot",
       "stage", "write", "rename", "hash", "get", "object"}

\* base: the version an incoming message is based on; seen: the version read
\* from the files row; against: the operations the message was transformed
\* against; victim: the copy an Add has evicted.
Idle == [pc |-> "idle", file |-> NoFile, cell |-> NoCopy, victim |-> NoCopy,
         base |-> 0, seen |-> 0, against |-> {}]

Init ==
  /\ rowVersion = [f \in Files |-> 0]
  /\ rowHash    = [f \in Files |-> {}]
  /\ oplog      = [f \in Files |-> {}]
  /\ snaps      = [f \in Files |-> <<>>]
  /\ disk       = [f \in Files |-> {}]
  /\ tmp        = [f \in Files |-> NoText]
  /\ fd         = [p \in Procs |-> "none"]
  /\ heap       = [x \in Copies |->
                     IF \E f \in Files : WarmCopy[f] = x
                       THEN [Blank EXCEPT !.file = CHOOSE f \in Files : WarmCopy[f] = x]
                       ELSE Blank]
  /\ cache      = WarmCopy
  /\ owner      = [x \in Copies |-> NoProc]
  /\ flight     = [f \in Files |-> NoProc]
  /\ job        = [p \in Procs |-> Idle]
  /\ broadcast  = [f \in Files |-> <<>>]
  /\ reply      = [r \in Readers |-> [file |-> NoFile, version |-> 0, text |-> {}]]
  /\ failures   = 0
  /\ crashes    = 0

-------------------------------------------------------------------------------
(* Helpers *)

At(p, pc) == job[p].pc = pc
Goto(p, pc) == job' = [job EXCEPT ![p].pc = pc]
Finish(p) == job' = [job EXCEPT ![p] = Idle]

Free(x) == owner[x] = NoProc
Acquire(x, p) == owner' = [owner EXCEPT ![x] = p]
Release(x) == owner' = [owner EXCEPT ![x] = NoProc]

Fault == failures < MaxFailures /\ failures' = failures + 1

\* Copies nothing points to: the next load may use them.
Unreferenced ==
  {x \in Copies : /\ \A f \in Files : cache[f] # x
                  /\ \A p \in Procs : job[p].cell # x /\ job[p].victim # x}

Joined(f) == {c \in Clients : At(c, "join") /\ job[c].file = f}

\* Bound: edits accepted or under way never exceed MaxVersion.
RoomForEdit(f) ==
  rowVersion[f] + Cardinality({c \in Clients : job[c].file = f}) < MaxVersion

\* The copy a flush is about: the evicted one, or the job's own.
Flushed(p) == IF job[p].victim # NoCopy THEN job[p].victim ELSE job[p].cell

-------------------------------------------------------------------------------
(* onChunkMessage: finding the copy *)

\* A valid message arrives; its base is any version the client has been told,
\* by a broadcast or by the metadata of a download.
ReceiveChunk(c, f) ==
  /\ At(c, "idle") /\ RoomForEdit(f)
  /\ \E v \in 0..rowVersion[f] :
       job' = [job EXCEPT ![c] = [Idle EXCEPT
                 !.pc = IF cache[f] = NoCopy THEN "load" ELSE "lock",
                 !.file = f, !.cell = cache[f], !.base = v]]
  /\ UNCHANGED <<db, store, mem, env>>

\* loader.Do: lead a flight for the file, or wait for the one under way.
LoaderDo(c) ==
  LET f == job[c].file IN
  /\ At(c, "load")
  /\ IF flight[f] = NoProc
       THEN flight' = [flight EXCEPT ![f] = c] /\ Goto(c, "row")
       ELSE Goto(c, "join") /\ UNCHANGED flight
  /\ UNCHANGED <<db, store, heap, cache, owner, env>>

FetchRow(c) ==
  /\ At(c, "row")
  /\ job' = [job EXCEPT ![c].pc = "read", ![c].seen = rowVersion[job[c].file]]
  /\ UNCHANGED <<db, store, mem, env>>

ReadObject(c) ==
  LET f == job[c].file IN
  /\ At(c, "read")
  /\ \E x \in Unreferenced :
       /\ heap' = [heap EXCEPT ![x] = [file |-> f, version |-> job[c].seen,
                                       text |-> disk[f], pending |-> 0]]
       /\ job' = [job EXCEPT ![c].pc = "add", ![c].cell = x]
  /\ UNCHANGED <<db, store, cache, owner, flight, env>>

\* fileCache.Add: an entry of the same key is overwritten without a callback;
\* a full cache drops another entry first and calls back after.
CacheAdd(c) ==
  LET f == job[c].file
      cached == {g \in Files : cache[g] # NoCopy}
  IN
  /\ At(c, "add")
  /\ IF cache[f] # NoCopy \/ Cardinality(cached) < CacheSize
       THEN /\ cache' = [cache EXCEPT ![f] = job[c].cell]
            /\ Goto(c, "done")
       ELSE \E g \in cached :
            /\ cache' = [cache EXCEPT ![f] = job[c].cell, ![g] = NoCopy]
            /\ job' = [job EXCEPT ![c].pc = "evict", ![c].victim = cache[g]]
  /\ UNCHANGED <<db, store, heap, owner, flight, env>>

\* onEvicted takes the victim's mutex and flushes what is pending.
EvictLock(c) ==
  LET x == job[c].victim IN
  /\ At(c, "evict") /\ Free(x)
  /\ IF heap[x].pending = 0
       THEN job' = [job EXCEPT ![c].pc = "done", ![c].victim = NoCopy] /\ UNCHANGED owner
       ELSE Goto(c, "stage") /\ Acquire(x, c)
  /\ UNCHANGED <<db, store, heap, cache, flight, env>>

\* The flight ends: the leader and every joiner go on with the same copy.
LoadDone(c) ==
  LET f == job[c].file IN
  /\ At(c, "done")
  /\ flight' = [flight EXCEPT ![f] = NoProc]
  /\ job' = [p \in Procs |->
               IF p = c \/ p \in Joined(f)
                 THEN [job[p] EXCEPT !.pc = "lock", !.cell = job[c].cell]
                 ELSE job[p]]
  /\ UNCHANGED <<db, store, heap, cache, owner, env>>

\* The query or the read fails: so does everyone who joined.
LoadFails(c) ==
  LET f == job[c].file IN
  /\ (At(c, "row") \/ At(c, "read")) /\ Fault
  /\ flight' = [flight EXCEPT ![f] = NoProc]
  /\ job' = [p \in Procs |-> IF p = c \/ p \in Joined(f) THEN Idle ELSE job[p]]
  /\ UNCHANGED <<db, store, heap, cache, owner, broadcast, reply, crashes>>

-------------------------------------------------------------------------------
(* onChunkMessage: under the copy's mutex *)

\* Mutant: the staleness test is off by one.
ConcurrentIfMuchOlder(c) ==
  LET x == job[c].cell IN
  IF job[c].base + 1 >= heap[x].version THEN {}
  ELSE {v \in oplog[heap[x].file] : v > job[c].base}

\* transformStaleChunks: what the query returns for a message that is behind.
Concurrent(c) ==
  LET x == job[c].cell IN
  IF job[c].base >= heap[x].version THEN {}
  ELSE {v \in oplog[heap[x].file] : v > job[c].base}

\* Mutant: the check for a missing operation is dropped.
ContiguousUnchecked(ops, base) == ops \subseteq Nat /\ base \in Nat

\* The history it returns starts right after the base and has no gap.
Contiguous(ops, base) == \A v \in ops : v = base + 1 \/ v - 1 \in ops

TransformStaleChunks(c) ==
  LET x == job[c].cell
      ops == Concurrent(c)
  IN
  /\ c \in Clients /\ At(c, "lock") /\ Free(x)
  /\ IF Contiguous(ops, job[c].base)
       THEN /\ job' = [job EXCEPT ![c].pc = "persist", ![c].against = ops]
            /\ Acquire(x, c)
       ELSE Finish(c) /\ UNCHANGED owner
  /\ UNCHANGED <<db, store, heap, cache, flight, env>>

\* Mutant: a row of the same version is replaced.
PersistOverwrites(c) ==
  LET x == job[c].cell
      f == heap[x].file
  IN
  /\ At(c, "persist")
  /\ oplog' = [oplog EXCEPT ![f] = @ \cup {heap[x].version + 1}]
  /\ rowVersion' = [rowVersion EXCEPT ![f] = heap[x].version + 1]
  /\ Goto(c, "publish")
  /\ UNCHANGED <<rowHash, snaps, store, mem, env>>

\* One transaction: the operation's row (PRIMARY KEY (file_id, version)) and
\* the file's version.  A conflict rolls back and drops the message.
PersistChunkOperation(c) ==
  LET x == job[c].cell
      f == heap[x].file
      newVersion == heap[x].version + 1
  IN
  /\ At(c, "persist")
  /\ IF newVersion \notin oplog[f]
       THEN /\ oplog' = [oplog EXCEPT ![f] = @ \cup {newVersion}]
            /\ rowVersion' = [rowVersion EXCEPT ![f] = newVersion]
            /\ Goto(c, "publish")
            /\ UNCHANGED owner
       ELSE Finish(c) /\ Release(x) /\ UNCHANGED <<oplog, rowVersion>>
  /\ UNCHANGED <<rowHash, snaps, store, heap, cache, flight, env>>

\* Mutant: the error is not returned.
PersistFailsPublishes(c) ==
  /\ At(c, "persist") /\ Fault
  /\ Goto(c, "publish")
  /\ UNCHANGED <<db, store, mem, broadcast, reply, crashes>>

\* Mutant: the copy is edited before the transaction.
PersistFailsAfterEdit(c) ==
  LET x == job[c].cell IN
  /\ At(c, "persist") /\ Fault
  /\ heap' = [heap EXCEPT ![x].version = @ + 1, ![x].text = @ \cup {heap[x].version + 1}]
  /\ Finish(c) /\ Release(x)
  /\ UNCHANGED <<db, store, cache, flight, broadcast, reply, crashes>>

\* Any other error of the database, the query of transformStaleChunks
\* included: the copy is left as it was.
PersistFails(c) ==
  /\ At(c, "persist") /\ Fault
  /\ Finish(c) /\ Release(job[c].cell)
  /\ UNCHANGED <<db, store, heap, cache, flight, broadcast, reply, crashes>>

\* Mutant: the chunks are applied to the text they were made on.
PublishOverBase(c) ==
  LET x == job[c].cell
      newVersion == heap[x].version + 1
  IN
  /\ At(c, "publish")
  /\ heap' = [heap EXCEPT ![x] = [file |-> heap[x].file, version |-> newVersion,
                                  text |-> Complete(job[c].base) \cup {newVersion},
                                  pending |-> heap[x].pending + 1]]
  /\ broadcast' = [broadcast EXCEPT ![heap[x].file] = Append(@, newVersion)]
  /\ Finish(c) /\ Release(x)
  /\ UNCHANGED <<db, store, cache, flight, reply, failures, crashes>>

\* The copy takes the new text and version and the message goes out, all
\* before the mutex is released.
Publish(c) ==
  LET x == job[c].cell
      newVersion == heap[x].version + 1
  IN
  /\ At(c, "publish")
  /\ heap' = [heap EXCEPT ![x] = [file |-> heap[x].file, version |-> newVersion,
                                  text |-> heap[x].text \cup {newVersion},
                                  pending |-> heap[x].pending + 1]]
  /\ broadcast' = [broadcast EXCEPT ![heap[x].file] = Append(@, newVersion)]
  /\ Finish(c) /\ Release(x)
  /\ UNCHANGED <<db, store, cache, flight, reply, failures, crashes>>

-------------------------------------------------------------------------------
(* processFileChanges: the ticker visits the registered copies *)

ProcessFile(f) ==
  /\ At(Ticker, "idle") /\ cache[f] # NoCopy
  /\ job' = [job EXCEPT ![Ticker] = [Idle EXCEPT !.pc = "lock", !.file = f,
                                                 !.cell = cache[f]]]
  /\ UNCHANGED <<db, store, mem, env>>

\* Nothing pending, or few changes and the last one is recent.
SkipFile ==
  LET x == job[Ticker].cell IN
  /\ At(Ticker, "lock") /\ Free(x)
  /\ heap[x].pending <= MinChangesThreshold
  /\ Finish(Ticker)
  /\ UNCHANGED <<db, store, mem, env>>

\* Mutant: the pending count is reset before the flush.
StartFlushEarlyReset ==
  LET x == job[Ticker].cell IN
  /\ At(Ticker, "lock") /\ Free(x)
  /\ heap[x].pending > 0
  /\ heap' = [heap EXCEPT ![x].pending = 0]
  /\ Goto(Ticker, "snapshot") /\ Acquire(x, Ticker)
  /\ UNCHANGED <<db, store, cache, flight, env>>

StartFlush ==
  LET x == job[Ticker].cell IN
  /\ At(Ticker, "lock") /\ Free(x)
  /\ heap[x].pending > 0
  /\ Goto(Ticker, "snapshot") /\ Acquire(x, Ticker)
  /\ UNCHANGED <<db, store, heap, cache, flight, env>>

\* An error is only logged: the flush goes on.
CreateFileSnapshot ==
  LET x == job[Ticker].cell
      f == heap[x].file
  IN
  /\ At(Ticker, "snapshot")
  /\ \/ /\ snaps' = [snaps EXCEPT ![f] = WithSnapshot(@, heap[x].version, heap[x].text)]
        /\ UNCHANGED failures
     \/ Fault /\ UNCHANGED snaps
  /\ Goto(Ticker, "stage")
  /\ UNCHANGED <<rowVersion, rowHash, oplog, store, mem, broadcast, reply, crashes>>

-------------------------------------------------------------------------------
(* flushFileToStorage, under the copy's mutex: by the ticker, by the leader
   of a load whose Add evicted the copy, or by a download *)

\* os.Create empties the temporary file if another flush is at it.
StageObject(p) ==
  /\ At(p, "stage")
  /\ tmp' = [tmp EXCEPT ![heap[Flushed(p)].file] = {}]
  /\ fd' = [fd EXCEPT ![p] = "tmp"]
  /\ Goto(p, "write")
  /\ UNCHANGED <<db, disk, mem, env>>

\* Two texts written one over the other: the later one, or a mixture, which
\* counts as a text with none of the edits.
Written(old, text) == IF old = {} THEN {text} ELSE {text, {}}

\* io.Copy goes to the file created, wherever it is by now.
CopyContent(p) ==
  LET x == Flushed(p)
      f == heap[x].file
  IN
  /\ At(p, "write")
  /\ \E t \in Written(IF fd[p] = "tmp" THEN tmp[f] ELSE disk[f], heap[x].text) :
       /\ tmp' = IF fd[p] = "tmp" THEN [tmp EXCEPT ![f] = t] ELSE tmp
       /\ disk' = IF fd[p] = "object" THEN [disk EXCEPT ![f] = t] ELSE disk
  /\ fd' = [fd EXCEPT ![p] = "none"]
  /\ Goto(p, "rename")
  /\ UNCHANGED <<db, mem, env>>

\* Where the files created for f are after the temporary one became the object.
AfterRename(f) ==
  [q \in Procs |-> IF fd[q] = "none" \/ heap[Flushed(q)].file # f THEN fd[q]
                   ELSE IF fd[q] = "tmp" THEN "object" ELSE "none"]

RenameObject(p) ==
  LET f == heap[Flushed(p)].file IN
  /\ At(p, "rename") /\ tmp[f] # NoText
  /\ disk' = [disk EXCEPT ![f] = tmp[f]]
  /\ tmp' = [tmp EXCEPT ![f] = NoText]
  /\ fd' = AfterRename(f)
  /\ Goto(p, "hash")
  /\ UNCHANGED <<db, mem, env>>

\* Mutant: the mutex is not released.
AfterFlushKeepsLock(p, ok) ==
  /\ UNCHANGED owner
  /\ IF job[p].victim # NoCopy
       THEN job' = [job EXCEPT ![p].pc = "done", ![p].victim = NoCopy]
       ELSE IF p \in Readers /\ ok THEN Goto(p, "object") ELSE Finish(p)

\* The flush is over: the eviction callback returns to the load whatever
\* happened, a download goes on to read the object, the rest is done.
AfterFlush(p, ok) ==
  /\ Release(Flushed(p))
  /\ IF job[p].victim # NoCopy
       THEN job' = [job EXCEPT ![p].pc = "done", ![p].victim = NoCopy]
       ELSE IF p \in Readers /\ ok THEN Goto(p, "object") ELSE Finish(p)

\* Mutant: the threshold is subtracted instead of resetting the count.
UpdateFileHashSubtracts(p) ==
  LET x == Flushed(p) IN
  /\ At(p, "hash")
  /\ rowHash' = [rowHash EXCEPT ![heap[x].file] = heap[x].text]
  /\ heap' = [heap EXCEPT ![x].pending = @ - (MinChangesThreshold + 1)]
  /\ AfterFlush(p, TRUE)
  /\ UNCHANGED <<rowVersion, oplog, snaps, store, cache, flight, env>>

\* The last step; the pending count is reset, except by an eviction.
UpdateFileHash(p) ==
  LET x == Flushed(p) IN
  /\ At(p, "hash")
  /\ rowHash' = [rowHash EXCEPT ![heap[x].file] = heap[x].text]
  /\ heap' = IF job[p].victim = NoCopy THEN [heap EXCEPT ![x].pending = 0] ELSE heap
  /\ AfterFlush(p, TRUE)
  /\ UNCHANGED <<rowVersion, oplog, snaps, store, cache, flight, env>>

\* io.Copy fails half way: whichever temporary file there is is removed.
CopyFails(p) ==
  LET f == heap[Flushed(p)].file IN
  /\ At(p, "write")
  /\ tmp' = [tmp EXCEPT ![f] = NoText]
  /\ disk' \in {disk, IF fd[p] = "object" THEN [disk EXCEPT ![f] = {}] ELSE disk}
  /\ fd' = [q \in Procs |->
              IF q = p \/ (fd[q] = "tmp" /\ heap[Flushed(q)].file = f) THEN "none"
              ELSE fd[q]]

\* The temporary file cannot be created or written, the rename fails or finds
\* that another flush took or removed it, or the hash is not stored: the
\* pending count stays.
FlushFails(p) ==
  /\ \/ CopyFails(p) /\ Fault
     \/ (At(p, "stage") \/ At(p, "rename") \/ At(p, "hash")) /\ Fault /\ UNCHANGED store
     \/ At(p, "rename") /\ tmp[heap[Flushed(p)].file] = NoText /\ UNCHANGED <<store, failures>>
  /\ AfterFlush(p, FALSE)
  /\ UNCHANGED <<db, heap, cache, flight, broadcast, reply, crashes>>

-------------------------------------------------------------------------------
(* fetchFileHandler: the row, then WriteFileToStorage, then the object *)

RequestFile(r, f) ==
  /\ At(r, "idle")
  /\ job' = [job EXCEPT ![r] = [Idle EXCEPT !.pc = "get", !.file = f,
                                            !.seen = rowVersion[f]]]
  /\ UNCHANGED <<db, store, mem, env>>

LookUpCopy(r) ==
  LET x == cache[job[r].file] IN
  /\ At(r, "get")
  /\ job' = [job EXCEPT ![r].pc = IF x = NoCopy THEN "object" ELSE "lock", ![r].cell = x]
  /\ UNCHANGED <<db, store, mem, env>>

\* Mutant: a few changes are not worth a write.
LockForReadLazy(r) ==
  LET x == job[r].cell IN
  /\ r \in Readers /\ At(r, "lock") /\ Free(x)
  /\ IF heap[x].pending <= MinChangesThreshold
       THEN Goto(r, "object") /\ UNCHANGED owner
       ELSE Goto(r, "stage") /\ Acquire(x, r)
  /\ UNCHANGED <<db, store, heap, cache, flight, env>>

LockForRead(r) ==
  LET x == job[r].cell IN
  /\ r \in Readers /\ At(r, "lock") /\ Free(x)
  /\ IF heap[x].pending = 0
       THEN Goto(r, "object") /\ UNCHANGED owner
       ELSE Goto(r, "stage") /\ Acquire(x, r)
  /\ UNCHANGED <<db, store, heap, cache, flight, env>>

\* The answer: the metadata read first and the object read last.
ReplyFile(r) ==
  LET f == job[r].file IN
  /\ At(r, "object")
  /\ \/ /\ reply' = [reply EXCEPT ![r] = [file |-> f, version |-> job[r].seen,
                                          text |-> disk[f]]]
        /\ UNCHANGED failures
     \/ Fault /\ UNCHANGED reply
  /\ Finish(r)
  /\ UNCHANGED <<db, store, mem, broadcast, crashes>>

-------------------------------------------------------------------------------
(* purgeCache, and the end of the process *)

\* DELETE ... WHERE created_at < ?: a prefix of each file's history goes.
PurgeCache ==
  /\ Purging
  /\ \E last \in [Files -> 0..MaxVersion] :
       oplog' = [f \in Files |-> {v \in oplog[f] : v > last[f]}]
  /\ UNCHANGED <<rowVersion, rowHash, snaps, store, mem, job, env>>

\* Memory is gone, the database and the object store stay.
Crash ==
  /\ crashes < MaxCrashes /\ crashes' = crashes + 1
  /\ heap'   = [x \in Copies |-> Blank]
  /\ cache'  = [f \in Files |-> NoCopy]
  /\ owner'  = [x \in Copies |-> NoProc]
  /\ flight' = [f \in Files |-> NoProc]
  /\ job'    = [p \in Procs |-> Idle]
  /\ fd'     = [p \in Procs |-> "none"]
  /\ UNCHANGED <<db, disk, tmp, broadcast, reply, failures>>

-------------------------------------------------------------------------------
HandlerStep(c) ==
  \/ LoaderDo(c) \/ FetchRow(c) \/ ReadObject(c) \/ CacheAdd(c)
  \/ EvictLock(c) \/ LoadDone(c) \/ LoadFails(c)
  \/ TransformStaleChunks(c) \/ PersistChunkOperation(c) \/ PersistFails(c)
  \/ Publish(c)

FlushStep(p) ==
  StageObject(p) \/ CopyContent(p) \/ RenameObject(p) \/ UpdateFileHash(p) \/ FlushFails(p)

DownloadStep(r) == LookUpCopy(r) \/ LockForRead(r) \/ ReplyFile(r)

TickerStep == SkipFile \/ StartFlush \/ CreateFileSnapshot

Next ==
  \/ \E c \in Clients, f \in Files : ReceiveChunk(c, f)
  \/ \E c \in Clients : HandlerStep(c)
  \/ \E f \in Files : ProcessFile(f)
  \/ TickerStep
  \/ \E p \in Procs : FlushStep(p)
  \/ \E r \in Readers, f \in Files : RequestFile(r, f)
  \/ \E r \in Readers : DownloadStep(r)
  \/ PurgeCache
  \/ Crash

Spec == Init /\ [][Next]_vars

\* Go schedules every goroutine that can run, and hands a contended mutex to
\* a waiter that has starved for a millisecond: taking a mutex is strongly
\* fair.  The ticker fires again and again and visits every registered file;
\* a file with changes is due as soon as it rests for flushInterval.
\* Nothing makes clients edit, downloads start, faults or crashes happen.
Fairness ==
  /\ \A c \in Clients : WF_vars(HandlerStep(c)) /\ SF_vars(EvictLock(c))
                        /\ SF_vars(TransformStaleChunks(c))
  /\ \A p \in Procs : WF_vars(FlushStep(p))
  /\ \A r \in Readers : WF_vars(DownloadStep(r)) /\ SF_vars(LockForRead(r))
  /\ WF_vars(TickerStep) /\ SF_vars(StartFlush)
  /\ \A f \in Files : SF_vars(ProcessFile(f))

FairSpec == Spec /\ Fairness

-------------------------------------------------------------------------------
(* Properties *)

JobRecord == [pc : PC, file : Files \cup {NoFile}, cell : Cells, victim : Cells,
              base : Nat, seen : Nat, against : SUBSET Nat]

SnapshotRow == [version : Nat, kind : {"file", "diff"}, from : SUBSET Nat,
                to : SUBSET Nat]

\* The shapes of the variables.
TypeOK ==
  /\ rowVersion \in [Files -> Nat]
  /\ rowHash \in [Files -> SUBSET Nat]
  /\ oplog \in [Files -> SUBSET Nat]
  /\ snaps \in [Files -> Seq(SnapshotRow)]
  /\ disk \in [Files -> SUBSET Nat]
  /\ tmp \in [Files -> SUBSET Nat]
  /\ fd \in [Procs -> {"none", "tmp", "object"}]
  /\ heap \in [Copies -> Copy]
  /\ cache \in [Files -> Cells]
  /\ owner \in [Copies -> Procs \cup {NoProc}]
  /\ flight \in [Files -> Clients \cup {NoProc}]
  /\ job \in [Procs -> JobRecord]
  /\ broadcast \in [Files -> Seq(Nat)]
  /\ reply \in [Readers -> [file : Files \cup {NoFile}, version : Nat, text : SUBSET Nat]]
  /\ failures \in Nat /\ crashes \in Nat

(* Hold however copies are loaded, evicted, orphaned or lost. *)

\* The database is ahead of everything else: no copy, stored object, snapshot
\* or broadcast reflects an operation that is not committed, so a restart
\* never forgets a version some client has seen.
NothingAheadOfDatabase ==
  /\ \A x \in Copies : heap[x].file \in Files =>
       /\ heap[x].version <= rowVersion[heap[x].file]
       /\ heap[x].text \subseteq Complete(rowVersion[heap[x].file])
  /\ \A f \in Files :
       /\ disk[f] \subseteq Complete(rowVersion[f])
       /\ \A i \in DOMAIN broadcast[f] : broadcast[f][i] \in Complete(rowVersion[f])
       /\ \A i \in DOMAIN snaps[f] : snaps[f][i].to \subseteq Complete(rowVersion[f])

\* Whatever stale copy a handler writes from, the version in the database
\* only ever steps to the next one: the primary key of operations stops a
\* second copy that is behind.
VersionsStepByOne ==
  [][\A f \in Files : rowVersion'[f] \in {rowVersion[f], rowVersion[f] + 1}]_vars

\* Without purges every version up to the file's has its operation: a client
\* that asks for the operations after its version misses none.
HistoryComplete == \A f \in Files : oplog[f] = Complete(rowVersion[f])

\* Two handlers never publish the same version of a file, even from two
\* copies of it.
NoVersionTwice ==
  \A f \in Files : \A i, j \in DOMAIN broadcast[f] :
    broadcast[f][i] = broadcast[f][j] => i = j

\* A message that is about to be applied has been transformed against every
\* operation between its base and the version it is given, and no other.
TransformedAgainstAll ==
  \A c \in Clients : At(c, "publish") =>
    job[c].against = {v \in Complete(heap[job[c].cell].version) : v > job[c].base}

\* Every snapshot rebuilds to the text it was taken of, however full and diff
\* snapshots alternate and whichever of them could not be stored.
SnapshotsReconstruct ==
  \A f \in Files : \A i \in DOMAIN snaps[f] :
    ReconstructSnapshot(snaps[f], snaps[f][i].version) = snaps[f][i].to

(* Hold while the file stays cached in one copy. *)

\* The text a message is applied to is the current state of the document.
AppliedToCurrentText ==
  \A c \in Clients : At(c, "publish") =>
    LET x == job[c].cell IN
    /\ heap[x].text = Complete(heap[x].version)
    /\ rowVersion[heap[x].file] = heap[x].version + 1

\* A history that purgeCache has cut is used whole or not at all: a message
\* never goes out transformed against some of the operations it missed.
HistoryWholeOrNone ==
  \A c \in Clients : At(c, "publish") =>
    job[c].against \in
      {{}, {v \in Complete(heap[job[c].cell].version) : v > job[c].base}}

\* Messages go out in the order of their versions, none left out.
BroadcastInOrder ==
  \A f \in Files : \A i \in DOMAIN broadcast[f] : broadcast[f][i] = i

\* A copy with nothing pending is what the object store and the hash hold.
CleanMeansStored ==
  \A f \in Files : cache[f] # NoCopy =>
    LET x == cache[f] IN
    Free(x) /\ heap[x].pending = 0 => disk[f] = heap[x].text /\ rowHash[f] = disk[f]

\* The stored object never loses an edit it had.
StoreKeepsEdits == [][\A f \in Files : disk[f] \subseteq disk'[f]]_vars

\* A download returns the whole text of a version, at least as new as the one
\* it is labelled with, although the row is read before the flush.
DownloadCoversVersion ==
  \A r \in Readers : reply[r].file # NoFile =>
    \E v \in reply[r].version..rowVersion[reply[r].file] : reply[r].text = Complete(v)

\* Every edit sent out to the clients is on disk in the end, and stays there.
StoredForGood ==
  \A f \in Files : \A v \in 1..MaxVersion :
    (Len(broadcast[f]) >= v) ~> [](v \in disk[f])

\* Every goroutine that took up a message, a download or a file finishes:
\* no lock is kept and nobody waits for ever.
EveryJobEnds == \A p \in Procs : (~At(p, "idle")) ~> At(p, "idle")

\* While every file stays cached in its one copy the server is the
\* authoritative document of its clients.
Doc == INSTANCE AuthoritativeDoc
         WITH Documents <- Files,
              accepted  <- rowVersion,
              published <- [f \in Files |-> Len(broadcast[f])],
              stored    <- disk

ImplementsDoc == Doc!Spec

\* Its steps alone, whatever is fair: no edit is accepted before the last one
\* went out, and the store moves only to what went out.
StepsOfDoc == Doc!Init /\ [][Doc!Next]_(Doc!vars)
==============================================================================
