---------------------------- MODULE OneCopyProofs ----------------------------
(***************************************************************************)
(* Theorems of FileSync and Shutdown about files that stay in the one copy *)
(* they are cached in, for every set of files, clients and downloads,      *)
(* whatever is purged and fails, up to the end of the server.              *)
(***************************************************************************)
EXTENDS OneCopyInvariant, FileSyncProofs, FiniteSetTheorems

-------------------------------------------------------------------------------
(* Texts, copies and mutexes *)

\* The whole texts are ordered by their versions.
LEMMA CompleteOrder ==
  ASSUME NEW a \in Nat, NEW b \in Nat
  PROVE  /\ a <= b <=> Complete(a) \subseteq Complete(b)
         /\ Complete(a) = Complete(b) => a = b
         /\ Complete(a) \cup {a + 1} = Complete(a + 1)
         /\ Complete(a) # NoText
         /\ Complete(a) \in SUBSET Nat
<1>1. a <= b => Complete(a) \subseteq Complete(b)
  BY DEF Complete
<1>2. Complete(a) \subseteq Complete(b) => a <= b
  <2>1. CASE a = 0
    BY <2>1
  <2>2. CASE a # 0
    BY <2>2 DEF Complete
  <2> QED BY <2>1, <2>2
<1>3. Complete(a) = Complete(b) => b <= a
  <2>1. CASE b = 0
    BY <2>1
  <2>2. CASE b # 0
    BY <2>2 DEF Complete
  <2> QED BY <2>1, <2>2
<1>4. Complete(a) \cup {a + 1} = Complete(a + 1)
  BY DEF Complete
<1>5. Complete(a) # NoText
  BY DEF Complete, NoText
<1>6. Complete(a) \in SUBSET Nat
  BY DEF Complete
<1> QED BY <1>1, <1>2, <1>3, <1>4, <1>5, <1>6

\* Each file has a copy of its own.
LEMMA CopyOf ==
  ASSUME Warm, TypeOK, NEW f \in Files
  PROVE  /\ WarmCopy[f] \in Copies
         /\ Cached(f) = heap[WarmCopy[f]] /\ Cached(f) \in Copy
         /\ Cached(f).version \in Nat /\ Cached(f).pending \in Nat
         /\ rowVersion[f] \in Nat
         /\ \A g \in Files : WarmCopy[f] = WarmCopy[g] => f = g
<1>1. WarmCopy[f] \in Copies
  BY DEF Warm
<1>2. Cached(f) \in Copy
  BY <1>1 DEF TypeOK, Cached
<1>3. \A g \in Files : WarmCopy[f] = WarmCopy[g] => f = g
  BY <1>1, WarmAssumption, ProcsAssumption
<1> QED BY <1>1, <1>2, <1>3 DEF TypeOK, Cached, Copy

\* A goroutine that has its copy.
LEMMA Works ==
  ASSUME Warm, TypeOK, StandsInv, NEW p \in Procs, job[p].pc \notin {"idle", "get"}
  PROVE  /\ job[p].file \in Files
         /\ job[p].cell = WarmCopy[job[p].file] /\ job[p].cell \in Copies
         /\ heap[job[p].cell].file = job[p].file
         /\ heap[job[p].cell] = Cached(job[p].file)
         /\ job[p].victim = NoCopy /\ Flushed(p) = job[p].cell
<1>1. StandsAt(p)
  BY DEF StandsInv
<1>2. job[p].file \in Files
  BY <1>1 DEF StandsAt
<1>3. job[p].cell = WarmCopy[job[p].file] /\ job[p].victim = NoCopy
  BY <1>1 DEF StandsAt
<1>4. Cached(job[p].file).file = job[p].file
  BY <1>2 DEF StandsInv
<1> QED BY <1>2, <1>3, <1>4, CopyOf DEF Cached, Flushed

\* A critical section of a file is one goroutine's, and nobody enters it
\* while the mutex is free.
LEMMA OneHolder ==
  ASSUME StandsInv, NEW p \in Procs, NEW q \in Procs,
         job[p].pc \in Locked, job[q].pc \in Locked, job[p].file = job[q].file
  PROVE  p = q
<1>1. StandsAt(p) /\ StandsAt(q)
  BY DEF StandsInv
<1> QED BY <1>1 DEF StandsAt, Locked

LEMMA FreeOfHolders ==
  ASSUME StandsInv, NEW f \in Files, Free(WarmCopy[f])
  PROVE  /\ \A p \in Procs : job[p].pc \in Locked => job[p].file # f
         /\ ~Publishing(f)
<1>1. ASSUME NEW p \in Procs, job[p].pc \in Locked PROVE job[p].file # f
  <2>1. StandsAt(p)
    BY DEF StandsInv
  <2> QED BY <1>1, <2>1, ProcsAssumption DEF StandsAt, Locked, Free
<1>2. ~Publishing(f)
  BY <1>1, ProcType DEF Publishing, At, Locked
<1> QED BY <1>1, <1>2

\* What FileSyncInvariant asks of mutexes and copies holds here.
LEMMA StandsMutex ==
  ASSUME Warm, TypeOK, StandsInv
  PROVE  MutexInv /\ CopyInv
<1>1. MutexInv
  <2> SUFFICES ASSUME NEW p \in Procs, job[p].pc \in Locked
               PROVE  Flushed(p) \in Copies /\ owner[Flushed(p)] = p
    BY DEF MutexInv
  <2>1. StandsAt(p) /\ job[p].pc \notin {"idle", "get"}
    BY DEF StandsInv, Locked
  <2> QED BY <2>1, Works DEF StandsAt
<1>2. ASSUME NEW f \in Files PROVE cache[f] \in Copies => heap[cache[f]].file = f
  BY <1>2 DEF StandsInv, Cached
<1>3. ASSUME NEW p \in Procs
      PROVE  /\ job[p].pc # "idle" => job[p].file \in Files
             /\ job[p].pc \in WithCell => job[p].cell \in Copies
             /\ job[p].pc # "evict" /\ job[p].victim \notin Copies
             /\ job[p].cell \in Copies => heap[job[p].cell].file = job[p].file
  <2>1. StandsAt(p) /\ NoCopy \notin Copies
    BY ProcsAssumption DEF StandsInv
  <2>2. CASE job[p].pc \in {"idle", "get"}
    BY <2>1, <2>2 DEF StandsAt, WithCell
  <2>3. CASE job[p].pc \notin {"idle", "get"}
    <3>1. job[p].pc # "evict"
      BY <2>1 DEF StandsAt, Procs, Flushing
    <3> QED BY <2>1, <2>3, <3>1, Works
  <2> QED BY <2>2, <2>3
<1>4. CopyInv
  BY <1>2, <1>3 DEF CopyInv
<1> QED BY <1>1, <1>4

-------------------------------------------------------------------------------
(* The steps that are left, and the goroutine that takes them *)

HandlerMoves(c) ==
  \/ \E f \in Files : ReceiveChunk(c, f)
  \/ TransformStaleChunks(c) \/ PersistChunkOperation(c) \/ PersistFails(c)
  \/ PersistCancelled(c) \/ Publish(c)

TickerMoves ==
  \/ \E f \in Files : ProcessFile(f)
  \/ SkipFile \/ StartFlush \/ CreateFileSnapshot \/ SnapshotCancelled

FlushMoves(p) == FlushStep(p) \/ HashCancelled(p)

DownloadMoves(r) == (\E f \in Files : RequestFile(r, f)) \/ DownloadStep(r)

LEMMA Moves ==
  ASSUME Warm, TypeOK, StandsInv, [NextAll]_all
  PROVE  \/ UNCHANGED vars
         \/ \E c \in Clients : HandlerMoves(c)
         \/ TickerMoves
         \/ \E p \in Procs : FlushMoves(p)
         \/ \E r \in Readers : DownloadMoves(r)
         \/ PurgeCache
         \/ Exit
<1>1. ASSUME NEW c \in Clients
      PROVE  job[c].pc \notin {"load", "row", "read", "add", "evict", "done"}
  <2>1. StandsAt(c)
    BY ProcType DEF StandsInv
  <2> QED BY <2>1 DEF StandsAt
<1>2. ASSUME NEW c \in Clients, HandlerStep(c) PROVE HandlerMoves(c)
  BY <1>1, <1>2
  DEF HandlerStep, HandlerMoves, At, LoaderDo, FetchRow, ReadObject, CacheAdd, EvictLock,
      LoadDone, LoadFails
<1>3. ASSUME NEW c \in Clients PROVE ~LoadCancelled(c)
  BY <1>1 DEF LoadCancelled, At
<1>4. Crash => crashes' # crashes
  BY DEF Crash, TypeOK
<1>5. CASE Beside(Serve)
  <2>1. ~Crash
    BY <1>4, <1>5 DEF Beside, Serve
  <2>2. Next
    BY <1>5 DEF Beside, Serve
  <2> QED BY <1>2, <2>1, <2>2
      DEF Next, HandlerMoves, TickerMoves, TickerStep, FlushMoves, DownloadMoves
<1>6. CASE Beside(GoOn)
  <2>1. ASSUME NEW c \in Clients,
               \/ LoaderDo(c) \/ ReadObject(c) \/ CacheAdd(c) \/ EvictLock(c) \/ LoadDone(c)
               \/ TransformStaleChunks(c) \/ Publish(c)
        PROVE  HandlerMoves(c)
    BY <1>2, <2>1 DEF HandlerStep
  <2> QED BY <1>6, <2>1
      DEF Beside, GoOn, TickerMoves, FlushMoves, FlushStep, DownloadMoves
<1>7. CASE Beside(Fail)
  BY <1>3, <1>7 DEF Beside, Fail, HandlerMoves, TickerMoves, FlushMoves
<1>8. CASE Signal \/ Cancel \/ LastPass \/ Gone \/ UNCHANGED all
  BY <1>8 DEF Signal, Cancel, LastPass, Gone, all
<1>9. CASE \E f \in Files : VisitLast(f)
  BY <1>9 DEF VisitLast, TickerMoves
<1> QED BY <1>5, <1>6, <1>7, <1>8, <1>9 DEF NextAll, Close

\* What one goroutine does to the others: nothing but take a mutex that is free
\* or give back its own.
Alone(p) ==
  /\ \A q \in Procs \ {p} : job'[q] = job[q]
  /\ \A x \in Copies : owner[x] \notin {p, NoProc} => owner'[x] = owner[x]

\* A goroutine that has ended.
LEMMA Rests ==
  ASSUME NEW p \in Procs, job'[p] = Idle
  PROVE  StandsAt(p)' /\ JobInv(p)'
<1>1. job'[p].pc = "idle" /\ job'[p].cell = NoCopy /\ job'[p].victim = NoCopy
  BY DEF Idle
<1>2. StandsAt(p)'
  BY <1>1 DEF StandsAt, Locked, Flushing
<1>3. JobInv(p)'
  BY <1>1 DEF JobInv, Flushing
<1> QED BY <1>2, <1>3

\* A goroutine that goes on with its copy.
LEMMA GoesOn ==
  ASSUME NEW p \in Procs, StandsAt(p), job[p].pc \notin {"idle", "get"}, NEW s,
         p \in Clients => s \in {"lock", "persist", "publish"},
         p = Ticker => s \in {"lock", "snapshot"} \cup Flushing,
         p \in Readers => s \in {"lock", "object"} \cup Flushing,
         s \in Locked => owner'[job[p].cell] = p,
         job'[p].pc = s, job'[p].file = job[p].file,
         job'[p].cell = job[p].cell, job'[p].victim = job[p].victim
  PROVE  StandsAt(p)'
<1>1. s \notin {"idle", "get"}
  BY DEF Flushing, Procs
<1> QED BY <1>1 DEF StandsAt

\* What a change of the program counter leaves as it was.
LEMMA GotoKeeps ==
  ASSUME NEW r \in JobRecord, NEW s
  PROVE  LET n == [r EXCEPT !.pc = s] IN
         /\ n.pc = s /\ n.file = r.file /\ n.cell = r.cell /\ n.victim = r.victim
         /\ n.base = r.base /\ n.seen = r.seen /\ n.against = r.against
BY DEF JobRecord

\* The end of a history without a gap after b is all that follows b.
LEMMA WholeOrNone ==
  ASSUME NEW k \in Nat, NEW v \in Nat, NEW b \in Nat,
         Contiguous({w \in (k + 1)..v : w > b}, b)
  PROVE  {w \in (k + 1)..v : w > b} \in {{}, {w \in Complete(v) : w > b}}
<1> DEFINE ops == {w \in (k + 1)..v : w > b}
<1>1. CASE k <= b
  BY <1>1 DEF Complete
<1>2. CASE k > b
  <2>1. ASSUME k + 1 <= v PROVE FALSE
    <3>1. k + 1 \in ops /\ k \notin ops
      BY <1>2, <2>1
    <3>2. k + 1 = b + 1 \/ (k + 1) - 1 \in ops
      BY <3>1 DEF Contiguous
    <3>3. (k + 1) - 1 = k
      OBVIOUS
    <3> QED BY <1>2, <3>1, <3>2, <3>3
  <2>2. ops = {}
    BY <2>1
  <2> QED BY <2>2
<1> QED BY <1>1, <1>2

-------------------------------------------------------------------------------
(* Handlers *)

\* What a message is transformed against once its handler has the mutex.
LEMMA AgainstWhole ==
  ASSUME Warm, TypeOK, StandsInv, VersionInv, NEW c \in Clients,
         job[c].pc = "lock", Free(job[c].cell), Contiguous(Concurrent(c), job[c].base)
  PROVE  Concurrent(c) \in
           {{}, {w \in Complete(Cached(job[c].file).version) : w > job[c].base}}
<1> DEFINE f == job[c].file
           v == Cached(f).version
<1>1. /\ c \in Procs /\ f \in Files /\ job[c].cell = WarmCopy[f]
      /\ heap[job[c].cell] = Cached(f) /\ heap[job[c].cell].file = f
  BY ProcType, Works
<1>2. v \in Nat /\ job[c].base \in Nat
  BY <1>1, CopyOf DEF TypeOK, JobRecord
<1>3. rowVersion[f] = v
  BY <1>1, FreeOfHolders DEF VersionInv
<1>4. PICK k \in 0..v : oplog[f] = (k + 1)..v
  BY <1>1, <1>3 DEF VersionInv
<1>5. CASE job[c].base >= v
  BY <1>1, <1>5 DEF Concurrent
<1>6. CASE ~(job[c].base >= v)
  <2>1. Concurrent(c) = {w \in (k + 1)..v : w > job[c].base}
    BY <1>1, <1>4, <1>6 DEF Concurrent
  <2>2. k \in Nat
    BY <1>2, <1>4
  <2>3. Contiguous({w \in (k + 1)..v : w > job[c].base}, job[c].base)
    BY <2>1
  <2> HIDE DEF v
  <2>4. {w \in (k + 1)..v : w > job[c].base} \in {{}, {w \in Complete(v) : w > job[c].base}}
    BY <1>2, <2>2, <2>3, WholeOrNone
  <2> QED BY <2>1, <2>4 DEF v
<1> QED BY <1>5, <1>6

LEMMA HandlerActs ==
  ASSUME Warm, TypeOK, StandsInv, VersionInv, JobsInv,
         NEW c \in Clients, HandlerMoves(c)
  PROVE  Alone(c) /\ StandsAt(c)' /\ JobInv(c)'
<1>a. /\ c \in Procs /\ StandsAt(c) /\ JobInv(c)
      /\ job \in [Procs -> JobRecord] /\ job[c] \in JobRecord
      /\ owner \in [Copies -> Procs \cup {NoProc}]
  BY ProcType DEF TypeOK, StandsInv, JobsInv
<1>b. c # Ticker /\ c \notin Readers /\ NoProc \notin Procs
  BY ProcsAssumption
<1>c. job[c].pc \notin {"idle", "get"} =>
        /\ job[c].file \in Files /\ job[c].cell \in Copies
        /\ heap[job[c].cell] = Cached(job[c].file) /\ heap[job[c].cell].file = job[c].file
  BY <1>a, Works
<1>d. job[c].pc \in Locked => owner[job[c].cell] = c
  BY <1>a DEF StandsAt
<1>1. ASSUME NEW f \in Files, ReceiveChunk(c, f)
      PROVE  Alone(c) /\ StandsAt(c)' /\ JobInv(c)'
  <2>1. cache[f] # NoCopy /\ cache[f] = WarmCopy[f]
    BY CopyOf, ProcsAssumption DEF StandsInv
  <2>2. PICK v \in 0..rowVersion[f] :
          job' = [job EXCEPT ![c] = [Idle EXCEPT !.pc = "lock", !.file = f,
                                                 !.cell = WarmCopy[f], !.base = v]]
    BY <1>1, <2>1 DEF ReceiveChunk
  <2>3. /\ job'[c].pc = "lock" /\ job'[c].file = f /\ job'[c].cell = WarmCopy[f]
        /\ job'[c].victim = NoCopy /\ job'[c].seen = 0
    BY <1>a, <2>2 DEF Idle
  <2>4. Alone(c)
    BY <1>1, <1>a, <2>2 DEF Alone, ReceiveChunk, mem
  <2>5. StandsAt(c)'
    BY <1>b, <2>3 DEF StandsAt, Locked
  <2>6. rowVersion'[f] \in Nat
    BY <1>1, CopyOf DEF ReceiveChunk, db
  <2>7. JobInv(c)'
    BY <2>3, <2>6 DEF JobInv, Flushing
  <2> QED BY <2>4, <2>5, <2>7
<1>2. CASE TransformStaleChunks(c)
  <2>1. job[c].pc = "lock" /\ Free(job[c].cell) /\ heap' = heap
    BY <1>2 DEF TransformStaleChunks, At
  <2>2. CASE Contiguous(Concurrent(c), job[c].base)
    <3>1. /\ job'[c] = [job[c] EXCEPT !.pc = "persist", !.against = Concurrent(c)]
          /\ \A q \in Procs \ {c} : job'[q] = job[q]
      BY <1>2, <1>a, <2>2 DEF TransformStaleChunks
    <3>2. owner' = [owner EXCEPT ![job[c].cell] = c]
      BY <1>2, <2>2 DEF TransformStaleChunks, Acquire
    <3>3. Alone(c)
      BY <1>a, <2>1, <3>1, <3>2 DEF Alone, Free
    <3>4. owner'[job[c].cell] = c
      BY <1>a, <1>c, <2>1, <3>2
    <3>5. /\ job'[c].pc = "persist" /\ job'[c].file = job[c].file
          /\ job'[c].cell = job[c].cell /\ job'[c].victim = job[c].victim
          /\ job'[c].base = job[c].base /\ job'[c].against = Concurrent(c)
      BY <1>a, <3>1 DEF JobRecord
    <3>8. StandsAt(c)'
      BY <1>a, <1>b, <2>1, <3>4, <3>5, GoesOn
    <3>6. job'[c].against \in
            {{}, {w \in Complete(Cached(job[c].file).version) : w > job[c].base}}
      BY <2>1, <2>2, <3>5, AgainstWhole
    <3>7. JobInv(c)'
      BY <2>1, <3>5, <3>6 DEF JobInv, Cached, Flushing
    <3> QED BY <3>3, <3>7, <3>8
  <2>3. CASE ~Contiguous(Concurrent(c), job[c].base)
    <3>1. job' = [job EXCEPT ![c] = Idle] /\ owner' = owner
      BY <1>2, <2>3 DEF TransformStaleChunks, Finish
    <3>2. job'[c] = Idle /\ Alone(c)
      BY <1>a, <3>1 DEF Alone
    <3> QED BY <1>a, <3>2, Rests
  <2> QED BY <2>2, <2>3
<1>3. CASE PersistChunkOperation(c)
  <2>1. job[c].pc = "persist" /\ heap' = heap
    BY <1>3 DEF PersistChunkOperation, At
  <2>2. CASE job' = [job EXCEPT ![c].pc = "publish"] /\ owner' = owner
    <3>1. /\ job'[c] = [job[c] EXCEPT !.pc = "publish"]
          /\ Alone(c)
      BY <1>a, <2>2 DEF Alone
    <3>2. owner'[job[c].cell] = c
      BY <1>d, <2>1, <2>2 DEF Locked
    <3>3. /\ job'[c].pc = "publish" /\ job'[c].file = job[c].file
          /\ job'[c].cell = job[c].cell /\ job'[c].victim = job[c].victim
          /\ job'[c].base = job[c].base /\ job'[c].against = job[c].against
      BY <1>a, <3>1, GotoKeeps
    <3>4. StandsAt(c)'
      BY <1>a, <1>b, <2>1, <3>2, <3>3, GoesOn
    <3>5. JobInv(c)'
      BY <1>a, <2>1, <3>3 DEF JobInv, Cached, Flushing
    <3> QED BY <3>1, <3>4, <3>5
  <2>3. CASE job' = [job EXCEPT ![c] = Idle]
             /\ owner' = [owner EXCEPT ![job[c].cell] = NoProc]
    <3>1. job'[c] = Idle /\ Alone(c)
      BY <1>a, <1>d, <2>1, <2>3 DEF Alone, Locked
    <3> QED BY <1>a, <3>1, Rests
  <2> QED BY <1>3, <2>2, <2>3 DEF PersistChunkOperation, Goto, Finish, Release
<1>4. CASE PersistFails(c) \/ PersistCancelled(c) \/ Publish(c)
  <2>1. /\ job[c].pc \in {"persist", "publish"}
        /\ job' = [job EXCEPT ![c] = Idle]
        /\ owner' = [owner EXCEPT ![job[c].cell] = NoProc]
    BY <1>4 DEF PersistFails, PersistCancelled, Publish, At, Finish, Release
  <2>2. job'[c] = Idle /\ Alone(c)
    BY <1>a, <1>d, <2>1 DEF Alone, Locked
  <2> QED BY <1>a, <2>2, Rests
<1> QED BY <1>1, <1>2, <1>3, <1>4 DEF HandlerMoves

-------------------------------------------------------------------------------
(* The ticker, the flushes and the downloads *)

\* Who finds the mutex free finds the copy up to date.
LEMMA UpToDate ==
  ASSUME Warm, TypeOK, StandsInv, VersionInv, NEW p \in Procs,
         job[p].pc = "lock", Free(job[p].cell)
  PROVE  rowVersion[job[p].file] = Cached(job[p].file).version
<1>1. job[p].file \in Files /\ job[p].cell = WarmCopy[job[p].file]
  BY Works
<1>2. ~Publishing(job[p].file)
  BY <1>1, FreeOfHolders
<1> QED BY <1>1, <1>2 DEF VersionInv

\* A job that ends, and one that gives back its mutex when it ends.
LEMMA Ends ==
  ASSUME TypeOK, NEW p \in Procs, job' = [job EXCEPT ![p] = Idle],
         \/ owner' = owner
         \/ /\ owner' = [owner EXCEPT ![job[p].cell] = NoProc]
            /\ owner[job[p].cell] = p
  PROVE  Alone(p) /\ StandsAt(p)' /\ JobInv(p)' /\ job'[p] = Idle
<1>1. job'[p] = Idle /\ Alone(p)
  BY DEF TypeOK, Alone
<1> QED BY <1>1, Rests

LEMMA TickerActs ==
  ASSUME Warm, TypeOK, StandsInv, VersionInv, JobsInv, TickerMoves
  PROVE  Alone(Ticker) /\ StandsAt(Ticker)' /\ JobInv(Ticker)'
<1>a. /\ Ticker \in Procs /\ StandsAt(Ticker) /\ JobInv(Ticker)
      /\ job \in [Procs -> JobRecord] /\ job[Ticker] \in JobRecord
      /\ owner \in [Copies -> Procs \cup {NoProc}]
  BY ProcType DEF TypeOK, StandsInv, JobsInv
<1>b. Ticker \notin Clients /\ Ticker \notin Readers /\ NoProc \notin Procs
  BY ProcsAssumption
<1>c. job[Ticker].pc \notin {"idle", "get"} =>
        /\ job[Ticker].file \in Files /\ job[Ticker].cell \in Copies
        /\ heap[job[Ticker].cell] = Cached(job[Ticker].file)
  BY <1>a, Works
<1>1. ASSUME NEW f \in Files, ProcessFile(f)
      PROVE  Alone(Ticker) /\ StandsAt(Ticker)' /\ JobInv(Ticker)'
  <2>1. cache[f] = WarmCopy[f]
    BY DEF StandsInv
  <2>2. job' = [job EXCEPT ![Ticker] = [Idle EXCEPT !.pc = "lock", !.file = f,
                                                    !.cell = WarmCopy[f]]]
    BY <1>1, <2>1 DEF ProcessFile
  <2>3. /\ job'[Ticker].pc = "lock" /\ job'[Ticker].file = f
        /\ job'[Ticker].cell = WarmCopy[f]
        /\ job'[Ticker].victim = NoCopy /\ job'[Ticker].seen = 0
    BY <1>a, <2>2 DEF Idle
  <2>4. Alone(Ticker)
    BY <1>1, <1>a, <2>2 DEF Alone, ProcessFile, mem
  <2>5. StandsAt(Ticker)'
    BY <1>b, <2>3 DEF StandsAt, Locked
  <2>6. rowVersion'[f] \in Nat
    BY <1>1, CopyOf DEF ProcessFile, db
  <2>7. JobInv(Ticker)'
    BY <2>3, <2>6 DEF JobInv, Flushing
  <2> QED BY <2>4, <2>5, <2>7
<1>2. CASE SkipFile
  <2>1. job' = [job EXCEPT ![Ticker] = Idle] /\ owner' = owner
    BY <1>2 DEF SkipFile, Finish, mem
  <2> QED BY <1>a, <2>1, Ends
<1>3. CASE StartFlush
  <2>1. /\ job[Ticker].pc = "lock" /\ Free(job[Ticker].cell) /\ heap' = heap
        /\ job' = [job EXCEPT ![Ticker].pc = "snapshot"]
        /\ owner' = [owner EXCEPT ![job[Ticker].cell] = Ticker]
    BY <1>3 DEF StartFlush, At, Goto, Acquire
  <2>2. job'[Ticker] = [job[Ticker] EXCEPT !.pc = "snapshot"] /\ Alone(Ticker)
    BY <1>a, <2>1 DEF Alone, Free
  <2>3. owner'[job[Ticker].cell] = Ticker
    BY <1>a, <1>c, <2>1
  <2>4. /\ job'[Ticker].pc = "snapshot" /\ job'[Ticker].file = job[Ticker].file
        /\ job'[Ticker].cell = job[Ticker].cell
        /\ job'[Ticker].victim = job[Ticker].victim
        /\ job'[Ticker].seen = job[Ticker].seen
    BY <1>a, <2>2, GotoKeeps
  <2>5. StandsAt(Ticker)'
    BY <1>a, <1>b, <2>1, <2>3, <2>4, GoesOn
  <2>6. job[Ticker].seen <= Cached(job[Ticker].file).version
    BY <1>a, <2>1, UpToDate DEF JobInv
  <2>7. JobInv(Ticker)'
    BY <2>1, <2>4, <2>6 DEF JobInv, Cached, Flushing
  <2> QED BY <2>2, <2>5, <2>7
<1>4. CASE CreateFileSnapshot \/ SnapshotCancelled
  <2>1. /\ job[Ticker].pc = "snapshot" /\ heap' = heap /\ owner' = owner
        /\ job' = [job EXCEPT ![Ticker].pc = "stage"]
    BY <1>4 DEF CreateFileSnapshot, SnapshotCancelled, At, Goto, mem
  <2>2. job'[Ticker] = [job[Ticker] EXCEPT !.pc = "stage"] /\ Alone(Ticker)
    BY <1>a, <2>1 DEF Alone
  <2>3. owner'[job[Ticker].cell] = Ticker
    BY <1>a, <2>1 DEF StandsAt, Locked
  <2>4. /\ job'[Ticker].pc = "stage" /\ job'[Ticker].file = job[Ticker].file
        /\ job'[Ticker].cell = job[Ticker].cell
        /\ job'[Ticker].victim = job[Ticker].victim
        /\ job'[Ticker].seen = job[Ticker].seen
    BY <1>a, <2>2, GotoKeeps
  <2>5. StandsAt(Ticker)'
    BY <1>a, <1>b, <2>1, <2>3, <2>4, GoesOn DEF Flushing
  <2>6. JobInv(Ticker)'
    BY <1>a, <2>1, <2>4 DEF JobInv, Cached, Flushing
  <2> QED BY <2>2, <2>5, <2>6
<1> QED BY <1>1, <1>2, <1>3, <1>4 DEF TickerMoves

\* A flush is the ticker's or a download's.
LEMMA FlushingIs ==
  ASSUME Warm, TypeOK, StandsInv, NEW p \in Procs, FlushMoves(p)
  PROVE  /\ job[p].pc \in Flushing /\ p \notin Clients /\ p \in Readers \cup {Ticker}
         /\ job[p].file \in Files /\ job[p].cell \in Copies
         /\ job[p].cell = WarmCopy[job[p].file]
         /\ heap[job[p].cell] = Cached(job[p].file)
         /\ heap[job[p].cell].file = job[p].file
         /\ job[p].victim = NoCopy /\ Flushed(p) = job[p].cell
         /\ owner[job[p].cell] = p
<1>1. job[p].pc \in Flushing
  BY DEF FlushMoves, FlushStep, StageObject, CopyContent, RenameObject, UpdateFileHash,
         FlushFails, CopyFails, HashCancelled, Flushing, At
<1>2. StandsAt(p) /\ job[p].pc \notin {"idle", "get"}
  BY <1>1 DEF StandsInv, Flushing
<1>3. p \notin Clients /\ p \in Readers \cup {Ticker}
  BY <1>1, <1>2 DEF StandsAt, Flushing, Procs
<1>4. owner[job[p].cell] = p
  BY <1>1, <1>2 DEF StandsAt, Flushing, Locked
<1> QED BY <1>1, <1>2, <1>3, <1>4, Works

LEMMA FlushActs ==
  ASSUME Warm, TypeOK, StandsInv, VersionInv, JobsInv, NEW p \in Procs, FlushMoves(p)
  PROVE  Alone(p) /\ StandsAt(p)' /\ JobInv(p)'
<1> DEFINE f == job[p].file
           v == Cached(f).version
<1>a. /\ StandsAt(p) /\ JobInv(p)
      /\ job \in [Procs -> JobRecord] /\ job[p] \in JobRecord
      /\ owner \in [Copies -> Procs \cup {NoProc}]
      /\ tmp \in [Files -> SUBSET Nat] /\ disk \in [Files -> SUBSET Nat]
      /\ fd \in [Procs -> {"none", "tmp", "object"}]
      /\ heap \in [Copies -> Copy]
  BY DEF TypeOK, StandsInv, JobsInv
<1>b. NoProc \notin Procs /\ p \in Readers \cup {Ticker} /\ p \notin Clients
  BY FlushingIs, ProcsAssumption
<1>c. /\ job[p].pc \in Flushing /\ f \in Files /\ job[p].cell \in Copies
      /\ job[p].cell = WarmCopy[f]
      /\ heap[job[p].cell] = Cached(f) /\ heap[job[p].cell].file = f
      /\ job[p].victim = NoCopy /\ Flushed(p) = job[p].cell
      /\ owner[job[p].cell] = p
  BY FlushingIs
<1>d. Cached(f).text = Complete(v) /\ v \in Nat
  BY <1>c, CopyOf DEF VersionInv
<1>e. job[p].seen <= v
  BY <1>a, <1>c DEF JobInv
<1>1. CASE StageObject(p)
  <2>1. /\ job[p].pc = "stage" /\ owner' = owner /\ heap' = heap
        /\ tmp' = [tmp EXCEPT ![f] = {}] /\ fd' = [fd EXCEPT ![p] = "tmp"]
        /\ job' = [job EXCEPT ![p].pc = "write"]
    BY <1>1, <1>c DEF StageObject, At, Goto, mem
  <2>2. job'[p] = [job[p] EXCEPT !.pc = "write"] /\ Alone(p)
    BY <1>a, <2>1 DEF Alone
  <2>3. /\ job'[p].pc = "write" /\ job'[p].file = f /\ job'[p].cell = job[p].cell
        /\ job'[p].victim = job[p].victim /\ job'[p].seen = job[p].seen
    BY <1>a, <2>2, GotoKeeps
  <2>4. StandsAt(p)'
    BY <1>a, <1>b, <1>c, <2>1, <2>3, GoesOn DEF Flushing
  <2>5. tmp'[f] = {} /\ fd'[p] = "tmp"
    BY <1>a, <1>c, <2>1
  <2>6. JobInv(p)'
    BY <1>e, <2>1, <2>3, <2>5 DEF JobInv, Cached, Flushing
  <2> QED BY <2>2, <2>4, <2>6
<1>1a. CASE CopyContent(p)
  <2>1. /\ job[p].pc = "write" /\ owner' = owner /\ heap' = heap
        /\ job' = [job EXCEPT ![p].pc = "rename"]
    BY <1>1a DEF CopyContent, At, Goto, mem
  <2>1a. tmp' = [tmp EXCEPT ![f] = Cached(f).text]
    <3>1. fd[p] = "tmp" /\ tmp[f] = {}
      BY <1>a, <2>1 DEF JobInv
    <3>2. PICK t \in Written(tmp[f], Cached(f).text) : tmp' = [tmp EXCEPT ![f] = t]
      BY <1>c, <1>1a, <3>1 DEF CopyContent
    <3>3. t = Cached(f).text
      BY <3>1, <3>2 DEF Written
    <3> QED BY <3>2, <3>3
  <2>2. job'[p] = [job[p] EXCEPT !.pc = "rename"] /\ Alone(p)
    BY <1>a, <2>1 DEF Alone
  <2>3. /\ job'[p].pc = "rename" /\ job'[p].file = f /\ job'[p].cell = job[p].cell
        /\ job'[p].victim = job[p].victim /\ job'[p].seen = job[p].seen
    BY <1>a, <2>2, GotoKeeps
  <2>4. StandsAt(p)'
    BY <1>a, <1>b, <1>c, <2>1, <2>3, GoesOn DEF Flushing
  <2>5. tmp'[f] = Complete(v)
    BY <1>a, <1>c, <1>d, <2>1a
  <2>6. JobInv(p)'
    BY <1>e, <2>1, <2>3, <2>5 DEF JobInv, Cached, Flushing
  <2> QED BY <2>2, <2>4, <2>6
<1>2. CASE RenameObject(p)
  <2>1. /\ job[p].pc = "rename" /\ owner' = owner /\ heap' = heap
        /\ disk' = [disk EXCEPT ![f] = tmp[f]]
        /\ job' = [job EXCEPT ![p].pc = "hash"]
    BY <1>2, <1>c DEF RenameObject, At, Goto, mem
  <2>2. job'[p] = [job[p] EXCEPT !.pc = "hash"] /\ Alone(p)
    BY <1>a, <2>1 DEF Alone
  <2>3. /\ job'[p].pc = "hash" /\ job'[p].file = f /\ job'[p].cell = job[p].cell
        /\ job'[p].victim = job[p].victim /\ job'[p].seen = job[p].seen
    BY <1>a, <2>2, GotoKeeps
  <2>4. StandsAt(p)'
    BY <1>a, <1>b, <1>c, <2>1, <2>3, GoesOn DEF Flushing
  <2>5. disk'[f] = Complete(v)
    BY <1>a, <1>c, <2>1 DEF JobInv
  <2>6. JobInv(p)'
    BY <1>e, <2>1, <2>3, <2>5 DEF JobInv, Cached, Flushing
  <2> QED BY <2>2, <2>4, <2>6
<1>3. CASE UpdateFileHash(p) /\ p \in Readers
  <2>1. /\ job[p].pc = "hash" /\ disk' = disk
        /\ heap' = [heap EXCEPT ![job[p].cell].pending = 0]
        /\ job' = [job EXCEPT ![p].pc = "object"]
        /\ owner' = [owner EXCEPT ![job[p].cell] = NoProc]
    BY <1>3, <1>c DEF UpdateFileHash, AfterFlush, At, Goto, Release, store
  <2>2. job'[p] = [job[p] EXCEPT !.pc = "object"] /\ Alone(p)
    BY <1>a, <1>c, <2>1 DEF Alone
  <2>3. /\ job'[p].pc = "object" /\ job'[p].file = f /\ job'[p].cell = job[p].cell
        /\ job'[p].victim = job[p].victim /\ job'[p].seen = job[p].seen
    BY <1>a, <2>2, GotoKeeps
  <2>4. StandsAt(p)'
    BY <1>3, <1>a, <1>b, <2>1, <2>3, GoesOn, ProcsAssumption DEF Locked
  <2>5. heap'[WarmCopy[f]].version = v /\ disk'[f] = Complete(v)
    BY <1>a, <1>c, <2>1 DEF JobInv, Copy
  <2>6. job[p].seen \in Nat
    BY <1>a DEF JobRecord
  <2>7. v \in job[p].seen..v
    BY <1>d, <1>e, <2>6
  <2>8. JobInv(p)'
    BY <2>3, <2>5, <2>7 DEF JobInv, Cached, Flushing
  <2> QED BY <2>2, <2>4, <2>8
<1>4. CASE UpdateFileHash(p) /\ p \notin Readers
  <2>1. AfterFlush(p, TRUE)
    BY <1>4 DEF UpdateFileHash
  <2>2. /\ job' = [job EXCEPT ![p] = Idle]
        /\ owner' = [owner EXCEPT ![job[p].cell] = NoProc]
    BY <1>4, <1>c, <2>1 DEF AfterFlush, Finish, Release
  <2> QED BY <1>c, <2>2, Ends
<1>5. CASE FlushFails(p) \/ HashCancelled(p)
  <2>1. AfterFlush(p, FALSE)
    BY <1>5 DEF FlushFails, HashCancelled
  <2>2. /\ job' = [job EXCEPT ![p] = Idle]
        /\ owner' = [owner EXCEPT ![job[p].cell] = NoProc]
    BY <1>c, <2>1 DEF AfterFlush, Finish, Release
  <2> QED BY <1>c, <2>2, Ends
<1> QED BY <1>1, <1>1a, <1>2, <1>3, <1>4, <1>5 DEF FlushMoves, FlushStep

\* With nothing pending the object is the copy.
LEMMA CleanIsStored ==
  ASSUME Warm, TypeOK, StoredInv, NEW f \in Files, Cached(f).pending = 0
  PROVE  disk[f] = Complete(Cached(f).version)
<1>1. Cached(f).version \in Nat
  BY CopyOf
<1>2. AllBut(f, 0)
  BY DEF StoredInv
<1>3. PICK d \in 0..Cached(f).version :
        disk[f] = Complete(d) /\ Cached(f).version <= d + 0
  BY <1>2 DEF AllBut
<1>4. d = Cached(f).version
  BY <1>1, <1>3
<1> QED BY <1>3, <1>4

LEMMA DownloadActs ==
  ASSUME Warm, TypeOK, StandsInv, VersionInv, StoredInv, JobsInv,
         NEW r \in Readers, DownloadMoves(r)
  PROVE  Alone(r) /\ StandsAt(r)' /\ JobInv(r)'
<1>a. /\ r \in Procs /\ StandsAt(r) /\ JobInv(r)
      /\ job \in [Procs -> JobRecord] /\ job[r] \in JobRecord
      /\ owner \in [Copies -> Procs \cup {NoProc}]
      /\ rowVersion \in [Files -> Nat]
  BY ProcType DEF TypeOK, StandsInv, JobsInv
<1>b. r \notin Clients /\ r # Ticker
  BY ProcsAssumption
<1>1. ASSUME NEW f \in Files, RequestFile(r, f)
      PROVE  Alone(r) /\ StandsAt(r)' /\ JobInv(r)'
  <2>1. /\ job' = [job EXCEPT ![r] = [Idle EXCEPT !.pc = "get", !.file = f,
                                                  !.seen = rowVersion[f]]]
        /\ owner' = owner /\ rowVersion' = rowVersion
    BY <1>1 DEF RequestFile, mem, db
  <2>2. /\ job'[r].pc = "get" /\ job'[r].file = f /\ job'[r].cell = NoCopy
        /\ job'[r].victim = NoCopy /\ job'[r].seen = rowVersion[f]
    BY <1>a, <2>1 DEF Idle
  <2>3. Alone(r)
    BY <1>a, <2>1 DEF Alone
  <2>4. StandsAt(r)'
    BY <1>b, <2>2 DEF StandsAt, Locked
  <2>5. JobInv(r)'
    BY <1>a, <2>1, <2>2 DEF JobInv, Flushing
  <2> QED BY <2>3, <2>4, <2>5
<1>2. CASE LookUpCopy(r)
  <2>1. /\ job[r].pc = "get" /\ owner' = owner /\ rowVersion' = rowVersion
    BY <1>2 DEF LookUpCopy, At, mem, db
  <2>2. job[r].file \in Files
    BY <1>a, <2>1 DEF StandsAt
  <2>3. cache[job[r].file] = WarmCopy[job[r].file] /\ WarmCopy[job[r].file] # NoCopy
    BY <2>2, CopyOf, ProcsAssumption DEF StandsInv
  <2>4. job' = [job EXCEPT ![r].pc = "lock", ![r].cell = WarmCopy[job[r].file]]
    BY <1>2, <2>3 DEF LookUpCopy
  <2>5. /\ job'[r].pc = "lock" /\ job'[r].file = job[r].file
        /\ job'[r].cell = WarmCopy[job[r].file]
        /\ job'[r].victim = job[r].victim /\ job'[r].seen = job[r].seen
    BY <1>a, <2>4 DEF JobRecord
  <2>6. Alone(r)
    BY <1>a, <2>1, <2>4 DEF Alone
  <2>7. StandsAt(r)'
    BY <1>a, <1>b, <2>2, <2>5 DEF StandsAt, Locked
  <2>8. JobInv(r)'
    BY <1>a, <2>1, <2>5 DEF JobInv, Flushing
  <2> QED BY <2>6, <2>7, <2>8
<1>3. CASE LockForRead(r)
  <2>1. /\ job[r].pc = "lock" /\ Free(job[r].cell) /\ heap' = heap /\ disk' = disk
    BY <1>3 DEF LockForRead, At, store
  <2>2. /\ job[r].file \in Files /\ job[r].cell \in Copies
        /\ heap[job[r].cell] = Cached(job[r].file)
    BY <1>a, <2>1, Works
  <2>3. job[r].seen <= Cached(job[r].file).version
    BY <1>a, <2>1, UpToDate DEF JobInv
  <2>4. CASE heap[job[r].cell].pending = 0
    <3>1. job' = [job EXCEPT ![r].pc = "object"] /\ owner' = owner
      BY <1>3, <2>4 DEF LockForRead, Goto
    <3>2. job'[r] = [job[r] EXCEPT !.pc = "object"] /\ Alone(r)
      BY <1>a, <3>1 DEF Alone
    <3>3. /\ job'[r].pc = "object" /\ job'[r].file = job[r].file
          /\ job'[r].cell = job[r].cell /\ job'[r].victim = job[r].victim
          /\ job'[r].seen = job[r].seen
      BY <1>a, <3>2, GotoKeeps
    <3>4. StandsAt(r)'
      BY <1>a, <1>b, <2>1, <3>3, GoesOn DEF Locked
    <3>5. disk[job[r].file] = Complete(Cached(job[r].file).version)
      BY <2>2, <2>4, CleanIsStored
    <3>6. job[r].seen \in Nat /\ Cached(job[r].file).version \in Nat
      BY <1>a, <2>2, CopyOf DEF JobRecord
    <3>7. Cached(job[r].file).version \in job[r].seen..Cached(job[r].file).version
      BY <2>3, <3>6
    <3>8. JobInv(r)'
      BY <2>1, <3>3, <3>5, <3>7 DEF JobInv, Cached, Flushing
    <3> QED BY <3>2, <3>4, <3>8
  <2>5. CASE heap[job[r].cell].pending # 0
    <3>1. /\ job' = [job EXCEPT ![r].pc = "stage"]
          /\ owner' = [owner EXCEPT ![job[r].cell] = r]
      BY <1>3, <2>5 DEF LockForRead, Goto, Acquire
    <3>2. job'[r] = [job[r] EXCEPT !.pc = "stage"] /\ Alone(r)
      BY <1>a, <2>1, <3>1 DEF Alone, Free
    <3>3. /\ job'[r].pc = "stage" /\ job'[r].file = job[r].file
          /\ job'[r].cell = job[r].cell /\ job'[r].victim = job[r].victim
          /\ job'[r].seen = job[r].seen
      BY <1>a, <3>2, GotoKeeps
    <3>4. owner'[job[r].cell] = r
      BY <1>a, <2>2, <3>1
    <3>5. StandsAt(r)'
      BY <1>a, <1>b, <2>1, <3>3, <3>4, GoesOn DEF Flushing
    <3>6. JobInv(r)'
      BY <2>1, <2>3, <3>3 DEF JobInv, Cached, Flushing
    <3> QED BY <3>2, <3>5, <3>6
  <2> QED BY <2>4, <2>5
<1>4. CASE ReplyFile(r)
  <2>1. job' = [job EXCEPT ![r] = Idle] /\ owner' = owner
    BY <1>4 DEF ReplyFile, Finish, mem
  <2> QED BY <1>a, <2>1, Ends
<1> QED BY <1>1, <1>2, <1>3, <1>4 DEF DownloadMoves, DownloadStep

-------------------------------------------------------------------------------
(* What a step does to the documents *)

\* The documents as they are and who is about to publish.
Calm ==
  /\ heap' = heap /\ disk' = disk /\ broadcast' = broadcast
  /\ rowVersion' = rowVersion /\ oplog' = oplog /\ rowHash' = rowHash
  /\ \A f \in Files : Publishing(f)' <=> Publishing(f)

\* A commit, and a message that goes out, by the handler that has the mutex.
Commits(c) ==
  LET f == job[c].file
      v == Cached(f).version
  IN
  /\ job[c].pc = "persist" /\ f \in Files
  /\ v + 1 \notin oplog[f]
  /\ oplog' = [oplog EXCEPT ![f] = @ \cup {v + 1}]
  /\ rowVersion' = [rowVersion EXCEPT ![f] = v + 1]
  /\ heap' = heap /\ disk' = disk /\ broadcast' = broadcast /\ rowHash' = rowHash
  /\ ~Publishing(f)
  /\ \A g \in Files : Publishing(g)' <=> g = f \/ Publishing(g)

Sends(c) ==
  LET f == job[c].file
      v == Cached(f).version
  IN
  /\ job[c].pc = "publish" /\ f \in Files
  /\ heap' = [heap EXCEPT ![WarmCopy[f]] =
                [file |-> f, version |-> v + 1, text |-> Cached(f).text \cup {v + 1},
                 pending |-> Cached(f).pending + 1]]
  /\ broadcast' = [broadcast EXCEPT ![f] = Append(@, v + 1)]
  /\ rowVersion' = rowVersion /\ oplog' = oplog /\ rowHash' = rowHash /\ disk' = disk
  /\ Publishing(f)
  /\ \A g \in Files : Publishing(g)' <=> g # f /\ Publishing(g)

\* The temporary files of other documents are left alone.
TempKept(p) ==
  /\ \A g \in Files : tmp'[g] = tmp[g] \/ (job[p].pc \in Locked /\ job[p].file = g)
  /\ \A q \in Procs \ {p} :
       fd'[q] = fd[q] \/ (job[p].pc \in Locked /\ heap[Flushed(q)].file = job[p].file)

\* The object and the hash of a flush, by who has the mutex.
Stores(p) ==
  LET f == job[p].file IN
  /\ job[p].pc = "rename" /\ f \in Files
  /\ disk' = [disk EXCEPT ![f] = Complete(Cached(f).version)]
  /\ heap' = heap /\ broadcast' = broadcast
  /\ rowVersion' = rowVersion /\ oplog' = oplog /\ rowHash' = rowHash
  /\ ~Publishing(f)
  /\ \A g \in Files : Publishing(g)' <=> Publishing(g)

Records(p) ==
  LET f == job[p].file IN
  /\ job[p].pc = "hash" /\ f \in Files
  /\ heap' = [heap EXCEPT ![WarmCopy[f]].pending = 0]
  /\ rowHash' = [rowHash EXCEPT ![f] = Cached(f).text]
  /\ disk[f] = Complete(Cached(f).version)
  /\ disk' = disk /\ broadcast' = broadcast
  /\ rowVersion' = rowVersion /\ oplog' = oplog
  /\ ~Publishing(f)
  /\ \A g \in Files : Publishing(g)' <=> Publishing(g)

Purges ==
  /\ \E last \in [Files -> Nat] :
       oplog' = [f \in Files |-> {v \in oplog[f] : v > last[f]}]
  /\ heap' = heap /\ disk' = disk /\ broadcast' = broadcast
  /\ rowVersion' = rowVersion /\ rowHash' = rowHash
  /\ \A f \in Files : Publishing(f)' <=> Publishing(f)

Writes(p) == Calm \/ Commits(p) \/ Sends(p) \/ Stores(p) \/ Records(p)

\* Who publishes stays the same while no handler gets to it or leaves it.
LEMMA SamePublishers ==
  ASSUME \A c \in Clients : job'[c] = job[c] \/ (job[c].pc # "publish" /\ job'[c].pc # "publish")
  PROVE  \A f \in Files : Publishing(f)' <=> Publishing(f)
BY DEF Publishing, At

\* A critical section of another kind keeps publishers out.
LEMMA NoPublisher ==
  ASSUME StandsInv, NEW p \in Procs, job[p].pc \in Locked \ {"publish"}
  PROVE  ~Publishing(job[p].file)
<1> SUFFICES ASSUME NEW c \in Clients, job[c].pc = "publish", job[c].file = job[p].file
             PROVE  FALSE
  BY DEF Publishing, At
<1>1. c \in Procs /\ job[c].pc \in Locked
  BY ProcType DEF Locked
<1>2. c = p
  BY <1>1, OneHolder
<1> QED BY <1>2

LEMMA HandlerWrites ==
  ASSUME Warm, TypeOK, StandsInv, NEW c \in Clients, HandlerMoves(c)
  PROVE  Writes(c) /\ UNCHANGED <<tmp, fd>> /\ reply' = reply
<1> USE DEF Writes
<1>a. /\ c \in Procs /\ StandsAt(c)
      /\ job \in [Procs -> JobRecord] /\ Clients \subseteq Procs
  BY ProcType DEF TypeOK, StandsInv
<1>b. job[c].pc \notin {"idle", "get"} =>
        /\ job[c].file \in Files /\ job[c].cell = WarmCopy[job[c].file]
        /\ heap[job[c].cell] = Cached(job[c].file) /\ heap[job[c].cell].file = job[c].file
  BY <1>a, Works
<1> DEFINE f == job[c].file
           v == Cached(f).version
           Data == /\ heap' = heap /\ disk' = disk /\ broadcast' = broadcast
                   /\ rowVersion' = rowVersion /\ oplog' = oplog /\ rowHash' = rowHash
                   /\ UNCHANGED <<tmp, fd>> /\ reply' = reply
<1>c. ASSUME Data, job[c].pc # "publish", NEW r,
             job' = [job EXCEPT ![c] = r], r.pc # "publish"
      PROVE  Calm /\ UNCHANGED <<tmp, fd>> /\ reply' = reply
  <2>1. \A d \in Clients : job'[d] = job[d] \/ (job[d].pc # "publish" /\ job'[d].pc # "publish")
    BY <1>a, <1>c
  <2>2. \A g \in Files : Publishing(g)' <=> Publishing(g)
    BY <2>1, SamePublishers
  <2> QED BY <1>c, <2>2 DEF Calm
<1>i. Idle.pc # "publish"
  BY DEF Idle
<1>1. ASSUME NEW g \in Files, ReceiveChunk(c, g)
      PROVE  Calm /\ UNCHANGED <<tmp, fd>> /\ reply' = reply
  <2>1. Data /\ job[c].pc # "publish"
    BY <1>1 DEF ReceiveChunk, At, db, store, mem, env
  <2>2. PICK b \in 0..rowVersion[g] :
          job' = [job EXCEPT ![c] = [Idle EXCEPT
                 !.pc = IF cache[g] = NoCopy THEN "load" ELSE "lock",
                 !.file = g, !.cell = cache[g], !.base = b]]
    BY <1>1 DEF ReceiveChunk
  <2>3. [Idle EXCEPT !.pc = IF cache[g] = NoCopy THEN "load" ELSE "lock",
                     !.file = g, !.cell = cache[g], !.base = b].pc # "publish"
    BY DEF Idle
  <2> HIDE DEF Data
  <2> QED BY <1>c, <2>1, <2>2, <2>3
<1>2. CASE TransformStaleChunks(c)
  <2>1. Data /\ job[c].pc # "publish"
    BY <1>2 DEF TransformStaleChunks, At, db, store, env
  <2>2. \/ job' = [job EXCEPT ![c] = [job[c] EXCEPT !.pc = "persist", !.against = Concurrent(c)]]
        \/ job' = [job EXCEPT ![c] = Idle]
    BY <1>2, <1>a DEF TransformStaleChunks, Finish
  <2>3. [job[c] EXCEPT !.pc = "persist", !.against = Concurrent(c)].pc # "publish"
    BY <1>a DEF JobRecord
  <2> HIDE DEF Data
  <2> QED BY <1>c, <1>i, <2>1, <2>2, <2>3
<1>3. CASE PersistFails(c) \/ PersistCancelled(c)
  <2>1. /\ Data /\ job[c].pc # "publish"
        /\ job' = [job EXCEPT ![c] = Idle]
    BY <1>3 DEF PersistFails, PersistCancelled, At, Finish, db, store, env
  <2> HIDE DEF Data
  <2> QED BY <1>c, <1>i, <2>1
<1>4. CASE PersistChunkOperation(c)
  <2>1. /\ job[c].pc = "persist" /\ f \in Files
        /\ heap' = heap /\ disk' = disk /\ broadcast' = broadcast
        /\ rowHash' = rowHash /\ UNCHANGED <<tmp, fd>> /\ reply' = reply
    BY <1>4, <1>b DEF PersistChunkOperation, At, store, env
  <2>2. CASE v + 1 \in oplog[f]
    <3>1. job' = [job EXCEPT ![c] = Idle] /\ Data /\ job[c].pc # "publish"
      BY <1>4, <1>b, <2>1, <2>2 DEF PersistChunkOperation, Finish
    <3> HIDE DEF Data
    <3> QED BY <1>c, <1>i, <3>1
  <2>3. CASE v + 1 \notin oplog[f]
    <3>1. /\ oplog' = [oplog EXCEPT ![f] = @ \cup {v + 1}]
          /\ rowVersion' = [rowVersion EXCEPT ![f] = v + 1]
          /\ job' = [job EXCEPT ![c].pc = "publish"]
      BY <1>4, <1>b, <2>1, <2>3 DEF PersistChunkOperation, Goto
    <3>2. /\ job'[c].pc = "publish" /\ job'[c].file = f
          /\ \A d \in Clients \ {c} : job'[d] = job[d]
      BY <1>a, <3>1 DEF JobRecord
    <3>3. ~Publishing(f)
      BY <1>a, <2>1, NoPublisher DEF Locked
    <3>4. ASSUME NEW g \in Files PROVE Publishing(g)' <=> g = f \/ Publishing(g)
      <4> HIDE DEF f
      <4>1. job[c].pc # "publish"
        BY <2>1
      <4> QED BY <3>2, <4>1 DEF Publishing, At
    <3>6. Commits(c)
      BY <2>1, <2>3, <3>1, <3>3, <3>4 DEF Commits
    <3> QED BY <2>1, <3>6
  <2> QED BY <2>2, <2>3
<1>5. CASE Publish(c)
  <2>1. /\ job[c].pc = "publish" /\ f \in Files /\ job[c].cell = WarmCopy[f]
        /\ heap[job[c].cell] = Cached(f) /\ heap[job[c].cell].file = f
    BY <1>5, <1>b DEF Publish, At
  <2>2. /\ heap' = [heap EXCEPT ![WarmCopy[f]] =
                [file |-> f, version |-> v + 1, text |-> Cached(f).text \cup {v + 1},
                 pending |-> Cached(f).pending + 1]]
        /\ broadcast' = [broadcast EXCEPT ![f] = Append(@, v + 1)]
        /\ rowVersion' = rowVersion /\ oplog' = oplog /\ rowHash' = rowHash
        /\ disk' = disk /\ UNCHANGED <<tmp, fd>> /\ reply' = reply
        /\ job' = [job EXCEPT ![c] = Idle]
    BY <1>5, <2>1 DEF Publish, Finish, db, store
  <2>3. /\ job'[c].pc # "publish"
        /\ \A d \in Clients \ {c} : job'[d] = job[d]
    BY <1>a, <1>i, <2>2
  <2>4. Publishing(f)
    BY <2>1 DEF Publishing, At
  <2>5. ASSUME NEW d \in Clients, job'[d].pc = "publish", job'[d].file = f PROVE FALSE
    <3>1. d # c /\ job[d].pc = "publish" /\ job[d].file = f
      BY <2>3, <2>5
    <3>2. d = c
      BY <1>a, <2>1, <3>1, OneHolder DEF Locked
    <3> QED BY <3>1, <3>2
  <2>6. ASSUME NEW g \in Files PROVE Publishing(g)' <=> g # f /\ Publishing(g)
    <3>1. job[c].file = f
      OBVIOUS
    <3> HIDE DEF f
    <3>2. \A d \in Clients : ~(job'[d].pc = "publish" /\ job'[d].file = f)
      BY <2>5
    <3> QED BY <2>3, <3>1, <3>2 DEF Publishing, At
  <2>8. Sends(c)
    BY <2>1, <2>2, <2>4, <2>6 DEF Sends
  <2> QED BY <2>2, <2>8
<1> QED BY <1>1, <1>2, <1>3, <1>4, <1>5 DEF HandlerMoves

\* The ticker, a purge and a download leave the documents as they are.
LEMMA OthersWrite ==
  ASSUME \/ TickerMoves /\ Alone(Ticker)
         \/ \E r \in Readers : DownloadMoves(r) /\ Alone(r)
  PROVE  /\ Calm /\ UNCHANGED <<tmp, fd>>
         /\ reply' = reply \/ \E r \in Readers : ReplyFile(r)
<1>1. CASE TickerMoves /\ Alone(Ticker)
  <2>1. /\ heap' = heap /\ disk' = disk /\ broadcast' = broadcast
        /\ rowVersion' = rowVersion /\ oplog' = oplog /\ rowHash' = rowHash
        /\ UNCHANGED <<tmp, fd>> /\ reply' = reply
    BY <1>1 DEF TickerMoves, ProcessFile, SkipFile, StartFlush, CreateFileSnapshot,
                SnapshotCancelled, db, store, mem, env
  <2>2. \A c \in Clients : job'[c] = job[c]
    BY <1>1, ProcType, ProcsAssumption DEF Alone
  <2> QED BY <2>1, <2>2, SamePublishers DEF Calm
<1>2. ASSUME NEW r \in Readers, DownloadMoves(r), Alone(r)
      PROVE  /\ Calm /\ UNCHANGED <<tmp, fd>>
             /\ reply' = reply \/ ReplyFile(r)
  <2>1. /\ heap' = heap /\ disk' = disk /\ broadcast' = broadcast
        /\ rowVersion' = rowVersion /\ oplog' = oplog /\ rowHash' = rowHash
        /\ UNCHANGED <<tmp, fd>> /\ (reply' = reply \/ ReplyFile(r))
    BY <1>2 DEF DownloadMoves, RequestFile, DownloadStep, LookUpCopy, LockForRead,
                ReplyFile, db, store, mem, env
  <2>2. \A c \in Clients : job'[c] = job[c]
    BY <1>2, ProcType, ProcsAssumption DEF Alone
  <2> QED BY <2>1, <2>2, SamePublishers DEF Calm
<1> QED BY <1>1, <1>2

LEMMA FlushWrites ==
  ASSUME Warm, TypeOK, StandsInv, VersionInv, JobsInv,
         NEW p \in Procs, FlushMoves(p), Alone(p)
  PROVE  /\ Writes(p)
         /\ reply' = reply
         /\ TempKept(p)
<1> USE DEF Writes
<1> DEFINE f == job[p].file
           v == Cached(f).version
<1>a. /\ JobInv(p) /\ tmp \in [Files -> SUBSET Nat]
      /\ fd \in [Procs -> {"none", "tmp", "object"}]
      /\ job[p].pc \in Flushing /\ p \notin Clients
      /\ f \in Files /\ job[p].cell \in Copies
      /\ job[p].cell = WarmCopy[f]
      /\ heap[job[p].cell] = Cached(f) /\ heap[job[p].cell].file = f
      /\ job[p].victim = NoCopy /\ Flushed(p) = job[p].cell
  BY FlushingIs DEF JobsInv, TypeOK
<1>b. ~Publishing(f)
  BY <1>a, NoPublisher DEF Flushing, Locked
<1>c. \A c \in Clients : job'[c] = job[c]
  BY <1>a, ProcType DEF Alone
<1>d. \A g \in Files : Publishing(g)' <=> Publishing(g)
  BY <1>c, SamePublishers
<1>e. ASSUME \A g \in Files \ {f} : tmp'[g] = tmp[g],
             \A q \in Procs \ {p} : fd'[q] = fd[q] \/ heap[Flushed(q)].file = f
      PROVE  TempKept(p)
  BY <1>a, <1>e DEF TempKept, Flushing, Locked
<1>1. CASE StageObject(p)
  <2>1. /\ heap' = heap /\ disk' = disk /\ broadcast' = broadcast
        /\ rowVersion' = rowVersion /\ oplog' = oplog /\ rowHash' = rowHash
        /\ reply' = reply /\ tmp' = [tmp EXCEPT ![f] = {}]
        /\ fd' = [fd EXCEPT ![p] = "tmp"]
    BY <1>1, <1>a DEF StageObject, db, mem, env
  <2> QED BY <1>a, <1>d, <1>e, <2>1 DEF Calm
<1>1a. CASE CopyContent(p)
  <2>1. fd[p] = "tmp"
    BY <1>1a, <1>a DEF CopyContent, At, JobInv
  <2>2. /\ heap' = heap /\ disk' = disk /\ broadcast' = broadcast
        /\ rowVersion' = rowVersion /\ oplog' = oplog /\ rowHash' = rowHash
        /\ reply' = reply /\ fd' = [fd EXCEPT ![p] = "none"]
    BY <1>1a, <2>1 DEF CopyContent, db, mem, env
  <2>3. \A g \in Files \ {f} : tmp'[g] = tmp[g]
    BY <1>1a, <1>a, <2>1 DEF CopyContent
  <2> QED BY <1>a, <1>d, <1>e, <2>2, <2>3 DEF Calm
<1>2. CASE RenameObject(p)
  <2>1. /\ job[p].pc = "rename"
        /\ heap' = heap /\ broadcast' = broadcast /\ disk' = [disk EXCEPT ![f] = tmp[f]]
        /\ rowVersion' = rowVersion /\ oplog' = oplog /\ rowHash' = rowHash
        /\ reply' = reply /\ tmp' = [tmp EXCEPT ![f] = NoText] /\ fd' = AfterRename(f)
    BY <1>2, <1>a DEF RenameObject, At, db, mem, env
  <2>2. tmp[f] = Complete(v)
    BY <1>a, <2>1 DEF JobInv
  <2>3. Stores(p)
    BY <1>a, <1>b, <1>d, <2>1, <2>2 DEF Stores
  <2>4. \A q \in Procs \ {p} : fd'[q] = fd[q] \/ heap[Flushed(q)].file = f
    BY <2>1 DEF AfterRename
  <2> QED BY <1>a, <1>e, <2>1, <2>3, <2>4
<1>3. CASE UpdateFileHash(p)
  <2>1. /\ job[p].pc = "hash"
        /\ heap' = [heap EXCEPT ![WarmCopy[f]].pending = 0]
        /\ rowHash' = [rowHash EXCEPT ![f] = Cached(f).text]
        /\ disk' = disk /\ broadcast' = broadcast
        /\ rowVersion' = rowVersion /\ oplog' = oplog
        /\ reply' = reply /\ UNCHANGED <<tmp, fd>>
    BY <1>3, <1>a DEF UpdateFileHash, At, store, env
  <2>2. disk[f] = Complete(v)
    BY <1>a, <2>1 DEF JobInv
  <2>3. Records(p)
    BY <1>a, <1>b, <1>d, <2>1, <2>2 DEF Records
  <2> QED BY <1>e, <2>1, <2>3
<1>4. CASE FlushFails(p)
  <2>1. /\ heap' = heap /\ broadcast' = broadcast
        /\ rowVersion' = rowVersion /\ oplog' = oplog /\ rowHash' = rowHash
        /\ reply' = reply
    BY <1>4 DEF FlushFails, db
  <2>2. disk' = disk /\ TempKept(p)
    <3>1. CASE CopyFails(p)
      <4>1. fd[p] = "tmp"
        BY <3>1, <1>a DEF CopyFails, At, JobInv
      <4>2. \A g \in Files \ {f} : tmp'[g] = tmp[g]
        BY <3>1, <1>a DEF CopyFails
      <4>3. \A q \in Procs \ {p} : fd'[q] = fd[q] \/ heap[Flushed(q)].file = f
        BY <3>1, <1>a DEF CopyFails
      <4>4. disk' = disk
        BY <3>1, <4>1 DEF CopyFails
      <4> QED BY <1>e, <4>2, <4>3, <4>4
    <3> QED BY <1>4, <1>e, <3>1 DEF FlushFails, store
  <2> QED BY <1>a, <1>d, <2>1, <2>2 DEF Calm
<1>5. CASE HashCancelled(p)
  <2>1. /\ heap' = heap /\ disk' = disk /\ broadcast' = broadcast
        /\ rowVersion' = rowVersion /\ oplog' = oplog /\ rowHash' = rowHash
        /\ reply' = reply /\ UNCHANGED <<tmp, fd>>
    BY <1>5 DEF HashCancelled, db, store, env
  <2> QED BY <1>d, <1>e, <2>1 DEF Calm
<1> QED BY <1>1, <1>1a, <1>2, <1>3, <1>4, <1>5 DEF FlushMoves, FlushStep

LEMMA PurgeWrites ==
  ASSUME SizesAssumption, PurgeCache
  PROVE  /\ Purges /\ UNCHANGED <<tmp, fd>> /\ reply' = reply /\ job' = job
         /\ owner' = owner /\ cache' = cache
<1>1. /\ heap' = heap /\ disk' = disk /\ broadcast' = broadcast
      /\ rowVersion' = rowVersion /\ rowHash' = rowHash
      /\ UNCHANGED <<tmp, fd>> /\ reply' = reply /\ job' = job /\ owner' = owner /\ cache' = cache
  BY DEF PurgeCache, store, mem, env
<1>2. PICK last \in [Files -> 0..MaxVersion] :
        oplog' = [f \in Files |-> {v \in oplog[f] : v > last[f]}]
  BY DEF PurgeCache
<1>3. last \in [Files -> Nat]
  BY <1>2
<1>4. \A f \in Files : Publishing(f)' <=> Publishing(f)
  BY <1>1, SamePublishers
<1> QED BY <1>1, <1>2, <1>3, <1>4 DEF Purges

-------------------------------------------------------------------------------
(* The invariants of the documents *)

\* What a write leaves of the files other than its own.
LEMMA OtherFiles ==
  ASSUME Warm, TypeOK, NEW p \in Procs, Writes(p), NEW g \in Files,
         Calm \/ job[p].file # g
  PROVE  /\ heap'[WarmCopy[g]] = heap[WarmCopy[g]]
         /\ disk'[g] = disk[g] /\ broadcast'[g] = broadcast[g]
         /\ rowVersion'[g] = rowVersion[g] /\ oplog'[g] = oplog[g] /\ rowHash'[g] = rowHash[g]
         /\ Publishing(g)' <=> Publishing(g)
<1>a. /\ heap \in [Copies -> Copy] /\ disk \in [Files -> SUBSET Nat]
      /\ rowVersion \in [Files -> Nat] /\ oplog \in [Files -> SUBSET Nat]
      /\ rowHash \in [Files -> SUBSET Nat] /\ broadcast \in [Files -> Seq(Nat)]
  BY DEF TypeOK
<1>1. CASE Calm
  BY <1>1 DEF Calm
<1>2. ASSUME job[p].file \in Files, job[p].file # g
      PROVE  WarmCopy[job[p].file] # WarmCopy[g] /\ WarmCopy[g] \in Copies
  BY <1>2, CopyOf
<1>3. CASE ~Calm /\ Commits(p)
  BY <1>3, <1>a, <1>2 DEF Commits
<1>4. CASE ~Calm /\ Sends(p)
  BY <1>4, <1>a, <1>2 DEF Sends
<1>5. CASE ~Calm /\ Stores(p)
  BY <1>5, <1>a, <1>2 DEF Stores
<1>6. CASE ~Calm /\ Records(p)
  BY <1>6, <1>a, <1>2 DEF Records
<1> QED BY <1>1, <1>3, <1>4, <1>5, <1>6 DEF Writes

\* What a write does to its own file.
LEMMA OwnFile ==
  ASSUME Warm, TypeOK, VersionInv, NEW p \in Procs, NEW f \in Files, f = job[p].file
  PROVE  LET v == Cached(f).version
             new == heap'[WarmCopy[f]]
         IN
         /\ Commits(p) =>
              /\ new = Cached(f) /\ disk'[f] = disk[f] /\ broadcast'[f] = broadcast[f]
              /\ rowVersion[f] = v /\ rowVersion'[f] = v + 1
              /\ oplog'[f] = oplog[f] \cup {v + 1}
              /\ rowHash'[f] = rowHash[f] /\ ~Publishing(f) /\ Publishing(f)'
         /\ Sends(p) =>
              /\ new.file = f /\ new.version = v + 1 /\ new.text = Complete(v + 1)
              /\ new.pending = Cached(f).pending + 1
              /\ disk'[f] = disk[f] /\ broadcast'[f] = Append(broadcast[f], v + 1)
              /\ rowVersion[f] = v + 1 /\ rowVersion'[f] = v + 1 /\ oplog'[f] = oplog[f]
              /\ Publishing(f) /\ ~Publishing(f)'
         /\ Stores(p) =>
              /\ new = Cached(f) /\ disk'[f] = Complete(v) /\ broadcast'[f] = broadcast[f]
              /\ rowVersion[f] = v /\ rowVersion'[f] = v /\ oplog'[f] = oplog[f]
              /\ rowHash'[f] = rowHash[f] /\ ~Publishing(f) /\ ~Publishing(f)'
         /\ Records(p) =>
              /\ new.file = Cached(f).file /\ new.version = v /\ new.text = Complete(v)
              /\ new.pending = 0
              /\ disk[f] = Complete(v) /\ disk'[f] = disk[f] /\ broadcast'[f] = broadcast[f]
              /\ rowVersion[f] = v /\ rowVersion'[f] = v /\ oplog'[f] = oplog[f]
              /\ rowHash'[f] = Complete(v) /\ ~Publishing(f) /\ ~Publishing(f)'
<1> DEFINE v == Cached(f).version
<1>a. /\ heap \in [Copies -> Copy] /\ disk \in [Files -> SUBSET Nat]
      /\ rowVersion \in [Files -> Nat] /\ oplog \in [Files -> SUBSET Nat]
      /\ rowHash \in [Files -> SUBSET Nat] /\ broadcast \in [Files -> Seq(Nat)]
  BY DEF TypeOK
<1>b. /\ WarmCopy[f] \in Copies /\ Cached(f) = heap[WarmCopy[f]] /\ Cached(f) \in Copy
      /\ v \in Nat
  BY CopyOf
<1>c. /\ Cached(f).text = Complete(v)
      /\ rowVersion[f] = IF Publishing(f) THEN v + 1 ELSE v
      /\ Complete(v) \cup {v + 1} = Complete(v + 1)
  BY <1>b, CompleteOrder DEF VersionInv
<1> HIDE DEF v
<1>1. ASSUME Commits(p)
      PROVE  /\ heap'[WarmCopy[f]] = Cached(f) /\ disk'[f] = disk[f]
             /\ broadcast'[f] = broadcast[f]
             /\ rowVersion[f] = v /\ rowVersion'[f] = v + 1
             /\ oplog'[f] = oplog[f] \cup {v + 1}
             /\ rowHash'[f] = rowHash[f] /\ ~Publishing(f) /\ Publishing(f)'
  BY <1>1, <1>a, <1>b, <1>c DEF Commits, v
<1>2. ASSUME Sends(p)
      PROVE  /\ heap'[WarmCopy[f]] =
                  [file |-> f, version |-> v + 1, text |-> Complete(v + 1),
                   pending |-> Cached(f).pending + 1]
             /\ disk'[f] = disk[f] /\ broadcast'[f] = Append(broadcast[f], v + 1)
             /\ rowVersion[f] = v + 1 /\ rowVersion'[f] = v + 1 /\ oplog'[f] = oplog[f]
             /\ Publishing(f) /\ ~Publishing(f)'
  BY <1>2, <1>a, <1>b, <1>c DEF Sends, v
<1>3. ASSUME Stores(p)
      PROVE  /\ heap'[WarmCopy[f]] = Cached(f) /\ disk'[f] = Complete(v)
             /\ broadcast'[f] = broadcast[f]
             /\ rowVersion[f] = v /\ rowVersion'[f] = v /\ oplog'[f] = oplog[f]
             /\ rowHash'[f] = rowHash[f] /\ ~Publishing(f) /\ ~Publishing(f)'
  BY <1>3, <1>a, <1>b, <1>c DEF Stores, v
<1>4. ASSUME Records(p)
      PROVE  /\ heap'[WarmCopy[f]] = [Cached(f) EXCEPT !.pending = 0]
             /\ disk[f] = Complete(v) /\ disk'[f] = disk[f] /\ broadcast'[f] = broadcast[f]
             /\ rowVersion[f] = v /\ rowVersion'[f] = v /\ oplog'[f] = oplog[f]
             /\ rowHash'[f] = Complete(v) /\ ~Publishing(f) /\ ~Publishing(f)'
  BY <1>4, <1>a, <1>b, <1>c DEF Records, v
<1>5. /\ [Cached(f) EXCEPT !.pending = 0].file = Cached(f).file
      /\ [Cached(f) EXCEPT !.pending = 0].version = v
      /\ [Cached(f) EXCEPT !.pending = 0].text = Complete(v)
      /\ [Cached(f) EXCEPT !.pending = 0].pending = 0
  BY <1>b, <1>c DEF Copy, v
<1>6. ASSUME Records(p)
      PROVE  /\ heap'[WarmCopy[f]].file = Cached(f).file
             /\ heap'[WarmCopy[f]].version = v
             /\ heap'[WarmCopy[f]].text = Complete(v)
             /\ heap'[WarmCopy[f]].pending = 0
  BY <1>4, <1>5, <1>6
<1>7. ASSUME Sends(p)
      PROVE  /\ heap'[WarmCopy[f]].file = f
             /\ heap'[WarmCopy[f]].version = v + 1
             /\ heap'[WarmCopy[f]].text = Complete(v + 1)
             /\ heap'[WarmCopy[f]].pending = Cached(f).pending + 1
  BY <1>2, <1>7
<1> QED BY <1>1, <1>2, <1>3, <1>4, <1>6, <1>7, Zenon DEF v

\* How far the versions and the objects get in a write.
LEMMA Onward ==
  ASSUME Warm, TypeOK, VersionInv, NEW p \in Procs, Writes(p), NEW g \in Files
  PROVE  /\ heap'[WarmCopy[g]].file \in {Cached(g).file, g}
         /\ rowVersion'[g] \in {rowVersion[g], rowVersion[g] + 1}
         /\ heap'[WarmCopy[g]].version \in {Cached(g).version, Cached(g).version + 1}
         /\ \/ disk'[g] = disk[g]
            \/ /\ disk'[g] = Complete(Cached(g).version)
               /\ rowVersion[g] = Cached(g).version
<1>1. CASE Calm \/ job[p].file # g
  BY <1>1, OtherFiles DEF Cached
<1>2. CASE ~(Calm \/ job[p].file # g)
  BY <1>2, OwnFile DEF Writes
<1> QED BY <1>1, <1>2

LEMMA VersionStep ==
  ASSUME Warm, TypeOK, VersionInv, NEW p \in Procs, Writes(p) \/ Purges
  PROVE  VersionInv'
<1> SUFFICES ASSUME NEW g \in Files
             PROVE  LET new == heap'[WarmCopy[g]] IN
                    /\ new.text = Complete(new.version)
                    /\ rowVersion'[g] =
                         IF Publishing(g)' THEN new.version + 1 ELSE new.version
                    /\ Len(broadcast'[g]) = new.version
                    /\ \E k \in 0..rowVersion'[g] : oplog'[g] = (k + 1)..rowVersion'[g]
  BY DEF VersionInv, Cached, Complete
<1> DEFINE v == Cached(g).version
<1>a. /\ Cached(g) = heap[WarmCopy[g]] /\ v \in Nat /\ rowVersion[g] \in Nat
      /\ broadcast[g] \in Seq(Nat)
  BY CopyOf DEF TypeOK
<1>b. /\ Cached(g).text = Complete(v)
      /\ rowVersion[g] = IF Publishing(g) THEN v + 1 ELSE v
      /\ Len(broadcast[g]) = v
      /\ \E k \in 0..rowVersion[g] : oplog[g] = (k + 1)..rowVersion[g]
  BY DEF VersionInv
<1> HIDE DEF v
<1>1. CASE Purges
  <2>1. PICK last \in [Files -> Nat] :
          oplog' = [f \in Files |-> {w \in oplog[f] : w > last[f]}]
    BY <1>1 DEF Purges
  <2>2. /\ heap' = heap /\ broadcast' = broadcast /\ rowVersion' = rowVersion
        /\ Publishing(g)' <=> Publishing(g)
    BY <1>1 DEF Purges
  <2>3. PICK k \in 0..rowVersion[g] : oplog[g] = (k + 1)..rowVersion[g]
    BY <1>b
  <2>4. oplog'[g] = {w \in (k + 1)..rowVersion[g] : w > last[g]} /\ last[g] \in Nat
    BY <2>1, <2>3
  <2>5. rowVersion[g] \in Nat /\ k \in 0..rowVersion[g]
    BY <1>a, <2>3
  <2>6. \E j \in 0..rowVersion[g] : oplog'[g] = (j + 1)..rowVersion[g]
    <3>1. CASE last[g] <= k
      <4>1. oplog'[g] = (k + 1)..rowVersion[g]
        BY <2>4, <2>5, <3>1
      <4> QED BY <2>5, <4>1
    <3>2. CASE last[g] > k /\ last[g] <= rowVersion[g]
      <4>1. oplog'[g] = (last[g] + 1)..rowVersion[g] /\ last[g] \in 0..rowVersion[g]
        BY <2>4, <2>5, <3>2
      <4> QED BY <4>1
    <3>3. CASE last[g] > rowVersion[g]
      <4>1. oplog'[g] = (rowVersion[g] + 1)..rowVersion[g]
        BY <2>4, <2>5, <3>3
      <4>2. rowVersion[g] \in 0..rowVersion[g]
        BY <2>5
      <4> QED BY <4>1, <4>2
    <3> QED BY <2>4, <2>5, <3>1, <3>2, <3>3
  <2> QED BY <1>a, <1>b, <2>2, <2>6 DEF v
<1>2. CASE Writes(p) /\ (Calm \/ job[p].file # g)
  <2>1. /\ heap'[WarmCopy[g]] = heap[WarmCopy[g]] /\ broadcast'[g] = broadcast[g]
        /\ rowVersion'[g] = rowVersion[g] /\ oplog'[g] = oplog[g]
        /\ Publishing(g)' <=> Publishing(g)
    BY <1>2, OtherFiles
  <2> QED BY <1>a, <1>b, <2>1 DEF v
<1>3. CASE Commits(p) /\ job[p].file = g
  <2>1. /\ heap'[WarmCopy[g]] = Cached(g) /\ broadcast'[g] = broadcast[g]
        /\ rowVersion[g] = v /\ rowVersion'[g] = v + 1 /\ Publishing(g)'
        /\ oplog'[g] = oplog[g] \cup {v + 1}
    BY <1>3, OwnFile DEF v
  <2>2. PICK k \in 0..v : oplog[g] = (k + 1)..v
    BY <1>b, <2>1
  <2>3. oplog'[g] = (k + 1)..(v + 1)
    BY <1>a, <2>1, <2>2
  <2>4. k \in 0..(v + 1)
    BY <1>a, <2>2
  <2>5. \E j \in 0..rowVersion'[g] : oplog'[g] = (j + 1)..rowVersion'[g]
    BY <2>1, <2>3, <2>4
  <2> QED BY <1>b, <2>1, <2>5 DEF v
<1>4. CASE Sends(p) /\ job[p].file = g
  <2>1. /\ heap'[WarmCopy[g]].version = v + 1 /\ heap'[WarmCopy[g]].text = Complete(v + 1)
        /\ broadcast'[g] = Append(broadcast[g], v + 1)
        /\ rowVersion[g] = v + 1 /\ rowVersion'[g] = v + 1 /\ oplog'[g] = oplog[g]
        /\ ~Publishing(g)'
    BY <1>4, OwnFile DEF v
  <2>2. Len(broadcast'[g]) = v + 1
    BY <1>a, <1>b, <2>1
  <2> QED BY <1>b, <2>1, <2>2
<1>5. CASE (Stores(p) \/ Records(p)) /\ job[p].file = g
  <2>1. /\ heap'[WarmCopy[g]].version = v /\ heap'[WarmCopy[g]].text = Complete(v)
        /\ broadcast'[g] = broadcast[g]
        /\ rowVersion[g] = v /\ rowVersion'[g] = v /\ oplog'[g] = oplog[g]
        /\ ~Publishing(g)'
    BY <1>5, <1>b, OwnFile DEF v
  <2> QED BY <1>b, <2>1
<1> QED BY <1>1, <1>2, <1>3, <1>4, <1>5 DEF Writes

LEMMA InOrderStep ==
  ASSUME Warm, TypeOK, VersionInv, BroadcastInOrder, NEW p \in Procs, Writes(p) \/ Purges
  PROVE  BroadcastInOrder'
<1> SUFFICES ASSUME NEW g \in Files, NEW i \in DOMAIN broadcast'[g]
             PROVE  broadcast'[g][i] = i
  BY DEF BroadcastInOrder
<1>a. /\ broadcast[g] \in Seq(Nat) /\ Cached(g).version \in Nat
      /\ Len(broadcast[g]) = Cached(g).version
      /\ \A j \in DOMAIN broadcast[g] : broadcast[g][j] = j
  BY CopyOf DEF TypeOK, VersionInv, BroadcastInOrder
<1>1. CASE broadcast'[g] = broadcast[g]
  BY <1>1, <1>a
<1>2. CASE broadcast'[g] = Append(broadcast[g], Cached(g).version + 1)
  BY <1>2, <1>a
<1>3. CASE Writes(p) /\ (Calm \/ job[p].file # g)
  BY <1>1, <1>3, OtherFiles
<1>4. CASE Writes(p) /\ ~Calm /\ job[p].file = g
  BY <1>1, <1>2, <1>4, OwnFile DEF Writes
<1>5. CASE Purges
  BY <1>1, <1>5 DEF Purges
<1> QED BY <1>3, <1>4, <1>5

\* What counts as stored stays so while the copy stays, and when it is stored.
LEMMA StillAllBut ==
  ASSUME Warm, TypeOK, VersionInv, NEW p \in Procs, Writes(p), NEW f \in Files,
         NEW n \in Nat, AllBut(f, n), ~Publishing(f)
  PROVE  /\ AllBut(f, n)'
         /\ heap'[WarmCopy[f]].version = Cached(f).version
<1> DEFINE v == Cached(f).version
<1>a. v \in Nat /\ Cached(f) = heap[WarmCopy[f]]
  BY CopyOf
<1>b. PICK d \in 0..v : disk[f] = Complete(d) /\ v <= d + n
  BY DEF AllBut
<1>1. /\ heap'[WarmCopy[f]].version = v
      /\ disk'[f] = disk[f] \/ disk'[f] = Complete(v)
  <2>1. CASE Calm \/ job[p].file # f
    BY <2>1, OtherFiles DEF Cached
  <2>2. CASE ~Calm /\ job[p].file = f
    BY <2>2, OwnFile DEF Writes
  <2> QED BY <2>1, <2>2
<1> HIDE DEF v
<1>2. \E e \in 0..v : disk'[f] = Complete(e) /\ v <= e + n
  <2>1. CASE disk'[f] = disk[f]
    BY <1>b, <2>1
  <2>2. CASE disk'[f] = Complete(v)
    <3>1. v \in 0..v /\ v <= v + n
      BY <1>a
    <3> QED BY <2>2, <3>1
  <2> QED BY <1>1, <2>1, <2>2
<1> QED BY <1>1, <1>2 DEF AllBut, Cached, Complete, v

LEMMA StoredStep ==
  ASSUME Warm, TypeOK, VersionInv, StoredInv, NEW p \in Procs, Writes(p) \/ Purges
  PROVE  StoredInv'
<1> SUFFICES ASSUME NEW g \in Files
             PROVE  LET new == heap'[WarmCopy[g]] IN
                    /\ \E d \in 0..new.version :
                         disk'[g] = Complete(d) /\ new.version <= d + new.pending
                    /\ new.pending = 0 => rowHash'[g] = Complete(new.version)
  BY DEF StoredInv, AllBut, Cached, Complete
<1> DEFINE v == Cached(g).version
           n == Cached(g).pending
<1>a. Cached(g) = heap[WarmCopy[g]] /\ v \in Nat /\ n \in Nat
  BY CopyOf
<1>b. PICK d \in 0..v : disk[g] = Complete(d) /\ v <= d + n
  BY DEF StoredInv, AllBut
<1>c. n = 0 => rowHash[g] = Complete(v)
  BY DEF StoredInv
<1> HIDE DEF v, n
<1>1. CASE /\ heap'[WarmCopy[g]] = heap[WarmCopy[g]] /\ disk'[g] = disk[g]
           /\ rowHash'[g] = rowHash[g]
  BY <1>1, <1>a, <1>b, <1>c DEF v, n
<1>2. CASE Sends(p) /\ job[p].file = g
  <2>1. /\ heap'[WarmCopy[g]].version = v + 1 /\ heap'[WarmCopy[g]].pending = n + 1
        /\ disk'[g] = disk[g]
    BY <1>2, OwnFile DEF v, n
  <2>2. d \in 0..(v + 1) /\ v + 1 <= d + (n + 1) /\ n + 1 # 0
    BY <1>a, <1>b
  <2> QED BY <1>b, <2>1, <2>2
<1>3. CASE Stores(p) /\ job[p].file = g
  <2>1. /\ heap'[WarmCopy[g]] = Cached(g) /\ disk'[g] = Complete(v)
        /\ rowHash'[g] = rowHash[g]
    BY <1>3, OwnFile DEF v
  <2>2. v \in 0..v /\ v <= v + n
    BY <1>a
  <2> QED BY <1>c, <2>1, <2>2 DEF v, n
<1>4. CASE Records(p) /\ job[p].file = g
  <2>1. /\ heap'[WarmCopy[g]].version = v /\ heap'[WarmCopy[g]].pending = 0
        /\ disk'[g] = Complete(v) /\ rowHash'[g] = Complete(v)
    BY <1>4, OwnFile DEF v
  <2>2. v \in 0..v /\ v <= v + 0
    BY <1>a
  <2> QED BY <2>1, <2>2
<1>5. CASE Writes(p) /\ (Calm \/ job[p].file # g)
  BY <1>1, <1>5, OtherFiles
<1>6. CASE Commits(p) /\ job[p].file = g
  BY <1>1, <1>6, <1>a, OwnFile
<1>7. CASE Purges
  BY <1>1, <1>7 DEF Purges
<1> QED BY <1>2, <1>3, <1>4, <1>5, <1>6, <1>7 DEF Writes

-------------------------------------------------------------------------------
(* One goroutine acts *)

Acts(p) ==
  \/ p \in Clients /\ HandlerMoves(p)
  \/ p = Ticker /\ TickerMoves
  \/ FlushMoves(p)
  \/ p \in Readers /\ DownloadMoves(p)

\* What holds while the server runs.
RunsInv ==
  /\ TypeOK /\ StandsInv /\ VersionInv /\ StoredInv /\ JobsInv
  /\ BroadcastInOrder /\ DownloadCoversVersion

LEMMA CacheStays ==
  ASSUME NEW p \in Procs, Acts(p)
  PROVE  cache' = cache /\ (failures' = failures \/ failures' = failures + 1)
<1>1. CASE HandlerMoves(p)
  BY <1>1 DEF HandlerMoves, ReceiveChunk, TransformStaleChunks, PersistChunkOperation,
              PersistFails, PersistCancelled, Publish, Fault, mem, env
<1>2. CASE TickerMoves
  BY <1>2 DEF TickerMoves, ProcessFile, SkipFile, StartFlush, CreateFileSnapshot,
              SnapshotCancelled, Fault, mem, env
<1>3. CASE FlushMoves(p)
  BY <1>3 DEF FlushMoves, FlushStep, StageObject, CopyContent, RenameObject, UpdateFileHash, FlushFails,
              HashCancelled, Fault, mem, env
<1>4. CASE DownloadMoves(p)
  BY <1>4 DEF DownloadMoves, RequestFile, DownloadStep, LookUpCopy, LockForRead, ReplyFile,
              Fault, mem, env
<1> QED BY <1>1, <1>2, <1>3, <1>4 DEF Acts

LEMMA TypeActs ==
  ASSUME Warm, TypeOK, StandsInv, NEW p \in Procs, Acts(p)
  PROVE  TypeOK'
<1>a. job \in [Procs -> JobRecord] /\ owner \in [Copies -> Procs \cup {NoProc}]
  BY DEF TypeOK
<1>1. ASSUME NEW c \in Clients, PersistCancelled(c) PROVE TypeOK'
  <2>1. /\ job' \in [Procs -> JobRecord] /\ owner' \in [Copies -> Procs \cup {NoProc}]
    BY <1>1, <1>a, IdleType DEF PersistCancelled, Finish, Release
  <2> QED BY <1>1, <2>1 DEF TypeOK, PersistCancelled, db, store, env
<1>2. CASE SnapshotCancelled
  <2>1. job' = [job EXCEPT ![Ticker] = [job[Ticker] EXCEPT !.pc = "stage"]]
    BY <1>2, <1>a DEF SnapshotCancelled, Goto
  <2>2. job' \in [Procs -> JobRecord]
    BY <1>a, <2>1, ProcType, PcType, JobType
  <2> QED BY <1>2, <2>2 DEF TypeOK, SnapshotCancelled, db, store, mem, env
<1>3. CASE HashCancelled(p)
  <2>1. /\ job' \in [Procs -> JobRecord] /\ owner' \in [Copies -> Procs \cup {NoProc}]
    BY <1>3, <1>a, AfterFlushType DEF HashCancelled
  <2> QED BY <1>3, <2>1 DEF TypeOK, HashCancelled, db, store, env
<1>4. CASE Next
  BY <1>4, StandsMutex, TypeStep
<1> QED BY <1>1, <1>2, <1>3, <1>4
    DEF Acts, HandlerMoves, TickerMoves, FlushMoves, DownloadMoves, Next, HandlerStep, TickerStep

LEMMA ActsDo ==
  ASSUME Warm, RunsInv, NEW p \in Procs, Acts(p)
  PROVE  /\ Alone(p) /\ StandsAt(p)' /\ JobInv(p)' /\ Writes(p)
         /\ TempKept(p)
         /\ reply' = reply \/ \E r \in Readers : ReplyFile(r)
<1> USE DEF RunsInv
<1>1. CASE p \in Clients /\ HandlerMoves(p)
  BY <1>1, HandlerActs, HandlerWrites DEF TempKept
<1>2. CASE p = Ticker /\ TickerMoves
  BY <1>2, TickerActs, OthersWrite DEF Writes, TempKept
<1>3. CASE FlushMoves(p)
  <2>1. Alone(p) /\ StandsAt(p)' /\ JobInv(p)'
    BY <1>3, FlushActs
  <2>2. Writes(p) /\ reply' = reply /\ TempKept(p)
    BY <1>3, <2>1, FlushWrites
  <2>3. job[p].pc \in Locked
    BY <1>3, FlushingIs DEF Flushing, Locked
  <2> QED BY <2>1, <2>2, <2>3
<1>4. CASE p \in Readers /\ DownloadMoves(p)
  BY <1>4, DownloadActs, OthersWrite DEF Writes, TempKept
<1> QED BY <1>1, <1>2, <1>3, <1>4 DEF Acts

LEMMA StandsStep ==
  ASSUME Warm, TypeOK, StandsInv, VersionInv, NEW p \in Procs,
         Alone(p), StandsAt(p)', Writes(p), cache' = cache
  PROVE  StandsInv'
<1>1. ASSUME NEW f \in Files PROVE heap'[WarmCopy[f]].file = f
  <2>1. Cached(f).file = f
    BY DEF StandsInv
  <2> QED BY <2>1, Onward
<1>2. ASSUME NEW q \in Procs, q # p PROVE StandsAt(q)'
  <2>1. StandsAt(q) /\ job'[q] = job[q]
    BY <1>2 DEF StandsInv, Alone
  <2>2. ASSUME job[q].pc \in Locked PROVE owner'[job[q].cell] = q
    <3>1. job[q].pc \notin {"idle", "get"}
      BY <2>2 DEF Locked
    <3>2. job[q].cell \in Copies /\ owner[job[q].cell] = q
      BY <2>1, <2>2, <3>1, Works DEF StandsAt
    <3>3. q # NoProc
      BY ProcsAssumption
    <3> QED BY <1>2, <3>2, <3>3 DEF Alone
  <2> QED BY <2>1, <2>2 DEF StandsAt
<1>3. cache' = WarmCopy
  BY DEF StandsInv
<1> QED BY <1>1, <1>2, <1>3 DEF StandsInv, Cached

LEMMA JobKept ==
  ASSUME Warm, TypeOK, StandsInv, VersionInv, NEW p \in Procs, Alone(p), Writes(p),
         TempKept(p),
         NEW q \in Procs, q # p, JobInv(q)
  PROVE  JobInv(q)'
<1> DEFINE f == job[q].file
           v == Cached(f).version
<1>a. StandsAt(q) /\ job'[q] = job[q] /\ job[q] \in JobRecord
  BY DEF StandsInv, Alone, TypeOK
<1>b. job[q].pc # "idle" => f \in Files
  BY <1>a DEF StandsAt
<1>1. CASE job[q].pc \in Locked
  <2>1. f \in Files
    BY <1>1, <1>b DEF Locked
  <2>2. ~(job[p].pc \in Locked /\ job[p].file = f)
    BY <1>1, OneHolder
  <2>3. Calm \/ job[p].file # f
    BY <2>2 DEF Writes, Commits, Sends, Stores, Records, Locked
  <2>4. /\ heap'[WarmCopy[f]] = heap[WarmCopy[f]] /\ disk'[f] = disk[f]
        /\ rowVersion'[f] = rowVersion[f] /\ tmp'[f] = tmp[f]
    BY <2>1, <2>2, <2>3, OtherFiles DEF TempKept
  <2>5. fd'[q] = fd[q]
    <3>1. heap[Flushed(q)].file = f
      BY <1>1, <1>a, Works DEF Locked, StandsAt, Flushed
    <3> QED BY <2>2, <3>1 DEF TempKept
  <2> QED BY <1>1, <1>a, <2>4, <2>5 DEF JobInv, Cached, Complete, Locked, Flushing
<1>2. CASE job[q].pc \in {"get", "lock"}
  <2>1. f \in Files
    BY <1>2, <1>b
  <2>2. rowVersion'[f] \in {rowVersion[f], rowVersion[f] + 1}
    BY <2>1, Onward
  <2>3. job[q].seen \in Nat /\ rowVersion[f] \in Nat /\ job[q].seen <= rowVersion[f]
    BY <1>2, <1>a, <2>1, CopyOf DEF JobInv, JobRecord
  <2>4. job'[q].seen <= rowVersion'[job'[q].file]
    BY <1>a, <2>2, <2>3
  <2> QED BY <1>2, <1>a, <2>4 DEF JobInv, Flushing
<1>3. CASE job[q].pc = "object"
  <2>1. f \in Files /\ v \in Nat /\ job[q].seen \in Nat
    BY <1>3, <1>a, <1>b, CopyOf DEF JobRecord
  <2>2. PICK d \in job[q].seen..v : disk[f] = Complete(d)
    BY <1>3, <1>a DEF JobInv
  <2>3. /\ heap'[WarmCopy[f]].version \in {v, v + 1}
        /\ disk'[f] = disk[f] \/ disk'[f] = Complete(v)
    BY <2>1, Onward
  <2> HIDE DEF v
  <2>4. /\ d \in job[q].seen..heap'[WarmCopy[f]].version
        /\ v \in job[q].seen..heap'[WarmCopy[f]].version
    BY <2>1, <2>2, <2>3
  <2>5. \E e \in job[q].seen..heap'[WarmCopy[f]].version : disk'[f] = Complete(e)
    BY <2>2, <2>3, <2>4
  <2>6. \E e \in job'[q].seen..heap'[WarmCopy[job'[q].file]].version :
          disk'[job'[q].file] = Complete(e)
    BY <1>a, <2>5
  <2> QED BY <1>3, <1>a, <2>6 DEF JobInv, Cached, Complete, Flushing
<1>4. CASE job[q].pc \notin Locked \cup {"get", "lock", "object"}
  BY <1>4, <1>a DEF JobInv, Locked, Flushing
<1> QED BY <1>1, <1>2, <1>3, <1>4

LEMMA CoversStep ==
  ASSUME Warm, TypeOK, StandsInv, VersionInv, JobsInv, DownloadCoversVersion,
         NEW p \in Procs, Writes(p) \/ Purges,
         reply' = reply \/ \E r \in Readers : ReplyFile(r)
  PROVE  DownloadCoversVersion'
<1>a. ASSUME NEW g \in Files
      PROVE  /\ rowVersion[g] \in Nat
             /\ rowVersion'[g] \in {rowVersion[g], rowVersion[g] + 1}
  BY Onward, CopyOf DEF Purges
<1>b. reply \in [Readers -> [file : Files \cup {NoFile}, version : Nat, text : SUBSET Nat]]
  BY DEF TypeOK
<1> SUFFICES ASSUME NEW r \in Readers, reply'[r].file # NoFile
             PROVE  \E v \in reply'[r].version..rowVersion'[reply'[r].file] :
                      reply'[r].text = Complete(v)
  BY DEF DownloadCoversVersion, Complete
<1>1. CASE reply'[r] = reply[r]
  <2>1. /\ reply[r].file \in Files /\ reply[r].version \in Nat
    BY <1>1, <1>b
  <2>2. PICK v \in reply[r].version..rowVersion[reply[r].file] : reply[r].text = Complete(v)
    BY <1>1 DEF DownloadCoversVersion
  <2>3. v \in reply[r].version..rowVersion'[reply[r].file]
    BY <1>a, <2>1, <2>2
  <2> QED BY <1>1, <2>2, <2>3
<1>2. ASSUME NEW s \in Readers, ReplyFile(s), reply'[r] # reply[r]
      PROVE  \E v \in reply'[r].version..rowVersion'[reply'[r].file] :
               reply'[r].text = Complete(v)
  <2>1. /\ reply' = [reply EXCEPT ![s] = [file |-> job[s].file, version |-> job[s].seen,
                                          text |-> disk[job[s].file]]]
        /\ job[s].pc = "object"
    BY <1>2 DEF ReplyFile, At
  <2>2. /\ reply'[r].file = job[s].file /\ reply'[r].version = job[s].seen
        /\ reply'[r].text = disk[job[s].file]
    BY <1>2, <1>b, <2>1
  <2>3. s \in Procs /\ JobInv(s) /\ StandsAt(s) /\ job[s] \in JobRecord
    BY ProcType DEF JobsInv, StandsInv, TypeOK
  <2>4. /\ job[s].file \in Files /\ job[s].seen \in Nat
        /\ Cached(job[s].file).version \in Nat
    BY <2>1, <2>3, CopyOf DEF StandsAt, JobRecord
  <2>5. PICK d \in job[s].seen..Cached(job[s].file).version : disk[job[s].file] = Complete(d)
    BY <2>1, <2>3 DEF JobInv
  <2>6. Cached(job[s].file).version <= rowVersion[job[s].file]
    BY <2>4 DEF VersionInv
  <2>7. d \in job[s].seen..rowVersion'[job[s].file]
    BY <1>a, <2>4, <2>5, <2>6
  <2> QED BY <2>2, <2>5, <2>7
<1> QED BY <1>1, <1>2

\* What holds while the server runs goes on holding, whoever acts.
LEMMA RunsStep ==
  ASSUME Warm, RunsInv, NEW p \in Procs, Acts(p)
  PROVE  RunsInv'
<1>1. /\ Alone(p) /\ StandsAt(p)' /\ JobInv(p)' /\ Writes(p)
      /\ TempKept(p)
      /\ reply' = reply \/ \E r \in Readers : ReplyFile(r)
  BY ActsDo
<1>2. cache' = cache
  BY CacheStays
<1> USE DEF RunsInv
<1>3. TypeOK'
  BY TypeActs
<1>4. StandsInv'
  BY <1>1, <1>2, StandsStep
<1>5. VersionInv' /\ BroadcastInOrder' /\ StoredInv'
  BY <1>1, VersionStep, InOrderStep, StoredStep
<1>6. JobsInv'
  <2>1. ASSUME NEW q \in Procs, q # p PROVE JobInv(q)'
    <3>1. JobInv(q)
      BY DEF JobsInv
    <3> QED BY <1>1, <2>1, <3>1, JobKept
  <2> QED BY <1>1, <2>1 DEF JobsInv
<1>7. DownloadCoversVersion'
  BY <1>1, CoversStep
<1> QED BY <1>3, <1>4, <1>5, <1>6, <1>7

LEMMA RunsPurge ==
  ASSUME Warm, RunsInv, PurgeCache
  PROVE  RunsInv'
<1>1. /\ Purges /\ UNCHANGED <<tmp, fd>> /\ reply' = reply /\ job' = job /\ owner' = owner
      /\ cache' = cache
  BY SizesAssumption, PurgeWrites
<1>2. heap' = heap /\ disk' = disk /\ rowVersion' = rowVersion
  BY <1>1 DEF Purges
<1> USE DEF RunsInv
<1>3. TypeOK'
  <2>1. [Next]_vars
    BY DEF Next
  <2> QED BY <2>1, StandsMutex, TypeStep
<1>4. StandsInv'
  BY <1>1, <1>2 DEF StandsInv, StandsAt, Cached
<1>5. VersionInv' /\ BroadcastInOrder' /\ StoredInv'
  BY <1>1, ProcType, VersionStep, InOrderStep, StoredStep
<1>6. JobsInv'
  BY <1>1, <1>2 DEF JobsInv, JobInv, Cached, Complete
<1>7. DownloadCoversVersion'
  BY <1>1, ProcType, CoversStep
<1> QED BY <1>3, <1>4, <1>5, <1>6, <1>7

-------------------------------------------------------------------------------
(* The ticker's last pass and the end *)

\* What the last pass has done with stays so, unless a handler commits.
LEMMA SettledStays ==
  ASSUME Warm, TypeOK, VersionInv, SizesAssumption, NEW p \in Procs, Writes(p), ~Commits(p),
         NEW f \in Files, ~Publishing(f), failures' = failures \/ failures' = failures + 1
  PROVE  /\ ~Publishing(f)'
         /\ Settled(f) => Settled(f)'
<1>1. ~Publishing(f)'
  <2>1. CASE Calm \/ job[p].file # f
    BY <2>1, OtherFiles
  <2>2. CASE ~Calm /\ job[p].file = f
    BY <2>2, OwnFile DEF Writes
  <2> QED BY <2>1, <2>2
<1>2. failures' = 0 => failures = 0
  BY DEF TypeOK
<1>3. MinChangesThreshold \in Nat
  BY DEF SizesAssumption
<1>4. AllBut(f, MinChangesThreshold) => AllBut(f, MinChangesThreshold)'
  BY <1>3, StillAllBut
<1> QED BY <1>1, <1>2, <1>4 DEF Settled

\* The ticker goes on with its file or has done with it.
LEMMA TickerLeaves ==
  ASSUME Warm, RunsInv, Acts(Ticker), job[Ticker].pc # "idle"
  PROVE  \/ job'[Ticker].pc # "idle" /\ job'[Ticker].file = job[Ticker].file
         \/ Settled(job[Ticker].file) /\ ~Commits(Ticker)
         \/ ~Publishing(job[Ticker].file) /\ ~Commits(Ticker) /\ failures' # 0
<1> DEFINE f == job[Ticker].file
           v == Cached(f).version
<1> USE DEF RunsInv
<1>a. /\ Ticker \in Procs /\ StandsAt(Ticker) /\ JobInv(Ticker)
      /\ job \in [Procs -> JobRecord] /\ job[Ticker] \in JobRecord
  BY ProcType DEF TypeOK, StandsInv, JobsInv
<1>b. Ticker \notin Clients /\ Ticker \notin Readers
  BY ProcsAssumption
<1>c. /\ job[Ticker].pc \in {"lock", "snapshot"} \cup Flushing
      /\ ~Commits(Ticker)
  BY <1>a DEF StandsAt, Commits, Flushing
<1>d. /\ f \in Files /\ job[Ticker].cell = WarmCopy[f]
      /\ heap[job[Ticker].cell] = Cached(f)
  BY <1>a, <1>c, Works DEF Flushing
<1>e. /\ v \in Nat /\ Cached(f).pending \in Nat /\ MinChangesThreshold \in Nat
      /\ failures \in Nat
  BY <1>d, CopyOf, SizesAssumption DEF TypeOK
<1>1. CASE SkipFile
  <2>1. Free(job[Ticker].cell) /\ Cached(f).pending <= MinChangesThreshold
    BY <1>1, <1>d DEF SkipFile
  <2>2. ~Publishing(f)
    BY <1>d, <2>1, FreeOfHolders
  <2>3. PICK d \in 0..v : disk[f] = Complete(d) /\ v <= d + Cached(f).pending
    BY <1>d DEF StoredInv, AllBut
  <2>4. v <= d + MinChangesThreshold
    BY <1>e, <2>1, <2>3
  <2>5. AllBut(f, MinChangesThreshold)
    BY <2>3, <2>4 DEF AllBut
  <2> QED BY <1>c, <2>2, <2>5 DEF Settled
<1>2. CASE StartFlush \/ CreateFileSnapshot \/ SnapshotCancelled
           \/ StageObject(Ticker) \/ CopyContent(Ticker) \/ RenameObject(Ticker)
  <2>1. \E s \in {"snapshot", "stage", "write", "rename", "hash"} :
          job' = [job EXCEPT ![Ticker].pc = s]
    BY <1>2 DEF StartFlush, CreateFileSnapshot, SnapshotCancelled, StageObject,
                CopyContent, RenameObject, Goto
  <2>2. job'[Ticker].pc # "idle" /\ job'[Ticker].file = f
    BY <1>a, <2>1 DEF JobRecord
  <2> QED BY <2>2
<1>3. CASE job[Ticker].pc = "hash"
  <2>1. disk[f] = Complete(v)
    BY <1>3, <1>a DEF JobInv
  <2>2. ~Publishing(f)
    BY <1>3, <1>a, NoPublisher DEF Locked
  <2>3. v \in 0..v /\ v <= v + MinChangesThreshold
    BY <1>e
  <2>4. AllBut(f, MinChangesThreshold)
    BY <2>1, <2>3 DEF AllBut
  <2> QED BY <1>c, <2>2, <2>4 DEF Settled
<1>4. CASE FlushFails(Ticker) /\ job[Ticker].pc # "hash"
  <2>1. ~Publishing(f)
    BY <1>4, <1>a, NoPublisher DEF FlushFails, CopyFails, At, Locked
  <2>2. heap[Flushed(Ticker)].file = f
    BY <1>4, <1>a, FlushingIs DEF FlushMoves, FlushStep
  <2>3. CASE Fault
    <3>1. failures' # 0
      BY <1>e, <2>3 DEF Fault
    <3> QED BY <1>c, <2>1, <3>1
  <2>4. CASE ~Fault
    <3>1. job[Ticker].pc = "rename" /\ tmp[f] = NoText
      BY <1>4, <2>2, <2>4 DEF FlushFails, At
    <3>2. tmp[f] = Complete(v)
      BY <1>a, <3>1 DEF JobInv
    <3> QED BY <1>e, <3>1, <3>2, CompleteOrder
  <2> QED BY <2>3, <2>4
<1>5. ~(\E g \in Files : ProcessFile(g))
  BY <1>c DEF ProcessFile, At, Flushing
<1>6. UpdateFileHash(Ticker) \/ HashCancelled(Ticker) => job[Ticker].pc = "hash"
  BY DEF UpdateFileHash, HashCancelled, At
<1> QED BY <1>1, <1>2, <1>3, <1>4, <1>5, <1>6, <1>b
    DEF Acts, TickerMoves, FlushMoves, FlushStep

\* In the last pass nothing is committed, and the ticker takes up the files it
\* crosses off.
LEMMA ClosingMoves ==
  ASSUME Warm, TypeOK, StandsInv, [NextAll]_all, phase = "closing", phase' = "closing"
  PROVE  /\ rowVersion' = rowVersion
         /\ \/ toVisit' = toVisit
            \/ \E g \in Files : ProcessFile(g) /\ toVisit' = toVisit \ {g}
<1>1. CASE Beside(GoOn)
  <2>1. toVisit' = toVisit
    BY <1>1 DEF Beside
  <2>2. rowVersion' = rowVersion
    BY <1>1 DEF Beside, GoOn, LoaderDo, ReadObject, CacheAdd, EvictLock, LoadDone, ProcessFile,
                TransformStaleChunks, Publish, SkipFile, StartFlush, StageObject,
                CopyContent, RenameObject, FlushFails, DownloadStep, LookUpCopy, LockForRead,
                ReplyFile, db
  <2> QED BY <2>1, <2>2
<1>2. CASE Beside(Fail)
  BY <1>2 DEF Beside, Fail, LoadCancelled, PersistCancelled, SnapshotCancelled,
              HashCancelled, db
<1>3. ASSUME NEW g \in Files, VisitLast(g)
      PROVE  rowVersion' = rowVersion /\ ProcessFile(g) /\ toVisit' = toVisit \ {g}
  <2>1. cache[g] # NoCopy
    BY CopyOf, ProcsAssumption DEF StandsInv
  <2> QED BY <1>3, <2>1 DEF VisitLast, ProcessFile, db
<1>4. ~Beside(Serve) /\ ~Signal /\ ~Cancel /\ ~LastPass /\ ~Exit
  BY DEF Beside, Serve, Serving, Signal, Cancel, LastPass, Exit
<1>5. CASE Gone \/ UNCHANGED all
  BY <1>5 DEF Gone, all, vars, db
<1> QED BY <1>1, <1>2, <1>3, <1>4, <1>5 DEF NextAll, Close

\* What the runs' invariant says of a step of the whole server.
LEMMA ServerStep ==
  ASSUME Warm, RunsInv, [NextAll]_all, phase' # "exited"
  PROVE  /\ RunsInv'
         /\ \/ UNCHANGED vars
            \/ \E p \in Procs : Acts(p)
            \/ PurgeCache
<1>1. ~Exit
  BY DEF Exit
<1>2. \/ UNCHANGED vars
      \/ \E p \in Procs : Acts(p)
      \/ PurgeCache
  <2>1. ASSUME NEW p \in Procs,
               \/ p \in Clients /\ HandlerMoves(p)
               \/ p = Ticker /\ TickerMoves
               \/ FlushMoves(p)
               \/ p \in Readers /\ DownloadMoves(p)
        PROVE  \E q \in Procs : Acts(q)
    BY <2>1 DEF Acts
  <2>2. \/ UNCHANGED vars
        \/ \E c \in Clients : HandlerMoves(c)
        \/ TickerMoves
        \/ \E p \in Procs : FlushMoves(p)
        \/ \E r \in Readers : DownloadMoves(r)
        \/ PurgeCache
    BY <1>1, Moves DEF RunsInv
  <2> QED BY <2>1, <2>2, ProcType
<1>3. CASE UNCHANGED vars
  <2>1. /\ rowVersion' = rowVersion /\ rowHash' = rowHash /\ oplog' = oplog
        /\ disk' = disk /\ UNCHANGED <<tmp, fd>> /\ heap' = heap /\ cache' = cache /\ owner' = owner
        /\ job' = job /\ broadcast' = broadcast /\ reply' = reply
    BY <1>3 DEF vars, db, store, mem, env
  <2> USE DEF RunsInv
  <2>2. TypeOK'
    BY <1>3 DEF TypeOK, vars, db, store, mem, env
  <2>3. StandsInv'
    BY <2>1 DEF StandsInv, StandsAt, Cached
  <2>4. VersionInv' /\ BroadcastInOrder'
    BY <2>1 DEF VersionInv, Publishing, At, Cached, Complete, BroadcastInOrder
  <2>5. StoredInv'
    BY <2>1 DEF StoredInv, AllBut, Cached, Complete
  <2>6. JobsInv' /\ DownloadCoversVersion'
    BY <2>1 DEF JobsInv, JobInv, Cached, Complete, DownloadCoversVersion
  <2> QED BY <1>3, <2>2, <2>3, <2>4, <2>5, <2>6
<1> QED BY <1>2, <1>3, RunsStep, RunsPurge

LEMMA SettledStep ==
  ASSUME Warm, RunsInv, SettledInv, [NextAll]_all, phase' # "exited"
  PROVE  SettledInv'
<1> SUFFICES ASSUME phase' = "closing", NEW f \in Files
             PROVE  \/ f \in toVisit'
                    \/ job'[Ticker].pc # "idle" /\ job'[Ticker].file = f
                    \/ Settled(f)'
  BY DEF SettledInv, At
<1>a. /\ Ticker \in Procs /\ StandsAt(Ticker) /\ job \in [Procs -> JobRecord]
      /\ TypeOK /\ StandsInv /\ VersionInv
  BY ProcType DEF RunsInv, TypeOK, StandsInv
<1>1. CASE phase # "closing"
  <2>1. LastPass
    BY <1>1 DEF NextAll, Beside, Signal, Cancel, Close, LastPass, VisitLast, Exit, Gone, all
  <2>2. cache[f] # NoCopy
    BY <1>a, CopyOf, ProcsAssumption DEF StandsInv
  <2> QED BY <2>1, <2>2 DEF LastPass
<1>2. CASE phase = "closing"
  <2>1. /\ rowVersion' = rowVersion
        /\ \/ toVisit' = toVisit
           \/ \E g \in Files : ProcessFile(g) /\ toVisit' = toVisit \ {g}
    BY <1>2, <1>a, ClosingMoves
  <2>2. CASE f \in toVisit
    <3>1. ASSUME ProcessFile(f) PROVE job'[Ticker].pc # "idle" /\ job'[Ticker].file = f
      BY <3>1, <1>a DEF ProcessFile, Idle
    <3> QED BY <2>1, <2>2, <3>1
  <2>3. \/ UNCHANGED vars
        \/ \E p \in Procs : Acts(p)
        \/ PurgeCache
    BY ServerStep
  <2>4. CASE UNCHANGED vars \/ PurgeCache
    <3>1. /\ job' = job /\ heap' = heap /\ disk' = disk /\ failures' = failures
      BY <2>4 DEF PurgeCache, vars, store, mem, env
    <3>2. Settled(f) => Settled(f)'
      BY <3>1 DEF Settled, Publishing, At, AllBut, Cached, Complete
    <3> QED BY <1>2, <2>2, <3>1, <3>2 DEF SettledInv, At
  <2>5. ASSUME NEW p \in Procs, Acts(p)
        PROVE  \/ f \in toVisit'
               \/ job'[Ticker].pc # "idle" /\ job'[Ticker].file = f
               \/ Settled(f)'
    <3>1. Writes(p) /\ Alone(p)
      BY <2>5, ActsDo
    <3>2. failures' = failures \/ failures' = failures + 1
      BY <2>5, CacheStays
    <3>3. ~Commits(p)
      <4>1. Commits(p) => job[p].file \in Files
        BY DEF Commits
      <4>2. ASSUME Commits(p) PROVE FALSE
        <5>1. /\ rowVersion'[job[p].file] = Cached(job[p].file).version + 1
              /\ rowVersion[job[p].file] = Cached(job[p].file).version
              /\ Cached(job[p].file).version \in Nat
          BY <1>a, <4>1, <4>2, OwnFile, CopyOf
        <5> QED BY <2>1, <5>1
      <4> QED BY <4>2
    <3>4. Settled(f) => Settled(f)'
      BY <1>a, <3>1, <3>2, <3>3, SettledStays, SizesAssumption DEF Settled
    <3>5. CASE job[Ticker].pc # "idle" /\ job[Ticker].file = f
      <4>1. CASE p # Ticker
        BY <1>a, <3>1, <3>5, <4>1 DEF Alone
      <4>2. CASE p = Ticker
        <5>1. \/ job'[Ticker].pc # "idle" /\ job'[Ticker].file = f
              \/ Settled(f)
              \/ ~Publishing(f) /\ failures' # 0
          BY <2>5, <3>5, <4>2, TickerLeaves
        <5>2. ~Publishing(f) => ~Publishing(f)'
          BY <1>a, <3>1, <3>2, <3>3, SettledStays, SizesAssumption
        <5> QED BY <3>4, <5>1, <5>2 DEF Settled
      <4> QED BY <4>1, <4>2
    <3> QED BY <1>2, <2>2, <3>4, <3>5 DEF SettledInv, At
  <2> QED BY <2>3, <2>4, <2>5
<1> QED BY <1>1, <1>2

LEMMA ExitStep ==
  ASSUME Warm, RunsInv, SettledInv, Exit
  PROVE  OneCopyInv'
<1>a. /\ TypeOK /\ StandsInv /\ VersionInv
      /\ BroadcastInOrder /\ DownloadCoversVersion
  BY DEF RunsInv
<1>b. /\ phase' = "exited" /\ cache' = [f \in Files |-> NoCopy]
      /\ job' = [p \in Procs |-> Idle]
      /\ rowVersion' = rowVersion /\ disk' = disk /\ failures' = failures
      /\ broadcast' = broadcast /\ reply' = reply
  BY DEF Exit, db, store, env
<1>1. TypeOK'
  <2>1. /\ heap' \in [Copies -> Copy] /\ owner' \in [Copies -> Procs \cup {NoProc}]
        /\ job' \in [Procs -> JobRecord] /\ cache' \in [Files -> Cells]
        /\ flight' \in [Files -> Clients \cup {NoProc}]
    BY IdleType DEF Exit, Copy, Blank, Cells
  <2> QED BY <1>a, <2>1 DEF TypeOK, Exit, db, store, env
<1>2. ASSUME failures = 0, NEW f \in Files
      PROVE  \E d \in 0..rowVersion[f] :
               disk[f] = Complete(d) /\ rowVersion[f] <= d + MinChangesThreshold
  <2>1. Settled(f)
    BY DEF Exit, SettledInv
  <2>2. rowVersion[f] = Cached(f).version
    BY <1>a, <2>1 DEF Settled, VersionInv
  <2> QED BY <1>2, <2>1, <2>2 DEF Settled, AllBut
<1>3. LostInv'
  BY <1>b, <1>2 DEF LostInv, Complete
<1>4. BroadcastInOrder' /\ DownloadCoversVersion'
  BY <1>a, <1>b DEF BroadcastInOrder, DownloadCoversVersion, Complete
<1> QED BY <1>1, <1>3, <1>4, <1>b DEF OneCopyInv, LiveInv, SettledInv

LEMMA GoneStays ==
  ASSUME OneCopyInv, [NextAll]_all, phase = "exited"
  PROVE  OneCopyInv' /\ UNCHANGED all
<1>1. UNCHANGED all
  BY DEF NextAll, Beside, Serve, Serving, GoOn, Cancelled, Fail, LoadCancelled,
         PersistCancelled, SnapshotCancelled, HashCancelled, Signal, Cancel, Close,
         LastPass, VisitLast, Exit, Gone
<1>2. /\ LostInv' /\ BroadcastInOrder' /\ DownloadCoversVersion' /\ phase' = "exited"
  BY <1>1 DEF all, vars, db, store, mem, env, OneCopyInv, LostInv, BroadcastInOrder,
              DownloadCoversVersion, Complete
<1>3. TypeOK'
  BY <1>1 DEF all, vars, db, store, mem, env, OneCopyInv, TypeOK
<1> QED BY <1>1, <1>2, <1>3 DEF OneCopyInv, LiveInv, SettledInv

LEMMA OneCopyStep ==
  ASSUME Warm, OneCopyInv, [NextAll]_all
  PROVE  OneCopyInv'
<1>1. CASE phase = "exited"
  BY <1>1, GoneStays
<1>2. CASE phase # "exited"
  <2>1. RunsInv /\ SettledInv
    BY <1>2 DEF OneCopyInv, LiveInv, RunsInv
  <2>2. CASE Exit
    BY <2>1, <2>2, ExitStep
  <2>3. CASE phase' # "exited"
    BY <2>1, <2>3, ServerStep, SettledStep DEF OneCopyInv, LiveInv, LostInv, RunsInv
  <2>4. phase' = "exited" => Exit
    BY <1>2 DEF NextAll, Beside, Signal, Cancel, Close, LastPass, VisitLast, Gone, all
  <2> QED BY <2>2, <2>3, <2>4
<1> QED BY <1>1, <1>2

LEMMA OneCopyInit ==
  ASSUME Warm, InitAll
  PROVE  OneCopyInv
<1>1. TypeOK /\ CopyInv
  BY TypeInit, MutexCopyInit DEF InitAll
<1>2. ASSUME NEW p \in Procs PROVE job[p] = Idle /\ StandsAt(p) /\ JobInv(p)
  <2>1. job[p].pc = "idle" /\ job[p].cell = NoCopy /\ job[p].victim = NoCopy
    BY DEF InitAll, Init, Idle
  <2> QED BY <2>1 DEF StandsAt, JobInv, Locked, Flushing, InitAll, Init
<1>3. ASSUME NEW f \in Files
      PROVE  /\ Cached(f).file = f /\ Cached(f).version = 0
             /\ Cached(f).text = {} /\ Cached(f).pending = 0
  <2>1. WarmCopy[f] \in Copies
    BY DEF Warm
  <2>2. Cached(f).file = f
    BY <1>1, <2>1 DEF CopyInv, Cached, InitAll, Init
  <2>3. \E g : heap[WarmCopy[f]] = [Blank EXCEPT !.file = g]
    BY <2>1 DEF InitAll, Init, Blank
  <2> QED BY <2>2, <2>3 DEF Cached, Blank
<1>4. StandsInv
  BY <1>2, <1>3 DEF StandsInv, InitAll, Init
<1>5. \A f \in Files : ~Publishing(f)
  BY <1>2, ProcType DEF Publishing, At, Idle
<1>6. Complete(0) = {} /\ (0 + 1)..0 = {} /\ 0 \in 0..0
  BY DEF Complete
<1>7. VersionInv
  <2>1. ASSUME NEW f \in Files
        PROVE  rowVersion[f] = 0 /\ oplog[f] = {} /\ broadcast[f] = <<>> /\ Len(broadcast[f]) = 0
    BY DEF InitAll, Init
  <2>2. ASSUME NEW f \in Files
        PROVE  \E k \in 0..rowVersion[f] : oplog[f] = (k + 1)..rowVersion[f]
    BY <1>6, <2>1
  <2>3. ASSUME NEW f \in Files
        PROVE  /\ Cached(f).text = Complete(Cached(f).version)
               /\ rowVersion[f] = IF Publishing(f) THEN Cached(f).version + 1
                                  ELSE Cached(f).version
               /\ Len(broadcast[f]) = Cached(f).version
    BY <1>3, <1>5, <1>6, <2>1
  <2> QED BY <2>2, <2>3 DEF VersionInv
<1>8. StoredInv
  <2>1. \A f \in Files : disk[f] = {} /\ rowHash[f] = {}
    BY DEF InitAll, Init
  <2>2. ASSUME NEW f \in Files PROVE AllBut(f, 0)
    <3>1. disk[f] = Complete(0) /\ Cached(f).version = 0
      BY <1>3, <1>6, <2>1
    <3>2. 0 \in 0..Cached(f).version /\ Cached(f).version <= 0 + 0
      BY <3>1
    <3> QED BY <3>1, <3>2 DEF AllBut
  <2> QED BY <1>3, <1>6, <2>1, <2>2 DEF StoredInv
<1>9. BroadcastInOrder /\ DownloadCoversVersion
  BY DEF BroadcastInOrder, DownloadCoversVersion, InitAll, Init
<1> QED BY <1>1, <1>2, <1>4, <1>7, <1>8, <1>9
    DEF OneCopyInv, LiveInv, JobsInv, SettledInv, LostInv, InitAll

-------------------------------------------------------------------------------
(* The theorems *)

\* While every file stays in the one copy it is cached in, from the start of
\* the server to its end, every state satisfies the invariant.
THEOREM OneCopyKept == ASSUME Warm PROVE SpecAll => []OneCopyInv
<1>1. InitAll => OneCopyInv
  BY OneCopyInit
<1>2. OneCopyInv /\ [NextAll]_all => OneCopyInv'
  BY OneCopyStep
<1> QED BY <1>1, <1>2, PTL DEF SpecAll

\* Who works on a copy works for a server that has not ended.
LEMMA PublisherRuns ==
  ASSUME Warm, OneCopyInv, NEW c \in Clients, At(c, "publish")
  PROVE  /\ RunsInv /\ job[c].file \in Files
         /\ heap[job[c].cell] = Cached(job[c].file)
         /\ heap[job[c].cell].file = job[c].file
         /\ Publishing(job[c].file) /\ JobInv(c)
<1>1. c \in Procs
  BY ProcType
<1>2. phase # "exited"
  BY <1>1 DEF OneCopyInv, LostInv, At, Idle
<1>3. RunsInv
  BY <1>2 DEF OneCopyInv, LiveInv, RunsInv
<1> QED BY <1>1, <1>3, Works DEF RunsInv, At, Publishing, JobsInv

\* The text a message is applied to is the current state of the document,
\* whatever was purged and whatever failed before.
THEOREM AppliedToCurrent == ASSUME Warm PROVE SpecAll => []AppliedToCurrentText
<1>1. OneCopyInv => AppliedToCurrentText
  <2> SUFFICES ASSUME OneCopyInv, NEW c \in Clients, At(c, "publish")
               PROVE  LET x == job[c].cell IN
                      /\ heap[x].text = Complete(heap[x].version)
                      /\ rowVersion[heap[x].file] = heap[x].version + 1
    BY DEF AppliedToCurrentText
  <2> QED BY PublisherRuns DEF RunsInv, VersionInv
<1> QED BY <1>1, OneCopyKept, PTL

\* A history that purgeCache has cut is used whole or not at all.
THEOREM NeverPartOfHistory == ASSUME Warm PROVE SpecAll => []HistoryWholeOrNone
<1>1. OneCopyInv => HistoryWholeOrNone
  <2> SUFFICES ASSUME OneCopyInv, NEW c \in Clients, At(c, "publish")
               PROVE  job[c].against \in
                        {{}, {v \in Complete(heap[job[c].cell].version) : v > job[c].base}}
    BY DEF HistoryWholeOrNone
  <2> QED BY PublisherRuns DEF JobInv, At
<1> QED BY <1>1, OneCopyKept, PTL

\* Messages go out in the order of their versions, none left out.
THEOREM SentInOrder == ASSUME Warm PROVE SpecAll => []BroadcastInOrder
<1>1. OneCopyInv => BroadcastInOrder
  BY DEF OneCopyInv
<1> QED BY <1>1, OneCopyKept, PTL

\* A download answers with the whole text of a version that is at least as new
\* as the one it is labelled with.
THEOREM DownloadsCover == ASSUME Warm PROVE SpecAll => []DownloadCoversVersion
<1>1. OneCopyInv => DownloadCoversVersion
  BY DEF OneCopyInv
<1> QED BY <1>1, OneCopyKept, PTL

\* A copy with nothing pending is what the object store and the hash hold.
THEOREM CleanIsOnDisk == ASSUME Warm PROVE SpecAll => []CleanMeansStored
<1>1. OneCopyInv => CleanMeansStored
  <2> SUFFICES ASSUME OneCopyInv, NEW f \in Files, cache[f] # NoCopy,
                      heap[cache[f]].pending = 0
               PROVE  disk[f] = heap[cache[f]].text /\ rowHash[f] = disk[f]
    BY DEF CleanMeansStored
  <2>1. RunsInv
    BY DEF OneCopyInv, LostInv, LiveInv, RunsInv
  <2>2. heap[cache[f]] = Cached(f)
    BY <2>1 DEF RunsInv, StandsInv, Cached
  <2>3. disk[f] = Complete(Cached(f).version)
    BY <2>1, <2>2, CleanIsStored DEF RunsInv
  <2> QED BY <2>1, <2>2, <2>3 DEF RunsInv, StoredInv, VersionInv
<1> QED BY <1>1, OneCopyKept, PTL

\* What is missing of a text that reflects all but the last n edits.
LEMMA LastEdits ==
  ASSUME NEW r \in Nat, NEW d \in 0..r, NEW n \in Nat, r <= d + n
  PROVE  Cardinality(Complete(r) \ Complete(d)) <= n
<1>1. Complete(r) \ Complete(d) = (d + 1)..r
  BY DEF Complete
<1>2. Cardinality((d + 1)..r) = IF d + 1 > r THEN 0 ELSE r - (d + 1) + 1
  BY FS_Interval
<1>3. (IF d + 1 > r THEN 0 ELSE r - (d + 1) + 1) <= n
  OBVIOUS
<1> QED BY <1>1, <1>2, <1>3

\* A stop on a signal leaves at most MinChangesThreshold edits of a document
\* out of the object store.
THEOREM StopLosesFew == ASSUME Warm PROVE SpecAll => []LostAtMostThreshold
<1>1. OneCopyInv => LostAtMostThreshold
  <2> SUFFICES ASSUME OneCopyInv, phase = "exited", failures = 0, NEW f \in Files
               PROVE  Cardinality(Complete(rowVersion[f]) \ disk[f]) <= MinChangesThreshold
    BY DEF LostAtMostThreshold
  <2>1. rowVersion[f] \in Nat /\ MinChangesThreshold \in Nat
    BY SizesAssumption DEF OneCopyInv, TypeOK
  <2>2. PICK d \in 0..rowVersion[f] :
          disk[f] = Complete(d) /\ rowVersion[f] <= d + MinChangesThreshold
    BY DEF OneCopyInv, LostInv
  <2> QED BY <2>1, <2>2, LastEdits
<1> QED BY <1>1, OneCopyKept, PTL

\* What a step of the server writes.
LEMMA ServerWrites ==
  ASSUME Warm, OneCopyInv, [NextAll]_all
  PROVE  \/ disk' = disk /\ rowVersion' = rowVersion /\ broadcast' = broadcast
         \/ RunsInv /\ \E p \in Procs : Writes(p)
<1>1. CASE phase = "exited"
  BY <1>1, GoneStays DEF all, vars, db, store, env
<1>2. CASE phase # "exited" /\ Exit
  BY <1>2 DEF Exit, db, store, env
<1>3. CASE phase # "exited" /\ ~Exit
  <2>1. RunsInv
    BY <1>3 DEF OneCopyInv, LiveInv, RunsInv
  <2>2. phase' # "exited"
    BY <1>3 DEF NextAll, Beside, Signal, Cancel, Close, LastPass, VisitLast, Gone, all
  <2>3. CASE UNCHANGED vars \/ PurgeCache
    BY <2>3 DEF PurgeCache, vars, db, store, env
  <2> QED BY <2>1, <2>2, <2>3, ServerStep, ActsDo
<1> QED BY <1>1, <1>2, <1>3

\* The stored object never loses an edit it had.
THEOREM NothingUnstored == ASSUME Warm PROVE SpecAll => StoreKeepsEdits
<1> DEFINE Step == \A f \in Files : disk[f] \subseteq disk'[f]
<1>1. OneCopyInv /\ [NextAll]_all => Step
  <2> SUFFICES ASSUME OneCopyInv, [NextAll]_all, NEW f \in Files
               PROVE  disk[f] \subseteq disk'[f]
    OBVIOUS
  <2>1. ASSUME RunsInv, NEW p \in Procs, Writes(p) PROVE disk[f] \subseteq disk'[f]
    <3>1. disk'[f] = disk[f] \/ disk'[f] = Complete(Cached(f).version)
      BY <2>1, Onward DEF RunsInv
    <3>2. Cached(f).version \in Nat
      BY <2>1, CopyOf DEF RunsInv
    <3>3. PICK d \in 0..Cached(f).version : disk[f] = Complete(d)
      BY <2>1 DEF RunsInv, StoredInv, AllBut
    <3>a. d \in Nat /\ d <= Cached(f).version
      BY <3>2, <3>3
    <3>4. Complete(d) \subseteq Complete(Cached(f).version)
      BY <3>2, <3>a, CompleteOrder
    <3> QED BY <3>1, <3>3, <3>4
  <2> QED BY <2>1, ServerWrites
<1>2. OneCopyInv /\ [NextAll]_all => [Step]_vars
  BY <1>1
<1>3. StoreKeepsEdits <=> [][Step]_vars
  BY DEF StoreKeepsEdits
<1> HIDE DEF Step
<1> QED BY <1>2, <1>3, OneCopyKept, PTL DEF SpecAll

\* Every step of the server is a step of the authoritative document or leaves
\* it as it is: a commit accepts the next edit once the last one went out, the
\* broadcast publishes it, and a rename brings the object up to what went out.
THEOREM ImplementsDocSteps == ASSUME Warm PROVE SpecAll => StepsOfDoc
<1>1. InitAll => Doc!Init
  <2> SUFFICES ASSUME InitAll PROVE Doc!Init
    OBVIOUS
  <2>1. \A f \in Files : Len(broadcast[f]) = 0
    BY DEF InitAll, Init
  <2> QED BY <2>1 DEF Doc!Init, InitAll, Init
<1>2. OneCopyInv /\ [NextAll]_all => [Doc!Next]_(Doc!vars)
  <2> DEFINE sent == [f \in Files |-> Len(broadcast[f])]
  <2> SUFFICES ASSUME OneCopyInv, [NextAll]_all
               PROVE  \/ \E f \in Files : Doc!Accept(f) \/ Doc!Publish(f) \/ Doc!Store(f)
                      \/ rowVersion' = rowVersion /\ sent' = sent /\ disk' = disk
    BY DEF Doc!Next, Doc!vars
  <2>1. CASE disk' = disk /\ rowVersion' = rowVersion /\ broadcast' = broadcast
    BY <2>1
  <2>2. ASSUME RunsInv, NEW p \in Procs, Writes(p)
        PROVE  \/ \E f \in Files : Doc!Accept(f) \/ Doc!Publish(f) \/ Doc!Store(f)
               \/ rowVersion' = rowVersion /\ sent' = sent /\ disk' = disk
    <3> DEFINE f == job[p].file
               v == Cached(f).version
    <3>a. /\ rowVersion \in [Files -> Nat] /\ broadcast \in [Files -> Seq(Nat)]
          /\ disk \in [Files -> SUBSET Nat]
      BY <2>2 DEF RunsInv, TypeOK
    <3>b. ASSUME f \in Files
          PROVE  /\ v \in Nat /\ sent[f] = v
                 /\ rowVersion[f] = IF Publishing(f) THEN v + 1 ELSE v
      BY <2>2, <3>b, CopyOf DEF RunsInv, VersionInv
    <3>1. CASE Calm \/ Records(p)
      BY <3>1 DEF Calm, Records
    <3>2. CASE Commits(p)
      <4>1. /\ f \in Files /\ ~Publishing(f) /\ sent' = sent /\ disk' = disk
            /\ rowVersion' = [rowVersion EXCEPT ![f] = v + 1]
        BY <3>2 DEF Commits
      <4>2. rowVersion[f] = v /\ sent[f] = v
        BY <3>b, <4>1
      <4>3. Doc!Accept(f)
        BY <4>1, <4>2 DEF Doc!Accept
      <4> QED BY <4>1, <4>3
    <3>3. CASE Sends(p)
      <4>1. /\ f \in Files /\ Publishing(f) /\ rowVersion' = rowVersion /\ disk' = disk
            /\ broadcast' = [broadcast EXCEPT ![f] = Append(@, v + 1)]
        BY <3>3 DEF Sends
      <4>2. v \in Nat /\ rowVersion[f] = v + 1 /\ sent[f] = v
        BY <3>b, <4>1
      <4>3. sent' = [sent EXCEPT ![f] = @ + 1]
        <5>1. ASSUME NEW g \in Files
              PROVE  Len(broadcast'[g]) = IF g = f THEN sent[f] + 1 ELSE sent[g]
          <6>1. broadcast[g] \in Seq(Nat)
            BY <3>a
          <6>2. CASE g = f
            <7>1. broadcast'[g] = Append(broadcast[g], v + 1)
              BY <3>a, <4>1, <6>2
            <7> QED BY <4>1, <6>1, <6>2, <7>1
          <6>3. CASE g # f
            BY <3>a, <4>1, <6>3
          <6> QED BY <6>2, <6>3
        <5> QED BY <4>1, <5>1
      <4>4. sent[f] < rowVersion[f]
        BY <4>2
      <4>5. PICK g \in Files : g = f
        BY <4>1
      <4>6. /\ rowVersion' = rowVersion /\ disk' = disk
            /\ sent' = [sent EXCEPT ![g] = @ + 1] /\ sent[g] < rowVersion[g]
        BY <4>1, <4>3, <4>4, <4>5
      <4>7. Doc!Publish(g)
        BY <4>6 DEF Doc!Publish
      <4> QED BY <4>7
    <3>4. CASE Stores(p)
      <4>1. /\ f \in Files /\ ~Publishing(f) /\ rowVersion' = rowVersion /\ sent' = sent
            /\ disk' = [disk EXCEPT ![f] = Complete(v)]
        BY <3>4 DEF Stores
      <4>2. rowVersion[f] = v /\ sent[f] = v
        BY <3>b, <4>1
      <4>3. CASE disk[f] = Complete(v)
        BY <3>a, <4>1, <4>3
      <4>4. CASE disk[f] # Complete(v)
        <5>1. Doc!Store(f)
          BY <4>1, <4>2, <4>4 DEF Doc!Store, Complete
        <5> QED BY <4>1, <5>1
      <4> QED BY <4>3, <4>4
    <3> QED BY <2>2, <3>1, <3>2, <3>3, <3>4 DEF Writes
  <2> QED BY <2>1, <2>2, ServerWrites
<1> QED BY <1>1, <1>2, OneCopyKept, PTL DEF SpecAll, StepsOfDoc
==============================================================================
