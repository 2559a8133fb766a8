------------------------------ MODULE Shutdown ------------------------------
(***************************************************************************)
(* The end of the server on a signal, around FileSync.  http.Server lets   *)
(* the requests end for ten seconds and knows nothing of the WebSocket     *)
(* connections, which go on; then Close cancels the context every call to  *)
(* the database is made with, and waits for the ticker, which visits every *)
(* cached file a last time.  When Close returns the process is gone, and   *)
(* with it the handlers that were still at work.                           *)
(***************************************************************************)
EXTENDS FileSync

VARIABLES phase,    \* "serving", "draining", "cancelled", "closing", "exited"
          toVisit   \* the keys the ticker's last pass has still to come to

all == <<vars, phase, toVisit>>

InitAll == Init /\ phase = "serving" /\ toVisit = {}

\* A step of FileSync that leaves the end of the server alone.
Beside(A) == A /\ UNCHANGED <<phase, toVisit>>

-------------------------------------------------------------------------------
(* Serving and draining *)

Serving == phase \in {"serving", "draining"}

\* Until the context is cancelled everything goes on, but for new requests.
\* What a crash does is FileSync's matter.
Serve ==
  /\ Serving /\ Next /\ UNCHANGED crashes
  /\ phase = "draining" => \A r \in Readers : At(r, "idle") => job'[r] = job[r]

Signal ==
  /\ phase = "serving" /\ phase' = "draining"
  /\ UNCHANGED <<vars, toVisit>>

\* Shutdown returns when the requests have ended or its time is over, and
\* Close cancels the context.
Cancel ==
  /\ phase = "draining" /\ phase' = "cancelled"
  /\ UNCHANGED <<vars, toVisit>>

-------------------------------------------------------------------------------
(* With the context cancelled *)

Cancelled == phase \in {"cancelled", "closing"}

\* Nothing more is read from the connections.  What needs no database goes on, the
\* ticker too: it finishes its keys, and its select may take another tick first.
GoOn ==
  /\ Cancelled
  /\ \/ \E c \in Clients :
          \/ LoaderDo(c) \/ ReadObject(c) \/ CacheAdd(c) \/ EvictLock(c) \/ LoadDone(c)
          \/ TransformStaleChunks(c) \/ Publish(c)
     \/ phase = "cancelled" /\ \E f \in Files : ProcessFile(f)
     \/ SkipFile \/ StartFlush
     \/ \E p \in Procs : StageObject(p) \/ CopyContent(p) \/ RenameObject(p) \/ FlushFails(p)
     \/ \E r \in Readers : DownloadStep(r)

\* FetchFile fails in a load, for everyone who has joined it.
LoadCancelled(c) ==
  LET f == job[c].file IN
  /\ Cancelled /\ At(c, "row")
  /\ flight' = [flight EXCEPT ![f] = NoProc]
  /\ job' = [p \in Procs |-> IF p = c \/ p \in Joined(f) THEN Idle ELSE job[p]]
  /\ UNCHANGED <<db, store, heap, cache, owner, env>>

\* BeginTx fails: the message is dropped.
PersistCancelled(c) ==
  /\ Cancelled /\ At(c, "persist")
  /\ Finish(c) /\ Release(job[c].cell)
  /\ UNCHANGED <<db, store, heap, cache, flight, env>>

\* The first query of CreateFileSnapshot fails, which is only logged.
SnapshotCancelled ==
  /\ Cancelled /\ At(Ticker, "snapshot")
  /\ Goto(Ticker, "stage")
  /\ UNCHANGED <<db, store, mem, env>>

\* UpdateFileHash fails: the object is new, the hash old, the count not reset.
HashCancelled(p) ==
  /\ Cancelled /\ At(p, "hash")
  /\ AfterFlush(p, FALSE)
  /\ UNCHANGED <<db, store, heap, cache, flight, env>>

\* Mutant: the ticker returns without a last pass.
LastPassSkipped ==
  /\ phase = "cancelled" /\ At(Ticker, "idle")
  /\ phase' = "closing"
  /\ toVisit' = {}
  /\ UNCHANGED vars

\* The ticker is between two ticks and takes the keys of the cache.
LastPass ==
  /\ phase = "cancelled" /\ At(Ticker, "idle")
  /\ phase' = "closing"
  /\ toVisit' = {f \in Files : cache[f] # NoCopy}
  /\ UNCHANGED vars

\* Mutant: the last pass comes back until nothing is pending any more.
VisitUntilClean(f) ==
  /\ phase = "closing" /\ f \in toVisit
  /\ IF cache[f] = NoCopy \/ heap[cache[f]].pending = 0
       THEN toVisit' = toVisit \ {f} /\ UNCHANGED vars
       ELSE ProcessFile(f) /\ UNCHANGED toVisit
  /\ UNCHANGED phase

\* Each file once, under the conditions of any other tick.
VisitLast(f) ==
  /\ phase = "closing" /\ At(Ticker, "idle") /\ f \in toVisit
  /\ toVisit' = toVisit \ {f}
  /\ IF cache[f] = NoCopy THEN UNCHANGED vars ELSE ProcessFile(f)
  /\ UNCHANGED phase

\* wg.Wait is over, run returns.
Exit ==
  /\ phase = "closing" /\ toVisit = {} /\ At(Ticker, "idle")
  /\ phase' = "exited" /\ UNCHANGED toVisit
  /\ heap'   = [x \in Copies |-> Blank]
  /\ cache'  = [f \in Files |-> NoCopy]
  /\ owner'  = [x \in Copies |-> NoProc]
  /\ flight' = [f \in Files |-> NoProc]
  /\ job'    = [p \in Procs |-> Idle]
  /\ fd'     = [p \in Procs |-> "none"]
  /\ UNCHANGED <<db, disk, tmp, env>>

\* The process is no more.
Gone == phase = "exited" /\ UNCHANGED all

-------------------------------------------------------------------------------
Fail ==
  \/ \E c \in Clients : LoadCancelled(c) \/ PersistCancelled(c)
  \/ SnapshotCancelled
  \/ \E p \in Procs : HashCancelled(p)

Close == LastPass \/ (\E f \in Files : VisitLast(f)) \/ Exit

NextAll ==
  \/ Beside(Serve) \/ Signal \/ Cancel
  \/ Beside(GoOn) \/ Beside(Fail)
  \/ Close \/ Gone

SpecAll == InitAll /\ [][NextAll]_all

\* FileSync's fairness for every goroutine that can run; Shutdown's ten seconds
\* end, and the ticker's select, at random between the two, comes to ctx.Done.
FairnessAll ==
  /\ \A c \in Clients :
       /\ WF_all(Beside((Serving \/ GoOn) /\ HandlerStep(c)))
       /\ WF_all(Beside(LoadCancelled(c) \/ PersistCancelled(c)))
       /\ SF_all(Beside(EvictLock(c))) /\ SF_all(Beside(TransformStaleChunks(c)))
  /\ \A p \in Procs : WF_all(Beside((Serving \/ GoOn) /\ FlushStep(p)))
                      /\ WF_all(Beside(HashCancelled(p)))
  /\ \A r \in Readers : WF_all(Beside(DownloadStep(r))) /\ SF_all(Beside(LockForRead(r)))
  /\ WF_all(Beside((Serving \/ GoOn) /\ TickerStep)) /\ SF_all(Beside(StartFlush))
  /\ WF_all(Beside(SnapshotCancelled))
  /\ WF_all(Cancel) /\ SF_all(LastPass) /\ WF_all(Close)

FairSpecAll == SpecAll /\ FairnessAll

-------------------------------------------------------------------------------
(* Properties *)

\* A stop on a signal loses no more than a tick leaves for later: of the edits
\* that were recorded, and sent out, at most MinChangesThreshold of a document
\* that stayed in its one copy are missing from the object store.
LostAtMostThreshold ==
  phase = "exited" /\ failures = 0 =>
    \A f \in Files :
      Cardinality(Complete(rowVersion[f]) \ disk[f]) <= MinChangesThreshold

\* The server ends once it was told to, whatever handlers, loads and flushes
\* are under way: Close waits for a ticker that waits for no one else for ever.
ShutdownEnds == (phase = "draining") ~> (phase = "exited")
==============================================================================
