# Obsidian Live Syncinator server: specification, model checking, proofs

The server keeps text documents that several clients edit at once. A client
sends the chunks of a change with the version it was made on; the server
transforms them against the operations recorded since, records the result as
the next version in SQLite, applies it to a cached copy of the text and
broadcasts it. Cached copies reach the object store (files on disk) later. This
directory says what that must guarantee, checks it with TLC on small instances
and proves part of it with TLAPS for all sizes.

## Inventory

| Part (source) | State | Operations | Talks to |
|---|---|---|---|
| Write path (`pkg/ws.go` 115-246) | none of its own | `onChunkMessage`, `transformStaleChunks`, `persistChunkOperation` | cache, database, hub |
| Cache and loader (`pkg/ws.go` 656-700, `pkg/server.go` 176-192) | `fileCache` (LRU), `loader` (singleflight), copies with `mut`, `Content`, `Version`, `pendingChanges` | load, add, eviction callback | database, object store |
| Flush (`pkg/ws.go` 313-420, `pkg/filestorage/disk.go` 109-140) | object, its `.tmp` sibling, `files.hash` | ticker, `WriteFileToStorage`, eviction | cache, object store, database |
| Snapshots (`pkg/ws.go` 422-628) | rows of `snapshots`, an object each | `CreateFileSnapshot`, `ReconstructSnapshot` | ticker, API |
| History purge (`pkg/ws.go` 366-383) | rows of `operations` | `purgeCache` | database |
| Operational transformation (`pkg/diff/diff.go`) | none | `Transform`, `TransformMultiple`, `Apply`, `Compute` | write path, snapshots |
| Hub (`pkg/subscriber.go`, `pkg/ws.go` 35-113, 248-311) | subscribers of a workspace, three queues each, rate limiters | listen, broadcast, drop the slow | clients |
| File API (`pkg/api.go`) | rows of `files`, objects | create, delete, rename, list, export, download | database, object store, cache |
| Start and end (`cmd/main.go`, `pkg/server.go` 126-174, 208-214) | context, wait group | start, `Shutdown`, `Close` | everything |
| Auth, middleware, env, migrations, MIME helpers, CLI | none that changes at run time | | |

What is hard. Every WebSocket connection has its own goroutine, and so has the
ticker, the purge and every HTTP request. A copy's mutex orders what is done to
*that copy*, but looking a copy up and locking it are two steps, so goroutines
work on copies that have been evicted or replaced. Any call to SQLite or to the
disk may fail between two of the steps. Memory is ahead of the object store all
the time and is lost in a crash.

What makes each part correct. Write path: a message is transformed against
exactly what it missed and applied to the current text; the database is ahead of
everyone; versions go out once and in order. Cache: one copy of a document at a
time. Flush: what was broadcast gets stored and stays stored. Snapshots: every
row reconstructs its text. Download: the text covers the version on its label.
Transformation: a client's intent survives. Hub: clients see all versions in order
or are disconnected. File API: a row has its object and an object its row.

`PROJECT.json` lists the components with their status, and under `hazards` the
places in the code where these can go wrong, each with the properties that watch
it or the reason there is none yet.

## Modules

- **FileSync** is the core: the write path, cache, loader, eviction, flush,
  download, purge and crash, interleaved at every point where the code gives up
  control of shared state (a lookup, a lock, a transaction, a file operation).
- **Snapshots** holds the snapshot algorithm FileSync's ticker uses.
- **AuthoritativeDoc** is the abstract promise: edits accepted one at a time,
  published in order, the stored text now and then brought up to date.
- **Hub** is one workspace's connections and queues, **Feed** what it promises a
  client, **HubProofs** and **FeedProofs** the theorems of the one and that it
  implements the other, **MCHub** its instance.
- **FileLifecycle** is the file API against edits and the ticker,
  **FileLifecycleProofs** its theorems, **MCFileLifecycle**
  its instance.
- **Shutdown** wraps FileSync in the end of the server, **MCShutdown** instantiates it.
- **FileSyncInvariant** has the inductive invariant, **FileSyncProofs** the
  theorems, **MCFileSync** the instances for TLC. **OneCopyInvariant** and
  **OneCopyProofs** have those of a document that stays in its one copy, up to the end
  of the server.
- **Diff** is package `diff` on real texts, **DiffProofs** its theorems;
  **Document** puts it to use on one document, **DocumentProofs** has its theorems,
  **MCDocument** instantiates it.
- **FoldLemmas** says what a fold over a list goes through, for the proofs about
  chunk lists, histories and snapshots.

### How FileSync's state corresponds to the code

| Variable | Code |
|---|---|
| `rowVersion`, `rowHash` | `files.version`, `files.hash` |
| `oplog`, `snaps` | rows of `operations`, `snapshots` |
| `disk`, `tmp`, `fd` | the object, its `.tmp` file, where the file is that a flush has created and not written yet |
| `heap`, `cache`, `owner`, `flight` | `LockedCachedFile` values, `fileCache`, the holder of each `mut`, the loader's flight |
| `job` | where each goroutine is, with its local variables |
| `broadcast`, `reply` | what was handed to `broadcastMessage`, the last answer of a download |

A text is abstracted to the set of the operations it reflects: `1..v` is the
complete text at version `v`, anything else is a text that lacks an edit. That is
all the properties of FileSync tell apart; characters are Document's matter.
Actions carry the names of the functions, and `job[p].pc` says between which two
of their steps a goroutine is. The copies are a finite pool: the garbage collector
is `Unreferenced`, and a load waits when no copy is free. With one goroutine for
each of two clients, the ticker and one document, 4 copies are enough for a load
never to wait (3 held, 1 new); in `evict` and `evict_live`, with two documents,
a load may be delayed, which removes schedules but no step.

Abstractions: the LRU order of the cache (any entry may be evicted); `time` (a
file is due whenever it has changes and the ticker comes by; purges remove any
oldest part); the order of snapshot rows (by creation, where the query sorts by a
time of one-second resolution and then by version); one workspace, no access
control; the broadcast ends at the hub. `Fault` is any error of a call; a failed
transaction changes nothing. `WriteObject` is three steps (create, copy, rename), since two copies
of a file share one `.tmp`: the file one flush has created may be emptied, written
over, renamed or removed by the other (`fd`), and a text written over another counts as that
text or as a mixture, which is a text with none of the edits. The stored text of a file at the start is version 0,
empty history.

`ReconstructSnapshot` walks the rows from the newest to a full one and then applies the
diffs forward (`ws.go:547-628`). The model goes forward over all rows and lets each full
one start over, which comes to the same text and can be reasoned about row by row.

### How Hub and Feed correspond to the code

| Variable of Hub | Code |
|---|---|
| `entry`, `members` | `syncinator.subscribers` for the workspace, the `subs` of its entry |
| `handler`, `reader`, `writer` | the goroutine of `subscribe` and the two `Listen` starts |
| `connected`, `link`, `closers` | `isConnected`, the `websocket.Conn`, `closeSlow` goroutines under way |
| `queue` | `chunkMsgQueue`, `eventMsgQueue`, `cursorMsgQueue` |
| `mut`, `version` | the mutex of the file that is edited, its version |
| `first`, `seen` | history: the version a client starts with, the versions it was sent |

`broadcastMessage` is one step: its loop holds `ws.mu`, never waits, and what it reads
of others (`isConnected`, free room in a queue) changes only in the direction
that a step of theirs just before or after the loop explains as well. The queues of
a writer that has returned are empty in the model, since nobody reads them again; a
`closeSlow` that finds its connection shut has nothing left to do. `CloseSlow` shuts the
connection in one step although the closing handshake may take seconds: the websocket
library refuses to write messages once it has sent its close frame, so for the writer the
connection is shut from there on, and before it `CloseSlow` has not run yet. What
`onChunkMessage` does before it broadcasts is FileSync's matter: here it takes the
file's mutex and the next version, which is what FileSync's `BroadcastInOrder`
establishes for one copy. Hub's entry is a number so that a server that cleaned
up entries would be told from one that does not.

**Feed** is what a client may rely on: from where it joins it is sent each version
once and in order, until its connection is given up; then it may miss versions but
never goes back, and its connection ends. One message may be too much for several
clients at once (`Drop`): the loop of `broadcastMessage` visits all queues. Hub
implements Feed under the mapping `Status`, fairness included.

### How FileLifecycle corresponds to the code

| Variable | Code |
|---|---|
| `files`, `operations`, `snapshots`, `nextId` | the three tables as sets of rows; `AUTOINCREMENT` |
| `pooled` | whether some connection of the pool lacks `PRAGMA foreign_keys`, chosen at the start |
| `store`, `tmp`, `nextObject` | which file's text each object holds; `.tmp` siblings; the next UUID |
| `heap`, `cache`, `owner`, `job` | as in FileSync |
| `unlinked` | history: the objects a delete has come to |

Requests go through `createFileHandler`, `updateFileHandler`, `deleteFileHandler` and
`exportHandler` one call to the database, the cache or the disk at a time, a delete
down to the eviction callback's flush. FileSync's detail of an edit is one step here,
with the keys of `operations` it runs into; a text is the file it belongs to. The cache
is large enough that only deletes remove entries: eviction is in FileSync. Lists of
files, snapshots and operations, and the download of a snapshot, read and change nothing.
Object names are fresh numbers; the guard `RoomForObject` bounds them.

### How Shutdown corresponds to the code

Shutdown extends FileSync by `phase` and `toVisit`, the keys of the ticker's last pass.
While draining everything goes on but new requests; `Cancel` is the context of `Close`.
The ticker first finishes its keys, and as its `select` chooses at random between the
cancelled context and a tick that is due, it may take more ticks before it comes to the last pass
(`LastPass`). After `Cancel` the steps that need no database are FileSync's own (`GoOn`), and each
that does fails where the code notices: `LoadCancelled`, `PersistCancelled` (a stale
message already at its query, with the same effect: it is dropped under the mutex),
`SnapshotCancelled`, `HashCancelled`. `Exit` ends the process when the last pass is
over, whoever else is still at work.

### How Document corresponds to the code

Document runs `onChunkMessage` as one step per message, since the copy's mutex is
held throughout, on texts of distinct characters so that each edit can be
followed. Messages are all chunk lists of one or two chunks the client could have
made on the version it names; two chunks come in the order and with the gap
`diff.Compute` leaves between them. The history is not purged here. The characters a
message brings are numbered by its version (`Spent`), so that no two messages bring the
same; `Bounds` says that there are enough of them. `SameOrder` compares all pairs of
characters two texts share, so it also says that a text has each of them once.

## Runs

| Run | Question | Instance |
|---|---|---|
| `warm` (Shutdown) | Is every edit applied, ordered, stored and downloaded right while a document stays cached, is every step one of AuthoritativeDoc, and what does a stop on a signal lose? | 1 file, 2 clients, 1 download, 1 copy, purge on, 1 failure, 3 versions |
| `warm_live` | Does everything end, does everything broadcast get stored, does the server implement AuthoritativeDoc? | the same with 1 client and 2 versions, fairness |
| `cold` | What survives loads, double loads, failures and a crash? | 1 file, 2 clients, 4 copies, 1 failure, 1 crash, 3 versions |
| `evict` | ... and two files competing for a cache of one entry? | 2 files, 2 clients, 4 copies, 2 versions |
| `evict_live` (Shutdown) | Do mutexes, flights and the eviction callback ever block each other, does a stop always end? | 2 files, 2 clients, 3 copies, 1 version, fairness |
| `hub` | Does every client that is followed get every version in order, does every connection end with the server? | 2 connections, chunks and one other kind, queues of 1, 2 versions, 1 other message, fairness |
| `files` | Do creates, renames, deletes, exports, edits and flushes in any order keep rows, objects and texts together? | 2 requests, 2 paths, 2 copies, 2 files, 3 objects, 1 edit, 1 failure or crash |
| `text` | Does a message of one chunk keep its intent, and does what is recorded fit its text? | text of 3 characters, insertions of 2, 3 versions, recorded operations of up to 2 chunks |
| `double_load` (violation) | Is a message always applied to the current text? | cold start, 2 clients |
| `purged_history` (violation) | Is it always transformed against all it missed? | warm, purge on |
| `evict_store` (violation) | Does a stored edit stay stored? | 1 client, 2 files, 3 copies, fairness |
| `text_multi` (violation) | Does a message of two chunks keep its intent? | as `text`, stale messages of 2 chunks |

The bounds are `MaxVersion` (edits per file), `MaxFailures`, `MaxCrashes`,
`Copies`, `CacheSize` for FileSync and `InitialLength`, `InsertLength`,
`MaxEdits`, `FreshChunks`, `StaleChunks` for Document. Three versions are the
fewest for which a base can be two behind, for the threshold of pending changes to
be passed twice, and for a diff on a diff. `warm_live` has one client, whose handler
contends for the mutex with a download and the ticker; with two clients the steps of the
refinement are checked by `warm` (`StepsOfDoc`). One failure is enough to fail any one
step of each action; a crash loses edits in every state reached. In `text` the third
message crosses two operations, of which one may have two chunks; insertions of
two characters tell a shift by length from a shift by one.

In `hub` a queue of one is full as soon as its writer is slow; two versions and
another message let a queue fill, a connection be given up, and the other one go on;
events and cursors are handled alike, so one kind stands for both. A
client that is sent a version after one was dropped takes a third version (one
queued, one dropped, one queued before `closeSlow` runs), with which the safety
properties were checked too. The theorems of HubProofs and FeedProofs need no bound.
In `files` two requests are enough for every race the code has (create against create, rename, delete or export; delete against delete); three objects are a
file, a created file and a snapshot, or two files created in a race; one edit makes a
copy dirty and gives a file the operation that keeps it from being deleted.

`warm` checks deadlock; the other runs may stop when the bound on edits, versions or
messages is reached and no goroutine has anything left to do, and say
by their liveness properties what must come before. `cold` and `evict` use symmetry
of copies and clients, and a view that ignores the contents of unreferenced copies;
`files` uses symmetry of requests and paths; none of these has a liveness property.

The passing properties split by what they survive. `NothingAheadOfDatabase`,
`HistoryComplete`, `NoVersionTwice`, `TransformedAgainstAll`, `VersionsStepByOne`
and `SnapshotsReconstruct` hold however copies are loaded, orphaned, evicted or
lost: two copies of a file cannot both publish a version because of the primary
key of `operations`. `AppliedToCurrentText`, `BroadcastInOrder`,
`CleanMeansStored`, `StoreKeepsEdits`, `DownloadCoversVersion`,
`StepsOfDoc` and `ImplementsDoc` hold while a file stays in its one copy, and that condition
matters: see the findings. `HistoryWholeOrNone` is what is left of
`TransformedAgainstAll` under purges. `LostAtMostThreshold` is about the same one
copy: a handler that has recorded an edit holds the copy until the edit is in
memory, so the last pass waits for it, and what the pass leaves is what any tick
leaves.

`NothingDangles` has one exception, `unlinked`: deletes remove objects before rows, so a
row may be left without its object by a delete and by nothing else.
`NothingRefersToDeleted` holds only when every connection has its foreign keys on.

### Fairness

`warm_live`, `evict_live` and `evict_store` assume: weak fairness of every
goroutine that can take its next step; strong fairness of taking a copy's mutex
(`sync.Mutex` hands over to a waiter starved for a millisecond); strong fairness of
the ticker for each cached file and of a due file being flushed (the ticker fires for
ever and a file that rests for `flushInterval` is due). Nothing is assumed of
clients, downloads, faults, purges or crashes. The retry of a failed flush at the
next tick is what makes `StoredForGood` hold with a failure.

`evict_live` has FileSync's fairness in each phase, and that the ten seconds of
`Shutdown` pass and that the ticker's `select`, which may take other ticks first, comes to
`ctx.Done` (strong fairness of `LastPass`). It assumes no fairness of
the signal. `hub` assumes weak fairness of every goroutine that can go on
(`publishLimiter.Wait` ends by itself, `ws.mu` is held for one loop at a time,
`writeTimeout` ends a write), and strong fairness of the writer taking a chunk,
because `select` chooses among ready queues at random. Nothing is assumed of clients:
they may send, stay silent, leave or never read.

## Findings

1. **A document loaded twice** (`double_load`). `onChunkMessage` looks a file up
   and loads it in two steps, and `fetchAndCacheFile` adds what it loaded without
   a second look. A client that missed before another's load ended loads again, from
   the object store, under the version of the row: its copy replaces the one being
   edited and lacks the edits made meanwhile. The next message is applied to, and
   later stored with, a text without them.
2. **Untransformed after a purge** (`purged_history`). A gap between two operations
   is an error, an empty history is not.
3. **A stored text goes back** (`evict_store`). The eviction callback flushes a copy
   but leaves `pendingChanges`; a ticker that fetched the copy before the eviction
   writes it again, over what a reloaded copy has stored since, or into the temporary file
the other's flush is writing.
4. **Chunks of one message** (`text_multi`). `TransformMultiple` treats the chunks of a
   message as if each were made on the same text: with "remove a" recorded on
   "abc", the stale message [remove a, remove c] removes b.

Met while modelling and not given a run, since no doc says otherwise:

- A crash loses the edits not yet flushed while the row keeps their version, so the
  reloaded text lacks them. TLC finds `AppliedToCurrentText` violated with one client, one crash
  and no failure; the operations are all kept (`HistoryComplete`), but nothing rebuilds
  a text from them.
- An eviction takes the entry out of the cache before its callback flushes the copy. A
  load in between reads the object without the unflushed edits: TLC finds the same property
  violated on the instance of `evict` even if each file has one client.
- With a purge, a stale second copy can find its next version
  free in `operations` again and set the row's version back. This
  breaks `VersionsStepByOne`, which is why the theorems of FileSyncProofs exclude purges.
- A stop on a signal leaves the edits that are not due (up to
  `MinChangesThreshold`, and recent) in memory, with the effect of a crash on them; what the last
  pass writes keeps its old `files.hash`, because the context is cancelled by then.
- Deleting a file that has operations, with foreign keys on, removes its objects and
  then fails on the row: the file stays listed without a text, and its later edits
  can be recorded but never stored.
- `PRAGMA foreign_keys` is set on whichever connection of the pool runs it. On
  another one the same delete succeeds and leaves the operations behind.
- A delete that fails after it reset `pendingChanges` drops the edits it found pending.
- A create that loses a race for its path, and a snapshot whose row cannot be
  inserted, leave an object nothing refers to. A copy that is cached again after its
  file was deleted makes the ticker leave one such object per tick.
- A flush between `Stat` and `Rename` brings a deleted object back.
- An export reads objects without flushing the copies first and stops at the first
  object a delete has removed since, with a broken archive.

## Proofs

`FileSyncProofs` proves for any number of files, clients, downloads and copies, any
bounds and any starting cache, from the assumptions `ProcsAssumption`,
`SizesAssumption` and `WarmAssumption` of FileSync:

- `TypeCorrect`: `Spec => [](TypeOK /\ MutexInv /\ CopyInv)`, without further
  condition;
- for `~Purging`: `DatabaseFirst`, `HistoryKept`, `PublishedOnce`, `FullyTransformed`
  (invariants of the runs `cold` and `evict`), `VersionsIncrement` (an action
  property) and `SnapshotsRebuild` (every row of `snapshots` rebuilds the complete text
  of its version).

The argument is one inductive invariant, `IInv` (theorem `Invariance`), which `cold`
checks too. None of the
goals is inductive by itself. A version is published once because a handler about to
publish has a committed version of its own (`PublishInv`): nobody else can commit it,
as `operations` has its row (`HistoryComplete`), and nobody else can hold it, as the
copy cannot move while its mutex is held (`MutexInv`). A message is fully transformed
because the query at version `v` of a copy that may be stale returns *at least* what the
copy has seen (`AgainstInv`), and at the commit the primary key forces the copy to be
level with the row, so that at least becomes exactly. `AheadInv` carries the
containment of every text through temporary files, loads and snapshots, and `CopyInv`
says which file a copy in use belongs to. The proof of each part goes action by action;
frame lemmas (`HeapFrame`, `RowFrame`, `OutputFrame`, `JobFrame`) dispose of the
actions that leave its variables alone.

That snapshots rebuild rests on their order. A row added at the end changes nothing of
what the older ones rebuild if it is of a newer version (`OlderKept`), and rebuilds its
own text because a diff is taken against what the last row rebuilds (`BaseOfLast`,
`SnapshotTaken`). That rows do come in the order of their versions is not obvious: the
ticker may still be at a copy that has been evicted and replaced. `SnapshotInv` says why
nothing goes wrong. A snapshot is only taken of a copy with edits; no row is newer than
such a copy, whether it is the cached one or the one the ticker is at; and a cached copy
with edits is ahead of an evicted one the ticker is at, because a commit needs the copy
level with the row (`OvertakenStep`). `FreshInv` adds that nobody has a copy that is being
loaded but its loader.

`OneCopyProofs` proves what `warm` checks, up to the end of the server and with purges
and any number of failures: `AppliedToCurrent`, `NeverPartOfHistory`, `SentInOrder`,
`DownloadsCover`, `CleanIsOnDisk`, `StopLosesFew`, the action property `NothingUnstored`,
and `ImplementsDocSteps`, that every step of the server is a step of AuthoritativeDoc or
leaves it alone. Their one hypothesis is `Warm`: every file is cached at the start, in
a copy of its own (`WarmAssumption`). The run `warm` is such a start, with one file;
`double_load` shows that the theorems are false without it. `SpecAll` has no crash (its
`Serve` takes FileSync's steps but `Crash`) and no evictions: nothing is loaded, so nothing
is evicted (`StandsInv`).

The invariant is `OneCopyInv` (theorem `OneCopyKept`, and an invariant of `warm`), one part
for each thing the code relies on. `StandsInv`: who is in a critical section has
the mutex of the file's copy. `VersionInv`: the copy is the document, the row one ahead
between commit and broadcast, and a purge leaves an end of the history. `StoredInv`: the
object holds all but the last `pendingChanges` edits. `JobsInv`: what a goroutine
has read still is what it takes it for where it uses it. `SettledInv` and `LostInv` follow
the last pass of the ticker: what it has been to stays within the threshold, since a
handler can only add an edit it holds the copy for, and the pass waits for that copy.

The proof does not go action by action through every part. Each step is one goroutine's
(`Moves`, `Alone`), and does one of six things to the documents: nothing (`Calm`),
`Commits`, `Sends`, `Stores`, `Records` or `Purges`. The actions of FileSync and Shutdown
are shown once to be of these kinds (`ServerStep`, `ActsDo`); each part of the invariant,
`StoreKeepsEdits` and the refinement are then proved from the kinds.

`HubProofs` proves for any number of connections, any kinds of messages and any size of
the queues, from `KindsAssumption`, `SubsAssumption` and `BoundsAssumption` of Hub:
`TypeCorrect` (no queue outgrows its buffer), `FollowersMissNothing` and
`ConnectedReachable`. `MissesNothing` is not inductive by itself. That a broadcast
adds the next version and not some other needs `HeldByPublisher`: whoever holds the
file's mutex is about to broadcast the newest version, and nobody else has one to
broadcast. That it comes to every client that is followed needs `OneRoom` and
`Registered`: all connections are in one entry, and none is forgotten while it is
connected. That a client starts with nothing missed needs `NothingYet`. `HubInv` is
their conjunction; the broadcast and the writer, which change what the invariant speaks of,
have a lemma each, `MissedFrame` covers the rest.

`FeedProofs` adds what holds of clients that are not followed any more, and that Hub
implements Feed. `ClientsNeverGoBack`: the version before a client joined, those it was
sent, the one its writer holds, those queued and the one to come form a line that rises
(`Line`, `Rising`), with gaps where something was dropped. Only a broadcast lengthens
the line, above all that is in it; the writer moves its messages along; a failure
shortens it. `ImplementsFeedSteps` maps every step of Hub to a step of Feed or to none,
which needs two more parts of the invariant: `EndsInv`, that a connection that has ended
is shut and nobody is registered before its connection is listened to, and `LeftInv`, that a
writer whose handler has returned at a stop still has a line without gaps, up to
the version at which it was forgotten. The steps are sorted by what a
client can see: nothing (`Silent`) but that some may be given up (`Dropping`), the end
of a connection (`EndStep`), joining, a broadcast, a delivery. The attempt to prove it
corrected Feed: it used to let one client at a time be given up outside of `Publish`,
and an event for which two queues are full gives up two. With two connections TLC cannot
show this, since a client is sent no event of its own.

`FileLifecycleProofs` proves for any number of requests, paths and copies and any bounds,
from `ProcsAssumption` (which has that the requests are finitely many), `CopiesAssumption`
and `BoundsAssumption` of FileLifecycle, the invariants of the run `files`: `PathsUnique`,
`ObjectsKept`, `TextsKeptApart`, `ReferencesHold`, `HoldersFlush`, `TypesHold`. The invariant `FilesInv` has a part for each. `Shape`
and `Held` say what a goroutine has looked up and locked where it stands; the others rest on
them and not on each other. `Keys` adds to `OnePathOneFile` that ids are distinct and below
the next one, as a row is renamed by its id. `Kept` holds because what was ever made stays
made or is known to be deleted (`MadeGrows`), and because a request on its way to
a row already has its object. `Named` is what `OwnText` needs: an object has one owner for
ever, over the rows, the copies of files that may be gone and the load under way, and a
name given out for a row to come is nobody's yet. The types rest on these and on three
more parts (`TypesInv`): `Bounded` counts who is still to come, so that everybody who is on
the way to a name or an id has room for it (`ComingCount`); `Reached` has that a copy
somebody can reach was loaded, and that what a delete or an export visits was given out;
`Recorded` that rows and objects are about files that had an id. That the bounds on rows and
objects hold says nothing about the code, the rest does: no operation or snapshot is
recorded for an empty copy.

`DiffProofs` proves that `Transform` keeps accepted chunks accepted, of the same type
and text (`TransformAccepted`), and that two chunks for one text give one text whichever
the server takes first (`Converge`): two insertions at different places
(`InsertionsConverge`), any two removals, apart, overlapping, nested or beyond the end
of the text (`RemovalsConverge`), an insertion and a removal that does not reach across
its place (`InsertionAndRemovalConverge`). The rest does not converge and is left out:
insertions at one place keep the order of arrival, and an insertion inside a removed
range is taken along or stays depending on which comes first. The proofs count: how many
characters a removal leaves (`Left`), which character of the text is then the i-th
(`Source`), and that two removals in either order agree in both (`LeftTwice`).

`FoldLemmas` is what the proofs about lists rest on. `FoldLeft` of the community modules is
a `CHOOSE` of a recursive function on sets of indices; that it exists and takes the elements
one by one is shown by taking the least element at which it would fail (`LeastNumber`,
`UpTo`). `FoldStages` is the result: a fold has a sequence of stages, each a step from the one
before. Snapshots, chunk lists and histories are then followed stage by stage.

`DocumentProofs` proves for texts, edits and messages of any size, from `Bounds`:

- `RecordedStaysWithin`: no recorded chunk starts or ends outside the text it is applied
  to, nor has a negative position or length, provided a message that is behind has one
  chunk (`StaleChunks < 2`; a message that is up to date may have two). `Apply` cuts a
  chunk that does not fit to size without an error, so a client would not notice;
- `IntentHolds`, under the same hypothesis: a message does to the current text what its
  client did to its own. `text_multi` shows that the theorem is false without it;
- `LossesAreInside`, likewise: of what others have inserted, a message
  takes along only what stands between two characters of its own removal (`Inside`, which
  is counted version by version: what is taken along once may have more put into it).

The second follows a chunk from the text it was made on to the current one, past every
recorded chunk in between. It keeps standing between the same characters of those the two
texts share (`Carries`): on its own text it does (`CarriesItself`), and `Transform` across
one more chunk keeps it so (`CarriesOn`, from where each place of the text goes,
`MovesAlong`). A chunk that stands there does what its client meant (`CarriedIntent`).
The invariant `Followed` has what that needs of the history: texts and chunks are well formed
(`Written`), no character is there twice or brought again (`Numbered`), no two change
places (`Ordered`), and the chunks of each version lead from its text to the next
(`Recorded`). The first follows from the same invariant (`RecordedWithin`): what leads from a text
to the next does so within it, and the texts between are those the chunks before
leave (`LeadsWithin`).

The third follows what the chunk would remove (`Takes`). Moved across an insertion, a removal
takes part of it only if it takes both of its neighbours (`TakesAround`), so it never takes
more than `Widened` allows; two chunks of one message have text between them (`Spaced`), so
that neither is a neighbour of the other and a whole version widens the set once
(`WidenedStages`). `TakesThrough` goes through the versions, and `Remembered` ties the
last message to what it was moved across, which the property reads.

Only model-checked: all liveness and the fairness of both refinements (beyond TLAPS with
these backends). Every invariant of a passing run is a theorem.

## Not modelled

Auth, middleware, environment, migrations, MIME detection and the workspace CLI keep
no state that the rest depends on. The handlers that list files, snapshots or
operations and the one that returns a snapshot only read. Rate limits per client drop a
message before anything changes; what the client then does about its text is not in
this repository. The resolution of `created_at` and the order it gives snapshots of one
second are left out, as is the 64-bit overflow of positions, which is listed as a
hazard. Hub and FileSync are not composed into one state space: they meet in
`broadcastMessage`, where FileSync's `BroadcastInOrder` is what Hub assumes of
`HandleChunk`.

## Plan

1. Done: FileSync, Snapshots, AuthoritativeDoc, Diff, Document, Hub, Feed,
   FileLifecycle, Shutdown; the theorems above.
2. Convergence of the clients: Hub and Document composed, a client that applies what
   it is sent.
3. Proofs: convergence of two clients whose messages cross several operations.
