-------------------------- MODULE FileSyncInvariant --------------------------
(***************************************************************************)
(* The inductive invariant behind the theorems of FileSyncProofs: what the *)
(* code relies on at each step, however copies are loaded, evicted,        *)
(* orphaned or lost, as long as purgeCache removes nothing.                *)
(***************************************************************************)
EXTENDS FileSync

\* The steps at which a goroutine holds the mutex of the copy it works on.
Locked == {"persist", "publish", "snapshot", "stage", "write", "rename", "hash"}

\* The steps at which the job has its copy, and those of an evicted one.
WithCell   == {"add", "evict", "done", "lock", "persist", "publish", "snapshot"}
WithVictim == {"evict", "stage", "write", "rename", "hash"}

\* A goroutine inside a critical section owns its copy's mutex.
MutexInv ==
  \A p \in Procs : job[p].pc \in Locked =>
    /\ Flushed(p) \in Copies
    /\ owner[Flushed(p)] = p

\* Copies are of the file they are registered or held for.
CopyInv ==
  /\ \A f \in Files : cache[f] \in Copies => heap[cache[f]].file = f
  /\ \A p \in Procs :
       /\ job[p].pc # "idle" => job[p].file \in Files
       /\ job[p].pc \in WithCell => job[p].cell \in Copies
       /\ job[p].pc = "evict" => job[p].victim \in Copies
       /\ job[p].cell \in Copies => heap[job[p].cell].file = job[p].file
       /\ job[p].victim \in Copies =>
            /\ heap[job[p].victim].file \in Files
            /\ job[p].pc \in WithVictim /\ job[p].cell \in Copies

\* Nothing in memory or in the store is ahead of the database.
AheadInv ==
  /\ \A x \in Copies : heap[x].file \in Files =>
       /\ heap[x].version <= rowVersion[heap[x].file]
       /\ heap[x].text \subseteq Complete(rowVersion[heap[x].file])
  /\ \A f \in Files :
       /\ disk[f] \subseteq Complete(rowVersion[f])
       /\ tmp[f] = NoText \/ tmp[f] \subseteq Complete(rowVersion[f])
       /\ \A i \in DOMAIN broadcast[f] : broadcast[f][i] \in Complete(rowVersion[f])
       /\ \A i \in DOMAIN snaps[f] : snaps[f][i].to \subseteq Complete(rowVersion[f])
  /\ \A p \in Procs : job[p].file \in Files => job[p].seen <= rowVersion[job[p].file]

\* The version a handler is about to publish is committed, is its own and has
\* not been published.
PublishInv ==
  \A p \in Procs : job[p].pc = "publish" =>
    LET x == job[p].cell IN
    /\ heap[x].version + 1 <= rowVersion[heap[x].file]
    /\ \A i \in DOMAIN broadcast[heap[x].file] :
         broadcast[heap[x].file][i] # heap[x].version + 1
    /\ \A q \in Procs \ {p} :
         job[q].pc = "publish" /\ heap[job[q].cell].file = heap[x].file =>
           heap[job[q].cell].version # heap[x].version

\* What a message was transformed against covers its base up to the copy's
\* version, and goes beyond it only if the copy is behind the database.
AgainstInv ==
  \A p \in Procs :
    LET x == job[p].cell
        missed(v) == {w \in Complete(v) : w > job[p].base}
    IN
    /\ job[p].pc = "persist" =>
         /\ missed(heap[x].version) \subseteq job[p].against
         /\ job[p].against \subseteq missed(rowVersion[heap[x].file])
    /\ job[p].pc = "publish" => job[p].against = missed(heap[x].version)

\* A copy just loaded has no edits and nobody but its loader has it.
FreshInv ==
  \A c \in Procs : job[c].pc = "add" =>
    LET x == job[c].cell IN
    /\ heap[x].pending = 0
    /\ \A f \in Files : cache[f] # x
    /\ \A p \in Procs \ {c} : job[p].cell # x /\ job[p].victim # x

\* The version a copy has, or has as soon as the edit under way is published,
\* and whether there is anything of it to store.
InPublish(x) == \E p \in Procs : job[p].pc = "publish" /\ job[p].cell = x
Reaches(x) == IF InPublish(x) THEN heap[x].version + 1 ELSE heap[x].version
Edited(x) == heap[x].pending > 0 \/ InPublish(x)

\* Rows of snapshots, each of a newer version than the one before.
InOrder(rows) == \A i, j \in DOMAIN rows : i < j => rows[i].version < rows[j].version

\* The copy of the file the ticker is at, which may not be the cached one.
TickerHas(f, x) == job[Ticker].cell = x /\ job[Ticker].file = f

\* Snapshots are taken of committed versions, each newer than the one before,
\* although the ticker may still be at a copy that has been evicted: no row is
\* newer than an edited copy that a snapshot can be taken of, and an edited
\* copy that is cached in its place is ahead of it.
SnapshotInv ==
  /\ \A f \in Files :
       /\ InOrder(snaps[f])
       /\ \A i \in DOMAIN snaps[f] : snaps[f][i].version <= rowVersion[f]
  /\ job[Ticker].pc = "snapshot" => heap[job[Ticker].cell].pending > 0
  /\ \A f \in Files, x \in Copies :
       (x = cache[f] \/ TickerHas(f, x)) /\ Edited(x) =>
         \A i \in DOMAIN snaps[f] : snaps[f][i].version <= Reaches(x)
  /\ \A f \in Files, x, y \in Copies :
       TickerHas(f, x) /\ y = cache[f] /\ y # x /\ Edited(y) => Reaches(x) < Reaches(y)

IInv ==
  /\ TypeOK /\ MutexInv /\ CopyInv /\ HistoryComplete
  /\ AheadInv /\ PublishInv /\ AgainstInv /\ NoVersionTwice
  /\ FreshInv /\ SnapshotInv /\ SnapshotsReconstruct
==============================================================================
