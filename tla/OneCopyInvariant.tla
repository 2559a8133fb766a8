-------------------------- MODULE OneCopyInvariant --------------------------
(***************************************************************************)
(* The inductive invariant behind the theorems of OneCopyProofs: what the  *)
(* code relies on while every file stays in the one copy it is cached in,  *)
(* up to the end of the server, whatever purgeCache removes.               *)
(***************************************************************************)
EXTENDS Shutdown, FileSyncInvariant

\* Every file is cached at the start.
Warm == \A f \in Files : WarmCopy[f] \in Copies

Cached(f) == heap[WarmCopy[f]]

\* The steps at which a goroutine flushes.
Flushing == {"stage", "write", "rename", "hash"}

\* Nobody loads, everyone has the copy of its file, and who is in a critical
\* section has its mutex.
StandsAt(p) ==
  /\ job[p].victim = NoCopy
  /\ p \in Clients => job[p].pc \in {"idle", "lock", "persist", "publish"}
  /\ p = Ticker => job[p].pc \in {"idle", "lock", "snapshot"} \cup Flushing
  /\ p \in Readers => job[p].pc \in {"idle", "get", "lock", "object"} \cup Flushing
  /\ job[p].pc # "idle" => job[p].file \in Files
  /\ job[p].cell = IF job[p].pc \in {"idle", "get"} THEN NoCopy ELSE WarmCopy[job[p].file]
  /\ job[p].pc \in Locked => owner[job[p].cell] = p

StandsInv ==
  /\ cache = WarmCopy
  /\ \A f \in Files : Cached(f).file = f
  /\ \A p \in Procs : StandsAt(p)

Publishing(f) == \E c \in Clients : At(c, "publish") /\ job[c].file = f

\* The copy is the document: all of its operations, and the database one ahead
\* between the commit and the broadcast.  Purges leave the end of the history.
VersionInv ==
  \A f \in Files :
    LET v == Cached(f).version IN
    /\ Cached(f).text = Complete(v)
    /\ rowVersion[f] = IF Publishing(f) THEN v + 1 ELSE v
    /\ Len(broadcast[f]) = v
    /\ \E k \in 0..rowVersion[f] : oplog[f] = (k + 1)..rowVersion[f]

\* All but the last n of the copy's edits are in the object store.
AllBut(f, n) ==
  \E d \in 0..Cached(f).version : disk[f] = Complete(d) /\ Cached(f).version <= d + n

\* pendingChanges counts them.
StoredInv ==
  \A f \in Files :
    /\ AllBut(f, Cached(f).pending)
    /\ Cached(f).pending = 0 => rowHash[f] = Complete(Cached(f).version)

\* What a goroutine has read is what it takes it for, where it uses it.
JobInv(p) ==
  LET f == job[p].file
      v == Cached(f).version
  IN
  /\ job[p].pc \in {"persist", "publish"} =>
       job[p].against \in {{}, {w \in Complete(v) : w > job[p].base}}
  /\ job[p].pc = "write" => fd[p] = "tmp" /\ tmp[f] = {}
  /\ job[p].pc = "rename" => tmp[f] = Complete(v)
  /\ job[p].pc = "hash" => disk[f] = Complete(v)
  /\ job[p].pc \in {"get", "lock"} => job[p].seen <= rowVersion[f]
  /\ job[p].pc \in {"snapshot"} \cup Flushing => job[p].seen <= v
  /\ job[p].pc = "object" => \E d \in job[p].seen..v : disk[f] = Complete(d)

JobsInv == \A p \in Procs : JobInv(p)

\* The ticker's last pass has done with f.
Settled(f) == ~Publishing(f) /\ (failures = 0 => AllBut(f, MinChangesThreshold))

SettledInv ==
  phase = "closing" =>
    \A f \in Files : f \in toVisit \/ (~At(Ticker, "idle") /\ job[Ticker].file = f) \/ Settled(f)

LostInv ==
  phase = "exited" =>
    /\ cache = [f \in Files |-> NoCopy]
    /\ job = [p \in Procs |-> Idle]
    /\ failures = 0 => \A f \in Files : \E d \in 0..rowVersion[f] :
         disk[f] = Complete(d) /\ rowVersion[f] <= d + MinChangesThreshold

LiveInv ==
  phase # "exited" => StandsInv /\ VersionInv /\ StoredInv /\ JobsInv

OneCopyInv ==
  /\ TypeOK /\ LiveInv /\ SettledInv /\ LostInv
  /\ BroadcastInOrder /\ DownloadCoversVersion
==============================================================================
