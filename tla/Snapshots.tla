------------------------------ MODULE Snapshots ------------------------------
(***************************************************************************)
(* The rows of the snapshots table of one file and the two algorithms over *)
(* them: when a snapshot is full and when it is a diff                     *)
(* (shouldCreateFullSnapshot) and how a version is rebuilt from the newest *)
(* full snapshot and the diffs after it (ReconstructSnapshot).             *)
(*                                                                         *)
(* A text is the set of the operations it reflects.  A row keeps the text  *)
(* the diff was computed from and the text it leads to; a diff applied to  *)
(* any other text garbles it.  Rows are held in creation order: both       *)
(* queries read them newest first (created_at DESC, version DESC).         *)
(***************************************************************************)
EXTENDS Naturals, Sequences, SequencesExt

CONSTANTS SnapshotCheckpoint,    \* every so many versions a full snapshot
          MaxSnapshotDiffChain   \* diffs allowed in a row

\* A text no set of operations yields, the absence of a text, and the texts.
Garbled == {0}
NoText  == {0, 1}
Texts   == (SUBSET Nat) \ {NoText}

IsFull(row) == row.kind = "file"

\* The leading run of diffs in the newest-first listing.
ConsecutiveDiffs(rows) == Len(rows) - SelectLastInSeq(rows, IsFull)

NeedsFull(rows, version) ==
  \/ rows = <<>>
  \/ version % SnapshotCheckpoint = 0
  \/ ConsecutiveDiffs(rows) >= MaxSnapshotDiffChain

ApplyDiff(text, row) == IF text = row.from THEN row.to ELSE Garbled

\* One row of the listing: above the version it is skipped, a full snapshot is
\* a base to start from, and a diff needs a base.
Rebuild(text, row, version) ==
  IF row.version > version THEN text
  ELSE IF IsFull(row) THEN row.to
  ELSE IF text = NoText THEN NoText ELSE ApplyDiff(text, row)

\* The newest full snapshot up to the version and the diffs after it.  Every full
\* one starts over, so that going from the oldest row on comes to the same.
ReconstructSnapshot(rows, version) ==
  FoldLeft(LAMBDA text, row : Rebuild(text, row, version), NoText, rows)

\* Mutant: every diff is computed against the last full snapshot.
SnapshotBaseFull(rows) == rows[SelectLastInSeq(rows, IsFull)].to

\* The text the next diff is computed against.
SnapshotBase(rows) ==
  IF IsFull(Last(rows)) THEN Last(rows).to
                        ELSE ReconstructSnapshot(rows, Last(rows).version)

\* CreateFileSnapshot: the new row, or the table unchanged when a row of that
\* version exists (PRIMARY KEY (file_id, version)) or the base is not there.
WithSnapshot(rows, version, text) ==
  IF \E i \in DOMAIN rows : rows[i].version = version
    THEN rows
    ELSE IF NeedsFull(rows, version)
      THEN Append(rows, [version |-> version, kind |-> "file",
                         from |-> {}, to |-> text])
      ELSE IF SnapshotBase(rows) \in Texts
        THEN Append(rows, [version |-> version, kind |-> "diff",
                           from |-> SnapshotBase(rows), to |-> text])
        ELSE rows
==============================================================================
