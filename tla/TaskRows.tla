------------------------------ MODULE TaskRows ------------------------------
(***************************************************************************)
(* The rows of the tables tasks and conflicts that stand for one VTODO of  *)
(* one project, and what a full scan of the remote calendar decides about  *)
(* them (internal/db/fullscan.go).                                         *)
(*                                                                         *)
(* An etag is the number of the server's version of the object, 0 is NULL. *)
(***************************************************************************)
EXTENDS Vtodo, Naturals, Sequences

\* "absent" marks the number of a row that has been deleted: task ids are
\* UUIDs and never come back.
SyncStatus == {"pending", "synced", "error", "conflict", "absent"}

Row == [ver : Nat, raw : Content, base : Content, etag : Nat,
        status : SyncStatus]

Conflict == [type : {"field_conflict", "edit_delete"},
             base : Content, local : Content, remote : Text, open : BOOLEAN]

\* A row the user's own request inserts: not on the server yet.
PendingRow(content) ==
    [ver |-> 1, raw |-> content, base |-> content, etag |-> 0,
     status |-> "pending"]

\* insertImportedTask: a row for an object seen on the server only.
ImportedRow(content, etag) ==
    [ver |-> 1, raw |-> content, base |-> content, etag |-> etag,
     status |-> "synced"]

\* Mutant of Imported: server_version is not incremented.
ImportedSameVersion(row, content, etag) ==
    [row EXCEPT !.raw = content, !.base = content, !.etag = etag,
                !.status = "synced"]

\* updateTaskFromImported: raw_vtodo and base_vtodo both take the content.
Imported(row, content, etag) ==
    [row EXCEPT !.raw = content, !.base = content, !.etag = etag,
                !.status = "synced", !.ver = @ + 1]

\* recordFullScanTaskConflict on the row: the version stays, and so does the
\* etag when the remote side has none (COALESCE).
Conflicted(row, etag) ==
    [row EXCEPT !.status = "conflict", !.etag = IF etag = 0 THEN @ ELSE etag]

\* Mutant of Pending: server_version is not incremented.
PendingSameVersion(row, content) ==
    [row EXCEPT !.raw = content, !.status = "pending"]

\* The row as the prepare transaction of an edit or an undo leaves it.
Pending(row, content) ==
    [row EXCEPT !.raw = content, !.status = "pending", !.ver = @ + 1]

\* The row as the mark after an accepted PUT leaves it.
Synced(row, etag) ==
    [row EXCEPT !.etag = etag, !.status = "synced", !.ver = @ + 1]

NewConflict(type, base, local, remote) ==
    [type |-> type, base |-> base, local |-> local, remote |-> remote,
     open |-> TRUE]

-----------------------------------------------------------------------------
(***************************************************************************)
(* ApplyFullScanProject, for one local row.                                *)
(***************************************************************************)
\* localTaskIsClean: no local change that the server has not seen.  A row
\* in state error counts as clean when its text is the base text.
Clean(row) == row.status \in {"synced", "error"} /\ row.raw = row.base

\* Mutant of RemoteChanged: trusts the etag alone.
RemoteChangedETagOnly(row, remote, etag) == row.etag # etag

\* remoteTaskChanged
RemoteChanged(row, remote, etag) == row.base # remote \/ row.etag # etag

\* What becomes of the row that the scanned object belongs to.
VerdictIf(changed, row, remote) ==
    IF row.status = "conflict" \/ ~changed THEN "keep"
    ELSE IF row.raw = remote \/ Clean(row) THEN "import"
    ELSE IF ~MergeConflict(row.base, row.raw, remote) THEN "merge"
    ELSE "field_conflict"

Verdict(row, remote, etag) ==
    VerdictIf(RemoteChanged(row, remote, etag), row, remote)

\* Mutant of MissingVerdict: clean rows are not deleted.
MissingVerdictKeep(row) ==
    IF row.status \in {"conflict", "absent"} \/ Clean(row) THEN "keep"
    ELSE "edit_delete"

\* What becomes of a row that no scanned object belongs to.
MissingVerdict(row) ==
    CASE row.status \in {"conflict", "absent"} -> "keep"
      [] Clean(row) -> "delete"
      [] OTHER -> "edit_delete"

AfterVerdict(row, verdict, remote, etag) ==
    CASE verdict = "keep" -> row
      [] verdict = "import" -> Imported(row, remote, etag)
      [] verdict = "merge" ->
            Imported(row, MergedVTODO(row.base, row.raw, remote), etag)
      [] verdict = "field_conflict" -> Conflicted(row, etag)
      [] verdict = "edit_delete" -> Conflicted(row, 0)
      [] verdict = "delete" -> [row EXCEPT !.status = "absent"]

\* Mutant of ConflictsAfterVerdict: base and local text are swapped.
ConflictsAfterVerdictSwapped(list, row, verdict, remote) ==
    IF verdict \in {"field_conflict", "edit_delete"}
    THEN Append(list, NewConflict(verdict, row.raw, row.base,
                      IF verdict = "edit_delete" THEN NoText ELSE remote))
    ELSE list

\* The rows that the scan adds to conflicts.
ConflictsAfterVerdict(list, row, verdict, remote) ==
    IF verdict \in {"field_conflict", "edit_delete"}
    THEN Append(list, NewConflict(verdict, row.base, row.raw,
                      IF verdict = "edit_delete" THEN NoText ELSE remote))
    ELSE list
=============================================================================
