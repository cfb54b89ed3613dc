---------------------------- MODULE BackupArchive ----------------------------
(* The directory of local backups, src-tauri/src/backup.rs: what the commands   *)
(* on it do to it.  BackupRestore and WebDavSync build on it and say what else  *)
(* there is.  A backup is opaque here; `used` are the ids that were ever taken. *)
CONSTANTS
  BackupIds,       \* never used twice: the time and 64 random bits
  Missing,         \* an absent backup, file or value
  Damaged          \* a backup whose checksums do not agree

ASSUME MarksDiffer == Missing # Damaged

VARIABLES archive, used

NoBackups   == [id \in BackupIds |-> Missing]
Readable(b) == b \notin {Missing, Damaged}

\* save_snapshot under a new id: of backup_create, backup_import and a restore.
Archive(id, b) ==
  /\ id \notin used
  /\ archive' = [archive EXCEPT ![id] = b]
  /\ used' = used \cup {id}

\* save_snapshot of a download: a file of that name stays as it is.
Keep(id, b) ==
  /\ archive' = [archive EXCEPT ![id] = IF @ = Missing THEN b ELSE @]
  /\ UNCHANGED used

\* backup_delete.
Discard(id) ==
  /\ archive[id] # Missing
  /\ archive' = [archive EXCEPT ![id] = Missing]
  /\ UNCHANGED used

\* The disk damages a backup file; its checksums no longer agree.
Spoil(id) ==
  /\ Readable(archive[id])
  /\ archive' = [archive EXCEPT ![id] = Damaged]
  /\ UNCHANGED used
=============================================================================
