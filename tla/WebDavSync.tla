----------------------------- MODULE WebDavSync -----------------------------
(* Copies of backups on a WebDAV server: src-tauri/src/backup_webdav.rs, over    *)
(* the local archive.  The lock of the configuration is held only while a        *)
(* backup is read or saved, so calls of this machine, the commands on the        *)
(* archive and the calls of other machines mix; requests and answers get lost.   *)
EXTENDS BackupArchive, Integers

CONSTANTS
  Texts,           \* what backups may hold
  Calls,           \* the calls to the server that may wait at once
  SyncMishaps      \* bound on lost requests and answers, and on damage

ASSUME SyncMishapsAreBounded == SyncMishaps \in Nat
ASSUME TextsAreReadable == Missing \notin Texts /\ Damaged \notin Texts

VARIABLES
  server,          \* the collection: id -> backup, Missing or Damaged
  calls,           \* the uploads and downloads under way
  stored,          \* ghost: <<id, backup>> that an upload reported as stored
  lost             \* what went wrong so far

syncVars == <<archive, used, server, calls, stored, lost>>

NoCall == [kind |-> "none"]
SomethingIsLost == lost < SyncMishaps /\ lost' = lost + 1
Returns(t) == calls' = [calls EXCEPT ![t] = NoCall]

\* backup_webdav_upload reads the backup under the lock and lets go of it.
StartUpload(t, id) ==
  /\ calls[t] = NoCall /\ Readable(archive[id])
  /\ calls' = [calls EXCEPT ![t] = [kind |-> "put", id |-> id, backup |-> archive[id]]]
  /\ UNCHANGED <<archive, server, used, stored, lost>>

\* What the server makes of a PUT with If-None-Match: *: it takes what is new,
\* keeps what is there, and may be cut off in the middle of a new file.
Accepts(id, b) ==
  IF server[id] # Missing THEN {server[id]} ELSE {b, Missing, Damaged}

\* MKCOL and PUT.  An error or a lost answer ends the call with the server in any
\* of these states; 412 counts as success until the file is read back.
Put(t) ==
  /\ calls[t].kind = "put"
  /\ LET id == calls[t].id b == calls[t].backup IN
     \/ /\ server' = [server EXCEPT ![id] = IF @ = Missing THEN b ELSE @]
        /\ calls' = [calls EXCEPT ![t].kind = "read back"]
        /\ UNCHANGED lost
     \/ /\ SomethingIsLost
        /\ \E after \in Accepts(id, b) : server' = [server EXCEPT ![id] = after]
        /\ Returns(t)
  /\ UNCHANGED <<archive, used, stored>>

\* Mutant: the answer to PUT is taken for the result, 412 included.
ReadBackNothing(t) ==
  /\ calls[t].kind = "read back"
  /\ stored' = stored \cup {<<calls[t].id, calls[t].backup>>}
  /\ Returns(t)
  /\ UNCHANGED <<archive, server, used, lost>>

\* The file is read back and compared: only equal bytes are a success.
ReadBack(t) ==
  /\ calls[t].kind = "read back"
  /\ stored' = IF server[calls[t].id] = calls[t].backup
               THEN stored \cup {<<calls[t].id, calls[t].backup>>} ELSE stored
  /\ Returns(t)
  /\ UNCHANGED <<archive, server, used, lost>>

\* backup_webdav_download: the lock is not held while the server answers.
Download(t, id) ==
  /\ calls[t] = NoCall /\ Readable(server[id])
  /\ calls' = [calls EXCEPT ![t] = [kind |-> "save", id |-> id, backup |-> server[id]]]
  /\ UNCHANGED <<archive, server, used, stored, lost>>

\* save_snapshot: a file of that name stays as it is.
SaveDownload(t) ==
  /\ calls[t].kind = "save"
  /\ Keep(calls[t].id, calls[t].backup)
  /\ Returns(t)
  /\ UNCHANGED <<server, stored, lost>>

\* A request without an answer, other than a PUT, had no effect.
CallFails(t) ==
  /\ calls[t].kind \in {"read back", "save"} /\ SomethingIsLost
  /\ Returns(t)
  /\ UNCHANGED <<archive, server, used, stored>>

\* backup_webdav_delete, of this machine or another one.
DeleteRemote(id) ==
  /\ server[id] # Missing
  /\ server' = [server EXCEPT ![id] = Missing]
  /\ stored' = {s \in stored : s[1] # id}
  /\ UNCHANGED <<archive, calls, used, lost>>

\* Another machine uploads a backup of its own.
UploadElsewhere(id, b) ==
  /\ id \notin used
  /\ server' = [server EXCEPT ![id] = b]
  /\ used' = used \cup {id}
  /\ UNCHANGED <<archive, calls, stored, lost>>

(****************************** the local archive *****************************)

LocalOnly == UNCHANGED <<server, calls, stored>>

\* backup_create and backup_import.
Save(id, b) == Archive(id, b) /\ LocalOnly /\ UNCHANGED lost

RemoveLocal(id) == Discard(id) /\ LocalOnly /\ UNCHANGED lost

DiskDamages(id) == Spoil(id) /\ SomethingIsLost /\ LocalOnly

(****************************** specification ********************************)

SyncInit ==
  /\ archive = NoBackups /\ server = NoBackups
  /\ used = {} /\ stored = {} /\ lost = 0
  /\ calls = [t \in Calls |-> NoCall]

SyncNext ==
  \/ \E t \in Calls, id \in BackupIds : StartUpload(t, id) \/ Download(t, id)
  \/ \E t \in Calls : Put(t) \/ ReadBack(t) \/ SaveDownload(t) \/ CallFails(t)
  \/ \E id \in BackupIds : DeleteRemote(id) \/ RemoveLocal(id) \/ DiskDamages(id)
  \/ \E id \in BackupIds, b \in Texts : UploadElsewhere(id, b) \/ Save(id, b)

SyncSpec == SyncInit /\ [][SyncNext]_syncVars

(******************************** properties *********************************)

\* Every copy of a backup there is: here, on the server, and in calls under way.
Copies(id) ==
  {archive[id], server[id]}
    \cup {calls[t].backup : t \in {u \in Calls : calls[u] # NoCall /\ calls[u].id = id}}

\* An id names one backup: copies here, on the server and on the way agree, however
\* imports, uploads and downloads of several machines are mixed (backup.rs:526,
\* 393; backup_webdav.rs:267-304).
IdNamesOneBackup ==
  \A id \in BackupIds : \A a, b \in Copies(id) : Readable(a) /\ Readable(b) => a = b

\* What an upload reported as stored stays on the server, unharmed, until it is
\* deleted there: no later upload of the same backup, however it ends, replaces it.
UploadedStays == \A s \in stored : server[s[1]] = s[2]

\* Backups can be told apart by their ids and are safe where they are stored, through
\* lost answers, 412 and damage (backup_webdav.rs:267-304).
CopiesAgree == IdNamesOneBackup /\ UploadedStays
=============================================================================
