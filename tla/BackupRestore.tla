---------------------------- MODULE BackupRestore ----------------------------
(* Restoring a backup of the configuration: src-tauri/src/backup.rs.            *)
(*                                                                              *)
(* Commands on local backups hold config_lock; only a restore is long enough to *)
(* be seen half done, so it is a record (`restore`) and the others are single   *)
(* steps.  A restore writes one file per step, in the order of the paths but    *)
(* for the profiles' among themselves, which is left open.  Beside it the core dies and is relaunched, a backup file is damaged, *)
(* and the application dies between any two steps.                              *)
(*                                                                              *)
(* A backup is a function from paths to contents; its id, label and checksums   *)
(* go with it.  A command that a check refuses before its first effect changes  *)
(* nothing and is a guard here.                                                 *)
EXTENDS BackupArchive, Integers, FiniteSets, Functions

CONSTANTS
  Profiles,        \* profile ids
  Configurations,  \* what the user's profiles may be: see IsConfiguration
  Imported,        \* what a backup from elsewhere may hold
  Ports,           \* of the settings that a restore leaves alone
  BackupMishaps    \* bound on failing calls, damage and deaths, together

VARIABLES
  files,           \* the configuration directory
  memory,          \* AppState::settings, Missing while the application is dead
  mihomo,          \* the core: "off", "up", or "relaunch"; and what it loaded
  restore,         \* the restore that holds config_lock, or NoRestore
  whole,           \* ghost: the files that were last committed
  torn,            \* ghost: a restore was cut short and no other completed
  dropped,         \* ghost: a backup of `whole` was deleted or damaged since
  told,            \* ghost: the user was told that the core may run something else
  unseen,          \* ghost: a core came up after a restore had found it down
  mishapsSoFar

backupVars == <<files, memory, mihomo, archive, restore, used, whole, torn, dropped,
                told, unseen, mishapsSoFar>>

ghosts == <<whole, torn, dropped, told, unseen>>

(**************************** files and backups ******************************)

IndexFile    == <<"profiles.json">>
SettingsFile == <<"settings.json">>
RuntimeFile  == <<"runtime.yaml">>
BodyFile(p)  == <<"profiles", p>>

BackedUp == {IndexFile, SettingsFile} \cup {BodyFile(p) : p \in Profiles}
Files    == BackedUp \cup {RuntimeFile}

\* The order of a BTreeMap over the paths, in which '.' sorts before '/', and the
\* runtime file after them.
Turn(f) == CASE f = IndexFile -> 1 [] f = SettingsFile -> 3 [] f = RuntimeFile -> 4 [] OTHER -> 2
IsFirst(f, left) == f \in left /\ \A g \in left : Turn(f) <= Turn(g)
IsLast(f, left)  == f \in left /\ \A g \in left : Turn(g) <= Turn(f)

\* profiles.json: who is listed and who is current.
Lists(index, current) == [listed |-> index, current |-> current]
Indexes == [listed : SUBSET Profiles, current : Profiles \cup {Missing}]

\* A user's profiles and theme; settings.json also holds what stays local.
IsConfiguration(c) ==
  /\ c.index \in Indexes
  /\ c.index.current \in c.index.listed \cup {Missing}
  /\ DOMAIN c.body = c.index.listed

ASSUME ConfigurationsAreWhole == \A c \in Configurations \cup Imported : IsConfiguration(c)
\* What a settings.json may hold.
StoredSettings == [theme : {c.theme : c \in Configurations \cup Imported}, port : Ports]

ASSUME MissingIsNoContent == Missing \notin Indexes \cup StoredSettings \cup Profiles
ASSUME MishapsAreBounded == BackupMishaps \in Nat

Contents(c, port) ==
  [f \in BackedUp |->
     CASE f = IndexFile -> c.index
       [] f = SettingsFile -> [theme |-> c.theme, port |-> port]
       [] OTHER -> IF f[2] \in c.index.listed THEN c.body[f[2]] ELSE Missing]

\* configuration_files and create: what is there, with an empty index for none.
Snapshot(fs) ==
  [f \in BackedUp |-> IF f = IndexFile /\ fs[f] = Missing THEN Lists({}, Missing) ELSE fs[f]]

\* validate_snapshot: both indexes are there and every listed profile has its file.
IsValid(b) ==
  /\ Readable(b)
  /\ b[SettingsFile] # Missing
  /\ \A p \in b[IndexFile].listed : b[BodyFile(p)] # Missing

\* build_runtime_from_files: the settings and the current profile.
RuntimeOf(fs) ==
  [settings |-> fs[SettingsFile],
   body |-> LET p == fs[IndexFile].current IN IF p = Missing THEN Missing ELSE fs[BodyFile(p)]]

\* What build_runtime_from_files leaves beside the files it reads.
Built(fs) == [f \in Files |-> IF f = RuntimeFile THEN RuntimeOf(fs) ELSE fs[f]]

\* prepare_restore: the backup, with the settings that are tied to this machine
\* taken from memory.
Plan(b) ==
  Built([b EXCEPT ![SettingsFile] = [theme |-> b[SettingsFile].theme, port |-> memory.port]])

(********************************* commands **********************************)

NoRestore == [phase |-> "none"]
Alive     == memory # Missing
Unlocked  == Alive /\ restore = NoRestore        \* config_lock is free
Trouble   == mishapsSoFar < BackupMishaps /\ mishapsSoFar' = mishapsSoFar + 1
Up(r)     == [state |-> "up", runs |-> r]
NotUp(s)  == [state |-> s, runs |-> Missing]


\* Losing a backup of the committed files while they are not all in place.
Loses(id) == 
  dropped' = (dropped \/ ((torn \/ restore # NoRestore) /\ archive[id] = Snapshot(whole)))

\* backup_create, and backup_import of a file from elsewhere.
Create(id) ==
  /\ Unlocked /\ IsValid(Snapshot(files)) /\ Archive(id, Snapshot(files))
  /\ UNCHANGED <<files, memory, mihomo, restore, ghosts, mishapsSoFar>>

Import(id, b) ==
  /\ Unlocked /\ IsValid(b) /\ Archive(id, b)
  /\ UNCHANGED <<files, memory, mihomo, restore, ghosts, mishapsSoFar>>

Delete(id) ==
  /\ Unlocked /\ Discard(id) /\ Loses(id)
  /\ UNCHANGED <<files, memory, mihomo, restore, whole, torn, told, unseen, mishapsSoFar>>

Damage(id) ==
  /\ Spoil(id) /\ Trouble /\ Loses(id)
  /\ UNCHANGED <<files, memory, mihomo, restore, whole, torn, told, unseen>>

\* Any other command that holds config_lock: the store after it is whole again,
\* and a running core has loaded it.
Edit(c, port) ==
  /\ Unlocked /\ ~torn
  /\ LET new == Contents(c, port) IN
     /\ new # whole
     /\ files' = Built(new)
     /\ memory' = new[SettingsFile]
     /\ whole' = new
  /\ mihomo' = IF mihomo.state = "up" THEN Up(files'[RuntimeFile]) ELSE mihomo
  /\ told' = (told /\ mihomo.state # "up") /\ unseen' = (unseen /\ mihomo.state # "up")
  /\ UNCHANGED <<archive, restore, used, torn, dropped, mishapsSoFar>>

(******************************** a restore **********************************)

\* Mutant: what is there now is not backed up.
RestoreWithoutBackup(id, safety) ==
  /\ Unlocked /\ IsValid(archive[id]) /\ safety \notin used /\ IsValid(Snapshot(files))
  /\ restore' = [phase |-> "status", plan |-> Plan(archive[id])]
  /\ dropped' = (dropped /\ torn)
  /\ UNCHANGED <<files, memory, mihomo, whole, torn, told, unseen, mishapsSoFar, archive, used>>

\* backup_restore up to its first write: the backup is loaded and checked, the
\* plan made and built, and what is there now backed up under a new id.
Restore(id, safety) ==
  /\ Unlocked /\ IsValid(archive[id])
  /\ IsValid(Snapshot(files)) /\ Archive(safety, Snapshot(files))
  /\ restore' = [phase |-> "status", plan |-> Plan(archive[id])]
  /\ dropped' = (dropped /\ torn)
  /\ UNCHANGED <<files, memory, mihomo, whole, torn, told, unseen, mishapsSoFar>>

\* What apply_restore begins with: a snapshot of the files and the memory.
Applies(left) ==
  [phase |-> "write", plan |-> restore.plan, running |-> mihomo.state = "up",
   before |-> files, settings |-> memory, left |-> left \cup {RuntimeFile},
   tried |-> FALSE, errors |-> FALSE, again |-> FALSE]

\* Mutant: only what the backup holds is replaced; other profiles stay.
StatusKeepsOthers ==
  /\ Alive /\ restore.phase = "status"
  /\ restore' = Applies({f \in BackedUp : restore.plan[f] \notin {Missing, files[f]}})
  /\ UNCHANGED <<files, memory, mihomo, archive, used, ghosts, mishapsSoFar>>

\* core::status, and apply_restore begins.  The paths are those that are there and
\* those of the backup; a file that stays as it is is left out, since writing it
\* changes nothing.
Status ==
  /\ Alive /\ restore.phase = "status"
  /\ restore' = Applies({f \in BackedUp : files[f] # restore.plan[f]})
  /\ UNCHANGED <<files, memory, mihomo, archive, used, ghosts, mishapsSoFar>>

\* The result was an error: memory goes back at once, then the files in reverse.
Fails(r) ==
  [r EXCEPT !.phase = "undo", !.left = {f \in Files : files[f] # r.before[f]},
            !.errors = FALSE]

\* One file is replaced, created or removed, or the call fails.
WriteFile ==
  /\ Alive /\ restore.phase = "write"
  /\ \E f \in Files :
     /\ IsFirst(f, restore.left)
     /\ \/ /\ files' = [files EXCEPT ![f] = restore.plan[f]]
           /\ restore' = [restore EXCEPT !.left = @ \ {f}]
           /\ UNCHANGED mishapsSoFar
        \/ /\ Trouble /\ UNCHANGED files
           /\ restore' = Fails(restore)
  /\ UNCHANGED <<memory, mihomo, archive, used, ghosts>>

\* The settings in memory follow the files; a core that ran is told.
SetMemory ==
  /\ Alive /\ restore.phase = "write" /\ restore.left = {}
  /\ memory' = restore.plan[SettingsFile]
  /\ restore' = [restore EXCEPT !.phase = IF restore.running THEN "reload" ELSE "commit",
                                !.tried = restore.running]
  /\ UNCHANGED <<files, mihomo, archive, used, ghosts, mishapsSoFar>>

\* reload_runtime looks for the core itself and does nothing without one.  When
\* it fails the core may have loaded the file all the same.
Reload ==
  /\ Alive /\ restore.phase = "reload"
  /\ \/ /\ mihomo' = IF mihomo.state = "up" THEN Up(files[RuntimeFile]) ELSE mihomo
        /\ restore' = [restore EXCEPT !.phase = "commit"]
        /\ UNCHANGED <<memory, mishapsSoFar>>
     \/ /\ mihomo.state = "up" /\ Trouble
        /\ mihomo' \in {mihomo, Up(files[RuntimeFile])}
        /\ memory' = restore.settings
        /\ restore' = Fails(restore)
  /\ UNCHANGED <<files, archive, used, ghosts>>

\* transaction.commit.
CommitRestore ==
  /\ Alive /\ restore.phase = "commit"
  /\ restore' = NoRestore
  /\ whole' = Restrict(restore.plan, BackedUp)
  /\ torn' = FALSE /\ dropped' = FALSE
  /\ told' = (told /\ ~restore.running) /\ unseen' = (unseen /\ ~restore.running)
  /\ UNCHANGED <<files, memory, mihomo, archive, used, mishapsSoFar>>

\* FileTransaction::rollback: a file that cannot be put back does not keep the
\* others from being put back.
UndoFile ==
  /\ Alive /\ restore.phase = "undo"
  /\ \E f \in Files :
     /\ IsLast(f, restore.left)
     /\ \/ /\ files' = [files EXCEPT ![f] = restore.before[f]]
           /\ restore' = [restore EXCEPT !.left = @ \ {f}]
           /\ UNCHANGED mishapsSoFar
        \/ /\ Trouble /\ UNCHANGED files
           /\ restore' = [restore EXCEPT !.left = @ \ {f}, !.errors = TRUE]
  /\ UNCHANGED <<memory, mihomo, archive, used, ghosts>>

\* Mutant: the old file is loaded only if the new one was refused.
EndUndoWithoutReload ==
  /\ Alive /\ restore.phase = "undo" /\ restore.left = {}
  /\ restore' = IF restore.errors /\ ~restore.again
                THEN [Fails(restore) EXCEPT !.again = TRUE] ELSE NoRestore
  /\ torn' = (torn \/ (restore.again /\ restore.errors))
  /\ told' = (told \/ restore.errors)
  /\ UNCHANGED <<files, memory, mihomo, archive, used, whole, dropped, unseen, mishapsSoFar>>

\* After the rollback.  If it failed the reload is skipped, the user is told, and
\* the transaction's Drop tries the files once more; otherwise a reload that was
\* tried is tried with the old file.
EndUndo ==
  /\ Alive /\ restore.phase = "undo" /\ restore.left = {}
  /\ \/ /\ restore.errors /\ ~restore.again
        /\ restore' = [Fails(restore) EXCEPT !.again = TRUE]
        /\ told' = TRUE /\ UNCHANGED torn
     \/ /\ restore.again
        /\ restore' = NoRestore
        /\ torn' = (torn \/ restore.errors) /\ UNCHANGED told
     \/ /\ ~restore.errors /\ ~restore.again
        /\ restore' = IF restore.tried THEN [restore EXCEPT !.phase = "resume"] ELSE NoRestore
        /\ UNCHANGED <<torn, told>>
  /\ UNCHANGED <<files, memory, mihomo, archive, used, whole, dropped, unseen, mishapsSoFar>>

\* The reload of the old file; a failure is told.
Resume ==
  /\ Alive /\ restore.phase = "resume"
  /\ restore' = NoRestore
  /\ \/ /\ mihomo' = IF mihomo.state = "up" THEN Up(files[RuntimeFile]) ELSE mihomo
        /\ UNCHANGED <<told, mishapsSoFar>>
     \/ /\ mihomo.state = "up" /\ Trouble
        /\ mihomo' \in {mihomo, Up(files[RuntimeFile])}
        /\ told' = TRUE
  /\ UNCHANGED <<files, memory, archive, used, whole, torn, dropped, unseen>>

(******************* the core, the application's death and start *************)

CoreDies ==
  /\ mihomo.state = "up" /\ restore # NoRestore
  /\ mihomo' = NotUp("relaunch")
  /\ UNCHANGED <<files, memory, archive, restore, used, ghosts, mishapsSoFar>>

\* The relaunch takes no lock and reads the runtime file as it finds it.
CoreComesBack ==
  /\ Alive /\ mihomo.state = "relaunch"
  /\ mihomo' = Up(files[RuntimeFile])
  /\ told' = (told /\ restore # NoRestore)
  /\ unseen' = (restore.phase \in {"write", "undo", "commit"} /\ ~restore.running)
  /\ UNCHANGED <<files, memory, archive, restore, used, whole, torn, dropped,
                  mishapsSoFar>>

\* core::start and core::stop, under the lock.
StartOrStop ==
  /\ Unlocked
  /\ mihomo' = IF mihomo.state = "up" THEN NotUp("off") ELSE Up(files[RuntimeFile])
  /\ told' = FALSE /\ unseen' = FALSE
  /\ UNCHANGED <<files, memory, archive, restore, used, whole, torn, dropped, mishapsSoFar>>

\* The application dies in a command; its sidecar goes with it.
ApplicationDies ==
  /\ Alive /\ restore # NoRestore /\ Trouble
  /\ memory' = Missing
  /\ mihomo' = NotUp("off")
  /\ restore' = NoRestore
  /\ torn' = (torn \/ restore.phase # "status")
  /\ told' = FALSE /\ unseen' = FALSE
  /\ UNCHANGED <<files, archive, used, whole, dropped>>

\* AppState::init, then a build of the runtime if the files allow it.
Starts ==
  /\ ~Alive
  /\ memory' = files[SettingsFile]
  /\ files' = IF IsValid(Snapshot(files))
              THEN [files EXCEPT ![RuntimeFile] = RuntimeOf(Snapshot(files))] ELSE files
  /\ UNCHANGED <<mihomo, archive, restore, used, ghosts, mishapsSoFar>>

\* The user deletes the profiles whose files a torn restore left out; until then
\* the store cannot be backed up, and so nothing can be restored.
Mend ==
  /\ Unlocked /\ torn /\ ~IsValid(Snapshot(files))
  /\ LET index == files[IndexFile]
         left  == {p \in index.listed : files[BodyFile(p)] # Missing}
         next  == IF index.current \in left \/ left = {} THEN left \cap {index.current} ELSE left
     IN \E p \in (IF next = {} THEN {Missing} ELSE next) :
          files' = Built([files EXCEPT ![IndexFile] = Lists(left, p)])
  /\ mihomo' = IF mihomo.state = "up" THEN Up(files'[RuntimeFile]) ELSE mihomo
  /\ UNCHANGED <<memory, archive, restore, used, ghosts, mishapsSoFar>>

(****************************** specification ********************************)

StartsWith(c, port, core) ==
  /\ whole = Contents(c, port)
  /\ files = Built(whole)
  /\ memory = whole[SettingsFile]
  /\ mihomo = IF core = "up" THEN Up(files[RuntimeFile]) ELSE NotUp(core)
  /\ archive = NoBackups /\ used = {}
  /\ restore = NoRestore
  /\ torn = FALSE /\ dropped = FALSE /\ told = FALSE /\ unseen = FALSE
  /\ mishapsSoFar = 0

BackupInit ==
  \E c \in Configurations, port \in Ports, core \in {"off", "up"} : StartsWith(c, port, core)

ArchiveCommand ==
  \/ \E id \in BackupIds : Create(id) \/ Delete(id) \/ Damage(id)
  \/ \E id \in BackupIds, c \in Imported, port \in Ports : Import(id, Contents(c, port))

RestoreStep ==
  \/ \E id, safety \in BackupIds : Restore(id, safety)
  \/ Status \/ WriteFile \/ SetMemory \/ Reload \/ CommitRestore
  \/ UndoFile \/ EndUndo \/ Resume

BackupEnvironment ==
  \/ \E c \in Configurations, port \in Ports : Edit(c, port)
  \/ CoreDies \/ CoreComesBack \/ StartOrStop
  \/ ApplicationDies \/ Starts \/ Mend

BackupNext == ArchiveCommand \/ RestoreStep \/ BackupEnvironment

BackupSpec == BackupInit /\ [][BackupNext]_backupVars

(******************************** properties *********************************)

\* A restore is all or nothing: between commands the files are exactly those that
\* were last committed, or the old ones after an error, the settings in memory are
\* those of the file, and runtime.yaml is what the files build to.  Excepted are
\* the windows of apply_restore in which the application died or a file could not
\* be put back (backup.rs:593-612, 624-625), until the next restore.
RestoreIsWhole ==
  Unlocked /\ ~torn =>
    /\ Restrict(files, BackedUp) = whole
    /\ memory = files[SettingsFile]
    /\ files[RuntimeFile] = RuntimeOf(files)

\* While a restore writes, and after one that was cut short, a backup of what was
\* there before is in the archive (backup.rs:696), unless the user deleted it or
\* the disk lost it since.
OldConfigurationIsKept ==
  (torn \/ restore # NoRestore) /\ ~dropped =>
    \E id \in BackupIds : archive[id] = Snapshot(whole)

\* A running core runs runtime.yaml after every restore and every rollback, unless
\* the user was told otherwise.  Excepted is a core that was relaunched after
\* core::status had found it down: no reload follows (backup.rs:701, 616).
CoreRunsRestored ==
  Unlocked /\ ~torn /\ mihomo.state = "up" /\ ~told /\ ~unseen =>
    mihomo.runs = files[RuntimeFile]
=============================================================================
