---------------------------- MODULE ProfileStore ----------------------------
(* The subscription store of src-tauri/src/profiles.rs over the file           *)
(* transactions of state.rs.                                                   *)
(*                                                                             *)
(* Every command holds config_lock from its first write to its end, so one     *)
(* command runs at a time; it is `cmd`, and it writes one file per step.  What *)
(* runs beside it takes no lock: the download of an update, the reading of a   *)
(* topology editor, the core's crash and relaunch, and the death of the app    *)
(* between any two writes.                                                     *)
(*                                                                             *)
(* A body or a script is <<source, quality>>; "bad" content parses but fails   *)
(* the build or the core's own check of the configuration.                     *)
EXTENDS Integers, Sequences, SequencesExt, FiniteSets, Functions

CONSTANTS
  Ids,           \* profile ids: base36 of the millisecond, never used twice
  Urls,          \* a subscription url with its download options
  ProfileNames,  \* what a profile may be called
  Enhs,          \* ids of enhancers the user creates
  Qualities,     \* of downloaded and typed texts: "good", or "bad" too
  Ops,           \* the commands and core events a run explores
  MaxFetches,    \* bound on downloads in flight
  MaxMishaps,    \* bound on failing calls and deaths of the app, together
  MaxBeside,     \* the same bound while a download waits or an editor is open
  Prune,         \* BUILTIN_PRUNE_ENHANCER_ID
  Global,        \* GLOBAL_ENHANCER_ID
  Local,         \* the url of a profile of kind "local"
  None           \* an absent file, or no value

ASSUME BoundsAreNaturals == {MaxFetches, MaxMishaps, MaxBeside} \subseteq Nat
ASSUME NamesAreDistinct ==
  /\ Prune \notin Enhs /\ "good" \in Qualities
  /\ Global \notin Ids
  /\ Local \notin Urls
  /\ None \notin Ids \cup Urls \cup ProfileNames \cup {Local}
  /\ None \notin (Urls \cup {Local, Prune, Global}) \X Qualities

VARIABLES
  disk,          \* the files of the configuration directory
  cmd,           \* the command that holds config_lock
  core,          \* mihomo: off, up or waiting to be relaunched, and its config
  fetches,       \* updates whose download has ended: they wait for the lock
  editor,        \* the open topology editor: a profile and the text it read
  alive,         \* the app runs
  settled,       \* ghost: a build was committed since the app started
  renamed,       \* ghost: the current profile was renamed since that build
  reported,      \* ghost: the user was told that the running core may differ
  torn,          \* ghost: in which of their windows transactions were cut short
  mishaps        \* failing calls and deaths so far

vars == <<disk, cmd, core, fetches, editor, alive, settled, renamed, reported,
          torn, mishaps>>

(***************************** files and contents ****************************)

Pids == Ids \cup {Global}
Eids == Enhs \cup {Prune}

Index       == <<"index">>             \* profiles.json
GlobalIndex == <<"global">>            \* global-enhancers.json
Runtime     == <<"runtime">>           \* runtime.yaml
Body(id)    == <<"body", id>>          \* profiles/{id}.yaml
Script(pid, eid) == <<"script", pid, eid>>

Files == {Index, GlobalIndex, Runtime} \cup {Body(id) : id \in Ids}
           \cup {Script(pid, eid) : pid \in Pids, eid \in Eids}

Contents  == (Urls \cup {Local}) \X Qualities
Builtin   == <<Prune, "good">>         \* BUILTIN_PRUNE_SCRIPT
Text(q)   == <<Global, q>>             \* what a user typed into an enhancer

\* Looking a profile up in an index, which is a sequence of ProfileMeta.
Has(index, id)  == \E i \in DOMAIN index : index[i].id = id
Slot(index, id) == CHOOSE i \in DOMAIN index : index[i].id = id

\* The elements of a sequence that are in a set, in order.
Only(s, S) ==
  LET kept[n \in 0 .. Len(s)] ==
        IF n = 0 THEN <<>>
        ELSE IF s[n] \in S THEN Append(kept[n - 1], s[n]) ELSE kept[n - 1]
  IN  kept[Len(s)]

\* The profile in use: the first that is marked.
HasCurrent(index) == \E i \in DOMAIN index : index[i].current
CurrentOf(index)  ==
  index[CHOOSE i \in DOMAIN index : index[i].current /\ \A j \in 1 .. i - 1 : ~index[j].current]

\* apply_enhancers: the profile's enabled items, then the global ones; the
\* built-in clean-up sees the result of all others.
Items(pid, entries) ==
  [i \in DOMAIN entries |-> [pid |-> pid, eid |-> entries[i].eid, on |-> entries[i].on]]

Chain(items) ==
  Only(items, [pid : Pids, eid : Enhs, on : {TRUE}])
    \o Only(items, [pid : Pids, eid : {Prune}, on : {TRUE}])

Texts(d, items) ==
  LET chain == Chain(items)
  IN  [i \in DOMAIN chain |-> d[Script(chain[i].pid, chain[i].eid)]]

\* build_runtime_from_files: the texts the configuration is made of, in order.
Sources(d, index) ==
  LET global == Items(Global, d[GlobalIndex])
  IN  IF HasCurrent(index)
      THEN LET p == CurrentOf(index)
           IN  <<d[Body(p.id)]>> \o Texts(d, Items(p.id, p.enhs) \o global)
      ELSE Texts(d, global)

\* The build reads every source and validate_runtime accepts the result.
Buildable(d, index) ==
  \A i \in DOMAIN Sources(d, index) :
     Sources(d, index)[i] # None /\ Sources(d, index)[i][2] = "good"

\* apply_chain_with_profile: the name the items that apply are handed, which a
\* script may use as it likes; without a current profile it is empty.
HandedName(d, index) ==
  IF HasCurrent(index) /\ Len(Sources(d, index)) > 1 THEN CurrentOf(index).name ELSE None

\* What the configuration depends on: all the texts, and the name.
Build(d) == [of |-> Sources(d, d[Index]), name |-> HandedName(d, d[Index])]

(********************************* commands **********************************)

NoCommand == [op |-> "none", phase |-> "idle"]
Idle == alive /\ cmd = NoCommand

Write(f, v) == [file |-> f, to |-> v]

\* A command as it takes the lock: the writes it is going to do, whether a
\* check refuses it after them, what follows the writes (`then`: nothing, a
\* build and reload of the runtime, or only a trial build with the profile
\* `trial` as the current one) and whether it starts a core that is down.
Command(op, id, steps, refused, then, starts, captured) ==
  [op |-> op, id |-> id, phase |-> "write", steps |-> steps, done |-> captured,
   refused |-> refused, then |-> then, starts |-> starts, before |-> disk,
   left |-> <<>>, again |-> FALSE, errors |-> FALSE, reload |-> FALSE]

Captured       == <<Index, Runtime>>
\* Mutant: the global list is not part of the snapshot.
CapturedWithoutGlobal == <<Index, Runtime>>
CapturedGlobal == <<Index, Runtime, GlobalIndex>>
Affects(b)     == IF b THEN "runtime" ELSE "nothing"

Take(op) == Idle /\ op \in Ops

Begin(c) ==
  /\ cmd' = c
  /\ UNCHANGED <<disk, core, alive, settled, renamed, reported, torn, mishaps>>

Meta(id, url, name, first) ==
  [id |-> id, url |-> url, name |-> name, current |-> first,
   enhs |-> <<[eid |-> Prune, on |-> FALSE]>>]

\* Ids are fresh: no profile, file, waiting update or editor has used this one.
Fresh(id) ==
  /\ ~Has(disk[Index], id)
  /\ \A f \in Files : (Len(f) > 1 /\ f[2] = id) => disk[f] = None
  /\ \A u \in fetches : u.id # id
  /\ editor # None => editor.id # id

\* import, import_file: the files first, then the index; a first profile
\* becomes the current one and starts the core.
Import(id, url, name, q) ==
  LET first == disk[Index] = <<>>
      op    == IF url = Local THEN "import_file" ELSE "import"
  IN  /\ Take(op) /\ Fresh(id)
      /\ Begin(Command(op, id,
           <<Write(Body(id), <<url, q>>), Write(Script(id, Prune), Builtin),
             Write(Index, Append(disk[Index], Meta(id, url, name, first)))>>,
           FALSE, Affects(first), first, Captured))
      /\ UNCHANGED <<fetches, editor>>

\* update, up to the lock: the index is read as it is now, perhaps in the middle
\* of another command, and the download takes any time.
Download(id, q) ==
  /\ alive /\ "update" \in Ops /\ mishaps <= MaxBeside
  /\ Has(disk[Index], id)
  /\ Cardinality(fetches) < MaxFetches
  /\ \A u \in fetches : u.id # id
  /\ LET p == disk[Index][Slot(disk[Index], id)]
     IN  /\ p.url # Local
         /\ fetches' = fetches \cup {[id |-> id, url |-> p.url, text |-> <<p.url, q>>]}
  /\ UNCHANGED <<disk, cmd, core, editor, alive, settled, renamed, reported, torn,
                 mishaps>>

\* Mutant: the profile is not compared with what was downloaded.
UpdateAnyway(u) ==
  LET index == disk[Index]
      known == Has(index, u.id)
  IN  /\ Take("update") /\ u \in fetches
      /\ fetches' = fetches \ {u}
      /\ Begin(Command("update", u.id,
           <<Write(Body(u.id), u.text)>> \o (IF known THEN <<Write(Index, index)>> ELSE <<>>),
           ~known, Affects(known /\ index[Slot(index, u.id)].current), FALSE, Captured))
      /\ UNCHANGED editor

\* update, under the lock: the body is written before the profile is looked up
\* again; a profile that is gone or whose url or options changed is refused.
Update(u) ==
  LET index == disk[Index]
      known == Has(index, u.id) /\ index[Slot(index, u.id)].url = u.url
  IN  /\ Take("update") /\ u \in fetches
      /\ fetches' = fetches \ {u}
      /\ Begin(Command("update", u.id,
           <<Write(Body(u.id), u.text)>> \o (IF known THEN <<Write(Index, index)>> ELSE <<>>),
           ~known, Affects(known /\ index[Slot(index, u.id)].current), FALSE, Captured))
      /\ UNCHANGED editor

\* update_meta: another url, other options or another name; a local profile has no
\* url to download from.  Nothing is downloaded, and nothing is built, although
\* scripts are handed the name.
UpdateMeta(id, url, name) ==
  LET index == disk[Index]
      slot  == Slot(index, id)
  IN  /\ Take("update_meta") /\ Has(index, id)
      /\ (index[slot].url = Local) <=> (url = Local)
      /\ Begin(Command("update_meta", id,
           <<Write(Index, [index EXCEPT ![slot].url = url, ![slot].name = name])>>,
           FALSE, "nothing", FALSE, Captured))
      /\ UNCHANGED <<fetches, editor>>

Select(id) ==
  LET index == disk[Index]
  IN  /\ Take("select") /\ Has(index, id)
      /\ Begin(Command("select", id,
           <<Write(Index, [i \in DOMAIN index |->
                             [index[i] EXCEPT !.current = index[i].id = id]])>>,
           FALSE, "runtime", FALSE, Captured))
      /\ UNCHANGED <<fetches, editor>>

\* Mutant: nobody takes over from a deleted current profile.
WithoutSuccessor(index, id) == Only(index, {p \in ToSet(index) : p.id # id})

\* The index without a profile; the first one left takes over if it was current.
Without(index, id) ==
  LET rest == Only(index, {p \in ToSet(index) : p.id # id})
  IN  IF index[Slot(index, id)].current /\ rest # <<>>
      THEN [rest EXCEPT ![1].current = TRUE]
      ELSE rest

\* Mutant: the files go before the index forgets the profile.
DeleteFilesFirst(id) ==
  LET index == disk[Index]
      old   == index[Slot(index, id)]
  IN  /\ Take("delete") /\ Has(index, id)
      /\ Begin(Command("delete", id,
           <<Write(Body(id), None)>>
             \o [i \in DOMAIN old.enhs |-> Write(Script(id, old.enhs[i].eid), None)]
             \o <<Write(Index, Without(index, id))>>,
           FALSE, Affects(old.current), FALSE, Captured))
      /\ UNCHANGED <<fetches, editor>>

\* delete: the index first, then the files it no longer names.
Delete(id) ==
  LET index == disk[Index]
      old   == index[Slot(index, id)]
  IN  /\ Take("delete") /\ Has(index, id)
      /\ Begin(Command("delete", id,
           <<Write(Index, Without(index, id)), Write(Body(id), None)>>
             \o [i \in DOMAIN old.enhs |-> Write(Script(id, old.enhs[i].eid), None)],
           FALSE, Affects(old.current), FALSE, Captured))
      /\ UNCHANGED <<fetches, editor>>

\* read_content for the topology editor: no lock, so perhaps a body that is
\* about to be rolled back.
OpenEditor(id) ==
  /\ alive /\ "edit" \in Ops /\ mishaps <= MaxBeside
  /\ editor = None /\ Has(disk[Index], id) /\ disk[Body(id)] # None
  /\ editor' = [id |-> id, seen |-> disk[Body(id)]]
  /\ UNCHANGED <<disk, cmd, core, fetches, alive, settled, renamed, reported, torn,
                 mishaps>>

\* The write steps of save_content_checked, for any text and any reason to check.
SaveBody(op, id, q, checked) ==
  LET index   == disk[Index]
      current == index[Slot(index, id)].current
  IN  Command(op, id, <<Write(Body(id), <<Local, q>>), Write(Index, index)>>, FALSE,
              IF current THEN "runtime" ELSE IF checked THEN "trial" ELSE "nothing",
              FALSE, Captured)

\* save_content: the raw text editor, which overwrites whatever is there.
SaveContent(id, q) ==
  /\ Take("save_content") /\ Has(disk[Index], id)
  /\ Begin(SaveBody("save_content", id, q, FALSE))
  /\ UNCHANGED <<fetches, editor>>

\* save_profile_topology: the text is saved only over the text it was made from,
\* and a profile that is not the current one gets a trial build.
SaveTopology(q) ==
  /\ Take("edit") /\ editor # None
  /\ editor' = None
  /\ IF Has(disk[Index], editor.id) /\ disk[Body(editor.id)] = editor.seen
     THEN Begin(SaveBody("edit", editor.id, q, TRUE))
     ELSE UNCHANGED <<disk, cmd, core, alive, settled, renamed, reported, torn, mishaps>>
  /\ UNCHANGED fetches

(************************* enhancers (EnhancerScope) *************************)

InScope(pid) == pid = Global \/ Has(disk[Index], pid)

Entries(pid) ==
  IF pid = Global THEN disk[GlobalIndex] ELSE disk[Index][Slot(disk[Index], pid)].enhs

\* Mutant: the global list is taken to affect no profile.
AffectsOwnOnly(pid) ==
  pid # Global /\ disk[Index][Slot(disk[Index], pid)].current

AffectsRuntime(pid) ==
  pid = Global \/ disk[Index][Slot(disk[Index], pid)].current

SaveScope(pid, entries) ==
  IF pid = Global
  THEN Write(GlobalIndex, entries)
  ELSE Write(Index, [disk[Index] EXCEPT ![Slot(disk[Index], pid)].enhs = entries])

Listed(pid, eid) == \E i \in DOMAIN Entries(pid) : Entries(pid)[i].eid = eid

\* The reorderings of a list: the requested ids are as many as the list's,
\* distinct, and all of them known.
Orders(D) == {f \in [D -> D] : IsInjective(f)}

\* The four enhancer commands differ in their writes only.
Enhance(op, pid, steps) ==
  /\ Take(op)
  /\ Begin(Command(op, pid, steps, FALSE, Affects(AffectsRuntime(pid)), FALSE,
                   CapturedGlobal))
  /\ UNCHANGED <<fetches, editor>>

\* Mutant: the list names the new item before its content is there.
SaveEnhancerListFirst(pid, eid, q) ==
  /\ InScope(pid)
  /\ Listed(pid, eid) \/ (eid \in Enhs /\ disk[Script(pid, eid)] = None)
  /\ Enhance("save_enhancer", pid,
       <<SaveScope(pid, IF Listed(pid, eid) THEN Entries(pid)
                        ELSE Append(Entries(pid), [eid |-> eid, on |-> TRUE])),
         Write(Script(pid, eid), Text(q))>>)

\* save_enhancer: the content, then the list; a new item is enabled.
SaveEnhancer(pid, eid, q) ==
  /\ InScope(pid)
  /\ Listed(pid, eid) \/ (eid \in Enhs /\ disk[Script(pid, eid)] = None)
  /\ Enhance("save_enhancer", pid,
       <<Write(Script(pid, eid), Text(q)),
         SaveScope(pid, IF Listed(pid, eid) THEN Entries(pid)
                        ELSE Append(Entries(pid), [eid |-> eid, on |-> TRUE]))>>)

\* delete_enhancer: the content goes before the list forgets it.
DeleteEnhancer(pid, eid) ==
  /\ InScope(pid) /\ Listed(pid, eid)
  /\ Enhance("delete_enhancer", pid,
       <<Write(Script(pid, eid), None),
         SaveScope(pid, Only(Entries(pid), {e \in ToSet(Entries(pid)) : e.eid # eid}))>>)

ToggleEnhancer(pid, eid) ==
  /\ InScope(pid) /\ Listed(pid, eid)
  /\ Enhance("toggle_enhancer", pid,
       <<SaveScope(pid, [i \in DOMAIN Entries(pid) |->
            IF Entries(pid)[i].eid = eid THEN [Entries(pid)[i] EXCEPT !.on = ~@]
                                         ELSE Entries(pid)[i]])>>)

ReorderEnhancers(pid) ==
  /\ InScope(pid)
  /\ \E order \in Orders(DOMAIN Entries(pid)) :
        Enhance("reorder_enhancers", pid,
          <<SaveScope(pid, [i \in DOMAIN order |-> Entries(pid)[order[i]]])>>)

(************************** running the command *****************************)

\* A call fails, or the app dies.
Mishap ==
  /\ mishaps < MaxMishaps
  /\ (fetches = {} /\ editor = None) \/ mishaps < MaxBeside
  /\ mishaps' = mishaps + 1

\* Mutant: the rollback is never followed by a reload.
UndoSilently(c, d) ==
  [c EXCEPT !.phase = "undo", !.left = Reverse(c.done), !.again = (c.op = "startup")]

\* The failed part of a transaction begins: its files in reverse order, and
\* whether runtime.yaml had been replaced (finish_transaction).  The start-up
\* has only the Drop of its transaction.
Undo(c, d) ==
  [c EXCEPT !.phase = "undo", !.left = Reverse(c.done), !.again = (c.op = "startup"),
            !.reload = (d[Runtime] # c.before[Runtime])]

\* A start-up has nothing to roll back once its migration is committed.
Fail(c, d) == IF c.op = "startup" /\ c.phase # "write" THEN NoCommand ELSE Undo(c, d)

\* The files that the transaction does not write itself: save_index and its like
\* replace them directly, so that only the initial capture can restore them.
Untracked == {Index, GlobalIndex, Runtime}

\* FileTransaction::write and ::remove, and the index writes between them.
WriteStep ==
  /\ alive /\ cmd.phase = "write" /\ cmd.steps # <<>>
  /\ LET s  == Head(cmd.steps)
         c  == [cmd EXCEPT !.steps = Tail(@),
                           !.done = IF s.file \in Untracked \cup ToSet(@)
                                    THEN @ ELSE Append(@, s.file)]
     IN  \/ /\ disk' = [disk EXCEPT ![s.file] = s.to]
            /\ cmd' = c
            /\ UNCHANGED mishaps
         \/ /\ Mishap
            /\ cmd' = Undo(c, disk)
            /\ UNCHANGED disk
  /\ UNCHANGED <<core, fetches, editor, alive, settled, renamed, reported, torn>>

\* The command has given the current profile another name.
Renames ==
  /\ cmd.op = "update_meta" /\ HasCurrent(disk[Index])
  /\ CurrentOf(disk[Index]).name # CurrentOf(cmd.before[Index]).name

\* What a successful command leaves: transaction.commit.
Commit(built) ==
  /\ cmd' = NoCommand
  /\ settled' = (settled \/ built)
  /\ renamed' = (~built /\ (renamed \/ Renames))

\* The index a trial build uses: the edited profile as if it were the current one.
Trial(index, id) == [i \in DOMAIN index |-> [index[i] EXCEPT !.current = index[i].id = id]]

\* All writes are done: refuse, commit, or build.  A trial build may also fail
\* because the core that checks it cannot be run.
AfterWrites ==
  /\ alive /\ cmd.phase = "write" /\ cmd.steps = <<>>
  /\ \/ /\ cmd.refused
        /\ cmd' = Undo(cmd, disk)
        /\ UNCHANGED <<settled, renamed, mishaps>>
     \/ /\ ~cmd.refused /\ cmd.then = "nothing"
        /\ Commit(FALSE)
        /\ UNCHANGED mishaps
     \/ /\ ~cmd.refused /\ cmd.then = "trial" /\ Buildable(disk, Trial(disk[Index], cmd.id))
        /\ Commit(FALSE)
        /\ UNCHANGED mishaps
     \/ /\ ~cmd.refused /\ cmd.then = "trial"
        /\ \/ ~Buildable(disk, Trial(disk[Index], cmd.id)) /\ UNCHANGED mishaps
           \/ Mishap
        /\ cmd' = Undo(cmd, disk)
        /\ UNCHANGED <<settled, renamed>>
     \/ /\ ~cmd.refused /\ cmd.then = "runtime"
        /\ cmd' = [cmd EXCEPT !.phase = "build"]
        /\ UNCHANGED <<settled, renamed, mishaps>>
  /\ UNCHANGED <<disk, core, fetches, editor, alive, reported, torn>>

\* regenerate_runtime: build from the files on disk, let the core check the
\* result, then replace runtime.yaml.
Regenerate ==
  /\ alive /\ cmd.phase = "build"
  /\ \/ /\ Buildable(disk, disk[Index])
        /\ disk' = [disk EXCEPT ![Runtime] = Build(disk)]
        /\ cmd' = [cmd EXCEPT !.phase = "apply"]
        /\ UNCHANGED mishaps
     \/ /\ ~Buildable(disk, disk[Index])
        /\ cmd' = Fail(cmd, disk)
        /\ UNCHANGED <<disk, mishaps>>
     \/ /\ Mishap
        /\ cmd' = Fail(cmd, disk)
        /\ UNCHANGED disk
  /\ UNCHANGED <<core, fetches, editor, alive, settled, renamed, reported, torn>>

Running(config) == [state |-> "up", config |-> config]
Down(state)     == [state |-> state, config |-> None]

\* reload_runtime or core::start on success, in either phase that uses them.
Applied(starts) ==
  /\ core' = IF core.state = "up" \/ starts THEN Running(disk[Runtime]) ELSE core
  /\ reported' = (reported /\ core'.state # "up")

\* The reload of a running core, or the start of one that is down, succeeds.
ApplyRuntime ==
  /\ alive /\ cmd.phase = "apply"
  /\ Applied(cmd.starts)
  /\ Commit(TRUE)
  /\ UNCHANGED <<disk, fetches, editor, alive, torn, mishaps>>

\* It fails: the core refused, did not start, or took the file and its answer was lost.
ApplyFails ==
  /\ alive /\ cmd.phase = "apply"
  /\ core.state = "up" \/ cmd.starts
  /\ Mishap
  /\ core' \in {core} \cup (IF core.state = "up" THEN {Running(disk[Runtime])} ELSE {})
  /\ cmd' = Fail(cmd, disk)
  /\ UNCHANGED <<disk, fetches, editor, alive, settled, renamed, reported, torn>>

\* FileTransaction::rollback, one file per step; a file that cannot be restored
\* does not keep the others from being restored.
UndoStep ==
  /\ alive /\ cmd.phase = "undo" /\ cmd.left # <<>>
  /\ LET f == Head(cmd.left)
     IN  \/ /\ disk' = [disk EXCEPT ![f] = cmd.before[f]]
            /\ cmd' = [cmd EXCEPT !.left = Tail(@)]
            /\ UNCHANGED mishaps
         \/ /\ disk[f] # cmd.before[f]
            /\ Mishap
            /\ cmd' = [cmd EXCEPT !.left = Tail(@), !.errors = TRUE]
            /\ UNCHANGED disk
  /\ UNCHANGED <<core, fetches, editor, alive, settled, renamed, reported, torn>>

\* finish_transaction after the rollback.  Errors return at once: no reload, and
\* the transaction's Drop tries every file once more.
UndoDone ==
  /\ alive /\ cmd.phase = "undo" /\ cmd.left = <<>>
  /\ \/ /\ cmd.errors /\ ~cmd.again
        /\ cmd' = [cmd EXCEPT !.left = Reverse(cmd.done), !.again = TRUE, !.errors = FALSE]
        /\ reported' = TRUE
        /\ UNCHANGED <<settled, torn>>
     \/ /\ cmd.again
        /\ cmd' = NoCommand
        /\ settled' = (settled /\ ~cmd.errors)
        /\ torn' = IF cmd.errors THEN torn \cup {"rollback"} ELSE torn
        /\ UNCHANGED reported
     \/ /\ ~cmd.errors /\ ~cmd.again
        /\ cmd' = IF cmd.reload THEN [cmd EXCEPT !.phase = "restore"] ELSE NoCommand
        /\ UNCHANGED <<settled, reported, torn>>
  /\ UNCHANGED <<disk, core, fetches, editor, alive, renamed, mishaps>>

\* The restored configuration is loaded again; a failure is told to the user.
RestoreRuntime ==
  /\ alive /\ cmd.phase = "restore"
  /\ cmd' = NoCommand
  /\ \/ /\ core.state # "up" \/ disk[Runtime] # None
        /\ Applied(FALSE)
        /\ UNCHANGED mishaps
     \/ /\ core.state = "up" /\ disk[Runtime] = None
        /\ reported' = TRUE
        /\ UNCHANGED <<core, mishaps>>
     \/ /\ core.state = "up" /\ Mishap
        /\ reported' = TRUE
        /\ core' \in {core, Running(disk[Runtime])}
  /\ UNCHANGED <<disk, fetches, editor, alive, settled, renamed, torn>>

(******************* the core, the app's death and start *********************)

CoreCrash ==
  /\ core.state = "up" /\ "crash_core" \in Ops
  /\ core' = Down("relaunch")
  /\ UNCHANGED <<disk, cmd, fetches, editor, alive, settled, renamed, reported, torn,
                 mishaps>>

\* on_terminated's relaunch takes no lock: it may read a runtime.yaml that the
\* command at work is going to take back.
CoreRelaunch ==
  /\ alive /\ core.state = "relaunch" /\ disk[Runtime] # None
  /\ core' = Running(disk[Runtime])
  /\ reported' = (reported /\ cmd # NoCommand)
  /\ UNCHANGED <<disk, cmd, fetches, editor, alive, settled, renamed, torn,
                 mishaps>>

CoreStop ==
  /\ Take("stop_core") /\ core.state # "off"
  /\ core' = Down("off")
  /\ UNCHANGED <<disk, cmd, fetches, editor, alive, settled, renamed, reported, torn,
                 mishaps>>

\* core::start generates a runtime.yaml only when there is none.
CoreStart ==
  /\ Idle /\ core.state # "up"
  /\ disk[Runtime] # None \/ Buildable(disk, disk[Index])
  /\ disk' = IF disk[Runtime] # None THEN disk ELSE [disk EXCEPT ![Runtime] = Build(disk)]
  /\ settled' = (settled \/ disk[Runtime] = None)
  /\ renamed' = (renamed /\ disk[Runtime] # None)
  /\ core' = Running(disk'[Runtime])
  /\ reported' = FALSE
  /\ UNCHANGED <<cmd, fetches, editor, alive, torn, mishaps>>

\* The windows in which a death leaves a list and its files apart.
Window ==
  IF cmd.phase = "undo" THEN {"rollback"}
  ELSE IF cmd.phase = "write" /\ cmd.op = "delete_enhancer" THEN {"delete_enhancer"}
  ELSE {}

\* The app dies between two steps of a command: what it held in memory is gone.
\* (Between commands it is the same as before the first step of one.)
AppDies ==
  /\ alive /\ cmd # NoCommand /\ Mishap
  /\ alive' = FALSE
  /\ torn' = torn \cup Window
  /\ cmd' = NoCommand
  /\ fetches' = {} /\ editor' = None
  /\ core' = Down("off")
  /\ settled' = FALSE /\ renamed' = FALSE
  /\ UNCHANGED <<disk, reported>>

\* The built-in scripts that the index names and that are not there.
MissingBuiltins ==
  LET index == disk[Index]
      lost(p) == disk[Script(p.id, Prune)] = None
                   /\ \E j \in DOMAIN p.enhs : p.enhs[j].eid = Prune
      need == Only(index, {p \in ToSet(index) : lost(p)})
  IN  [i \in DOMAIN need |-> Write(Script(need[i].id, Prune), Builtin)]

\* The app starts: initialize, regenerate_runtime, core::start.  The task asks
\* for the lock before a window or the updater can, and the lock is fair.
Launch ==
  /\ ~alive
  /\ alive' = TRUE
  /\ cmd' = Command("startup", None, MissingBuiltins, FALSE, "runtime", TRUE, <<Index>>)
  /\ UNCHANGED <<disk, core, fetches, editor, settled, renamed, reported, torn, mishaps>>

(****************************** specification *******************************)

\* An empty directory, and the app not started yet.
Init ==
  /\ disk = [f \in Files |-> IF f \in {Index, GlobalIndex} THEN <<>> ELSE None]
  /\ cmd = NoCommand
  /\ core = Down("off")
  /\ fetches = {} /\ editor = None
  /\ alive = FALSE
  /\ settled = FALSE /\ renamed = FALSE /\ reported = FALSE /\ torn = {}
  /\ mishaps = 0

UserCommand ==
  \/ \E id \in Ids, q \in Qualities :
        \/ \E url \in Urls \cup {Local}, name \in ProfileNames : Import(id, url, name, q)
        \/ SaveContent(id, q)
  \/ \E u \in fetches : Update(u)
  \/ \E id \in Ids, url \in Urls \cup {Local}, name \in ProfileNames : UpdateMeta(id, url, name)
  \/ \E id \in Ids : Select(id)
  \/ \E id \in Ids : Delete(id)
  \/ \E q \in Qualities : SaveTopology(q)

EnhancerCommand ==
  \E pid \in Pids :
     \/ \E eid \in Eids, q \in Qualities : SaveEnhancer(pid, eid, q)
     \/ \E eid \in Eids : DeleteEnhancer(pid, eid)
     \/ \E eid \in Eids : ToggleEnhancer(pid, eid)
     \/ ReorderEnhancers(pid)

CommandStep ==
  \/ WriteStep \/ AfterWrites \/ Regenerate
  \/ ApplyRuntime \/ ApplyFails
  \/ UndoStep \/ UndoDone \/ RestoreRuntime

Environment ==
  \/ \E id \in Ids, q \in Qualities : Download(id, q)
  \/ \E id \in Ids : OpenEditor(id)
  \/ CoreCrash \/ CoreRelaunch \/ CoreStop \/ CoreStart
  \/ AppDies \/ Launch

Next == UserCommand \/ EnhancerCommand \/ CommandStep \/ Environment

Spec == Init /\ [][Next]_vars

(******************************** properties *********************************)

IndexEntry == [id : Ids, url : Urls \cup {Local}, name : ProfileNames, current : BOOLEAN,
               enhs : Seq([eid : Eids, on : BOOLEAN])]

\* The files hold what the code writes to them, no id occurs twice in a list,
\* and the ghosts and counters stay within their ranges (ProfileMeta).
TypeOK ==
  /\ disk[Index] \in Seq(IndexEntry)
  /\ IsInjective([i \in DOMAIN disk[Index] |-> disk[Index][i].id])
  /\ disk[GlobalIndex] \in Seq([eid : Enhs, on : BOOLEAN])
  /\ \A id \in Ids : disk[Body(id)] \in Contents \cup {None}
  /\ \A pid \in Pids, eid \in Eids :
        disk[Script(pid, eid)] \in {Builtin, None} \cup {Text(q) : q \in Qualities}
  /\ cmd.phase \in {"idle", "write", "build", "apply", "undo", "restore"}
  /\ core.state \in {"off", "up", "relaunch"}
  /\ alive \in BOOLEAN /\ settled \in BOOLEAN /\ renamed \in BOOLEAN /\ reported \in BOOLEAN
  /\ mishaps \in 0..MaxMishaps

\* A non-empty index has exactly one current profile, at every moment: between
\* the writes of any command, in a rollback and after any crash (select, delete,
\* import, finish_transaction).
OneCurrent ==
  LET index == disk[Index]
  IN  index # <<>> =>
        \E i \in DOMAIN index : \A j \in DOMAIN index : index[j].current <=> j = i

Resting == cmd = NoCommand

\* A rollback that the app's death or a second failure cut short may leave any
\* mixture of the old and the new files.
RollbacksEnded == "rollback" \notin torn

\* Whatever the point at which the app dies, no command leaves a profile in the
\* index without its file, unless it dies in the middle of a rollback: the order
\* of the writes of import and delete keeps the index behind the files.
ProfilesHaveFiles ==
  (Resting /\ RollbacksEnded) =>
     \A i \in DOMAIN disk[Index] : disk[Body(disk[Index][i].id)] # None

\* The same for the items of both enhancer lists, except where delete_enhancer
\* dies between the removal of the content and the new list.
EnhancersHaveFiles ==
  (Resting /\ torn = {}) =>
     \A pid \in {p \in Pids : InScope(p)} :
        \A i \in DOMAIN Entries(pid) : disk[Script(pid, Entries(pid)[i].eid)] # None

\* Between commands, once the app has built the runtime configuration after its
\* start, runtime.yaml is made of the texts that a build of the present index,
\* lists and files reads, and is all that such a build gives: no command changes
\* what the current profile is made of and skips the build, and no failure leaves
\* the one without the other (regenerate_runtime).  Excepted is the name that
\* scripts are handed: update_meta renames the current profile without a build,
\* and until the next one runtime.yaml may go by the old name.
RuntimeFollowsIndex ==
  (Idle /\ settled) =>
    /\ disk[Runtime].of = Sources(disk, disk[Index])
    /\ ~renamed => disk[Runtime] = Build(disk)

\* Between commands a running core has loaded the runtime.yaml that is on disk,
\* however its crash and relaunch fell into the command that changed it, unless
\* an error told the user that restoring failed (finish_transaction).
CoreRunsRuntime ==
  (Idle /\ core.state = "up" /\ ~reported) => core.config = disk[Runtime]

\* A rollback without an error gives back every file of the store, and not only
\* those the command was known to write (FileTransaction::track, ::rollback).
RollbackRestores ==
  (cmd.phase = "undo" /\ cmd.left = <<>> /\ ~cmd.errors) => disk = cmd.before

\* An update that commits leaves a profile whose text was downloaded from the url
\* and options it has now, however long the download took and whatever was
\* changed, deleted or rolled back meanwhile (the second look-up of update).
UpdatesMatchTheirUrl ==
  [][(cmd.op = "update" /\ cmd.phase \in {"write", "apply"} /\ Resting' /\ alive') =>
       /\ Has(disk'[Index], cmd.id)
       /\ disk'[Body(cmd.id)][1] = disk'[Index][Slot(disk'[Index], cmd.id)].url]_vars
=============================================================================
