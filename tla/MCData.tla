------------------------------- MODULE MCData -------------------------------
(* Bounds for BackupRestore, WebDavSync, TrafficStats, RuntimeBuild,              *)
(* PendingImports, ServiceManager and ProfileUpdater in one run.  They share no   *)
(* variable but the archive of backups, and that in different parts of the run: a *)
(* behaviour picks one of them and the others stay as they begin.                 *)
EXTENDS BackupRestore, WebDavSync, TrafficStats, RuntimeBuild, PendingImports,
        ServiceManager, ProfileUpdater

VARIABLE part

restoreVars == <<files, memory, mihomo, restore, whole, torn, dropped, told, unseen,
                 mishapsSoFar>>
syncOwnVars == <<server, calls, stored, lost>>

\* Which of them a step is of, and what it leaves alone.
Restores == part = "restore"
OnlyRestore == UNCHANGED <<part, updaterVars, syncOwnVars, trafficVars, buildVars, importVars, managerVars>>
Syncs == part = "sync"
OnlySync == UNCHANGED <<part, updaterVars, restoreVars, trafficVars, buildVars, importVars, managerVars>>
Counts == part = "traffic"
OnlyTraffic == UNCHANGED <<part, updaterVars, backupVars, syncOwnVars, buildVars, importVars, managerVars>>
Builds == part = "build"
OnlyBuild == UNCHANGED <<part, updaterVars, backupVars, syncOwnVars, trafficVars, importVars, managerVars>>
Queues == part = "imports"
OnlyImports == UNCHANGED <<part, updaterVars, backupVars, syncOwnVars, trafficVars, buildVars, managerVars>>
Manages == part = "manager"
OnlyManager == UNCHANGED <<part, updaterVars, backupVars, syncOwnVars, trafficVars, buildVars, importVars>>
Schedules == part = "updater"
OnlyUpdater == UNCHANGED <<part, backupVars, syncOwnVars, trafficVars, buildVars, importVars, managerVars>>

(********************************* backups ***********************************)

MC_Backups == {"b1", "b2", "b3"}
\* Ids differ in nothing but when they are taken: the restore takes them in order.
NextId == {id \in MC_Backups : id = <<"b1", "b2", "b3", "none">>[Cardinality(used) + 1]}
MC_SyncIds == {"b1", "b2"}
MC_Profiles == {"p", "q"}

\* Two configurations that differ in everything; the second also comes as an
\* exported backup.
MC_Configurations ==
  {[index |-> Lists({"p"}, "p"), body |-> ("p" :> "text 1"), theme |-> "dark"],
   [index |-> Lists({"p", "q"}, "q"), body |-> ("p" :> "text 2") @@ ("q" :> "text 1"),
    theme |-> "light"]}
MC_Imported == {c \in MC_Configurations : c.theme = "light"}

MC_First == CHOOSE c \in MC_Configurations : c.theme = "dark"

(********************************* traffic ***********************************)

MC_Connections == {"c1", "c2"}
MC_Meta == [c1 |-> [chain |-> "DIRECT", process |-> "", host |-> "a.com", ip |-> "1"],
            c2 |-> [chain |-> "P", process |-> "app", host |-> "", ip |-> "1"]]

\* One connection begins with a byte up and goes on in either direction, one carries
\* a byte up.  Nothing tells the directions apart.
ByteUp == [up |-> 1, down |-> 0]
MC_Bytes ==
  {<<"c1", b>> : b \in IF moved["c1"] = Zero THEN {ByteUp} ELSE OneByte}
  \cup {<<"c2", ByteUp>> : x \in {Zero} \cap {moved["c2"]}}

\* Nothing reads the clock while the application is down, and what happens before
\* anything is counted could as well have been so from the start: the passing of time,
\* another controller, a death of the application and one of the core.
HasCarried == core # CoreOff /\ core.conns # {}
HasSampled == AppUp /\ collector # Fresh
HasCounted == AppUp /\ (table # NoBuckets \/ collector.pending # NoBuckets \/ flush # NoFlush)

(********************************* documents *********************************)

X(x)   == Scalar(x)
One(x) == List(<<X(x)>>)

MC_KeyOrder == <<"prepend-rules", "rules", "append-rules", "prepend-proxies", "proxies",
                 "nameserver", "append-nameserver">>
MC_Splicing ==
  [k \in {"prepend-rules", "append-rules", "prepend-proxies", "append-nameserver"} |->
     CASE k = "prepend-rules"   -> [list |-> "rules", front |-> TRUE]
       [] k = "append-rules"    -> [list |-> "rules", front |-> FALSE]
       [] k = "prepend-proxies" -> [list |-> "proxies", front |-> TRUE]
       [] OTHER                 -> [list |-> "nameserver", front |-> FALSE]]

\* A profile with a word on everything, one with odd sections, none, and no mapping.
Rich ==
  Map(("rules" :> List(<<X("r1"), X("r2")>>)) @@ ("proxies" :> One("p"))
      @@ ("secret" :> X("theirs")) @@ ("find-process-mode" :> X("always"))
      @@ ("tun" :> Map(("enable" :> On) @@ ("stack" :> X("system"))))
      @@ ("dns" :> Map(("enable" :> On) @@ ("nameserver" :> One("ns"))
                       @@ ("fallback" :> One("f")) @@ ("respect-rules" :> On)))
      @@ ("sniffer" :> Map(("enable" :> Off) @@ ("sniff" :> Map("TLS" :> X("443")))))
      @@ ("hosts" :> Map("a.com" :> X("1"))))
Odd == Map(("tun" :> X("yes")) @@ ("dns" :> Map(("nameserver" :> List(<<>>))
                                                @@ ("enhanced-mode" :> X("")))))
MC_Documents == {Rich, Odd, Null, One("x")}

Patch(p)   == [kind |-> "merge", patch |-> p]
Answers(r) == [kind |-> "script", returns |-> r]
Around == Patch(Map(("prepend-rules" :> One("r0")) @@ ("append-rules" :> X("r3"))
                    @@ ("dns" :> Map("append-nameserver" :> One("ns2")))))
Instead == Patch(Map(("prepend-rules" :> One("r00")) @@ ("rules" :> One("only"))
                     @@ ("secret" :> X("patched"))))
Before == Patch(Map(("prepend-proxies" :> One("q")) @@ ("sniffer" :> Map("enable" :> Off))))
MC_Chains == {<<>>, <<Around>>, <<Around, Before>>, <<Instead, Around>>, <<Answers(Odd)>>,
              <<Around, Answers(Null)>>, <<Patch(X("x"))>>}

MC_Dns(mode) ==
  ("listen" :> X("53")) @@ ("enhanced-mode" :> X(mode)) @@ ("ipv6" :> Off)
  @@ ("prefer-h3" :> Off) @@ ("fake-ip-range" :> X("198")) @@ ("fake-ip-filter-mode" :> X("b"))
MC_Overrides ==
  {Null, X("x"), Map("dns" :> Off), Map(("enable" :> Off) @@ ("nameserver" :> List(<<>>))),
   Map("dns" :> Map(("enable" :> On) @@ ("append-nameserver" :> One("mine"))))}
MC_Settings ==
  [control : {[k \in ControlKeys |-> X("ours")]}, findProcess : {Null, X("off")},
   unifiedDelay : {TRUE}, sniffer : BOOLEAN, sniffing : {Map("sniff" :> Map("HTTP" :> X("80")))},
   tun : BOOLEAN, tunValid : {TRUE}, tunOptions : {"auto-route" :> On},
   interface : {"interface-name" :> X("eth")}, enableDns : BOOLEAN,
   dns : {MC_Dns("fake-ip"), MC_Dns("")}, dnsChoices : {<<>>, "respect-rules" :> Off},
   dnsOverride : MC_Overrides, hosts : {"a.com" :> X("2")}]
MC_FirstSettings == CHOOSE s \in MC_Settings : TRUE

(****************************** specification ********************************)

Others(p) ==
  /\ part = p
  /\ p # "restore" => StartsWith(MC_First, 1, "up")
  /\ p # "traffic" => TrafficStarts([controller |-> "a", retention |-> 0])
  /\ p # "build" => BuildStarts(Null, <<>>, MC_FirstSettings)
  /\ server = NoBackups /\ calls = [t \in Calls |-> NoCall] /\ stored = {} /\ lost = 0
  /\ ImportsStart
  /\ p # "manager" => ManagerInit /\ entry = "none"
  /\ p # "updater" => UpdaterStarts(5)

DataInit ==
  \/ Others("manager") /\ ManagerInit
  \/ \E m \in {"off", "up"} : Others("restore") /\ StartsWith(MC_First, 1, m)
  \/ Others("sync") \/ Others("imports")
  \/ Others("traffic") /\ TrafficStarts([controller |-> "a", retention |-> 1])
  \/ Others("build") /\ BuildInit
  \/ Others("updater") /\ UpdaterInit

DataNext ==
  \/ \E id \in NextId : Restores /\ Create(id) /\ OnlyRestore
  \/ \E id \in BackupIds : Restores /\ Delete(id) /\ OnlyRestore
  \/ \E id \in BackupIds : Restores /\ Damage(id) /\ OnlyRestore
  \/ \E id \in NextId, c \in Imported : Restores /\ Import(id, Contents(c, 2)) /\ OnlyRestore
  \/ \E id \in BackupIds, safety \in NextId : Restores /\ Restore(id, safety) /\ OnlyRestore
  \/ Restores /\ Status /\ OnlyRestore
  \/ Restores /\ WriteFile /\ OnlyRestore
  \/ Restores /\ SetMemory /\ OnlyRestore
  \/ Restores /\ Reload /\ OnlyRestore
  \/ Restores /\ CommitRestore /\ OnlyRestore
  \/ Restores /\ UndoFile /\ OnlyRestore
  \/ Restores /\ EndUndo /\ OnlyRestore
  \/ Restores /\ Resume /\ OnlyRestore
  \/ \E c \in Configurations, port \in Ports : Restores /\ Edit(c, port) /\ OnlyRestore
  \/ Restores /\ CoreDies /\ OnlyRestore
  \/ Restores /\ CoreComesBack /\ OnlyRestore
  \/ Restores /\ StartOrStop /\ OnlyRestore
  \/ Restores /\ ApplicationDies /\ OnlyRestore
  \/ Restores /\ Starts /\ OnlyRestore
  \/ Restores /\ Mend /\ OnlyRestore
  \/ \E t \in Calls, id \in MC_SyncIds : Syncs /\ StartUpload(t, id) /\ OnlySync
  \/ \E t \in Calls, id \in MC_SyncIds : Syncs /\ Download(t, id) /\ OnlySync
  \/ \E t \in Calls : Syncs /\ Put(t) /\ OnlySync
  \/ \E t \in Calls : Syncs /\ ReadBack(t) /\ OnlySync
  \/ \E t \in Calls : Syncs /\ SaveDownload(t) /\ OnlySync
  \/ \E t \in Calls : Syncs /\ CallFails(t) /\ OnlySync
  \/ \E id \in MC_SyncIds : Syncs /\ DeleteRemote(id) /\ OnlySync
  \/ \E id \in MC_SyncIds : Syncs /\ RemoveLocal(id) /\ OnlySync
  \/ \E id \in MC_SyncIds : Syncs /\ DiskDamages(id) /\ OnlySync
  \/ \E id \in MC_SyncIds, b \in Texts : Syncs /\ UploadElsewhere(id, b) /\ OnlySync
  \/ \E id \in MC_SyncIds, b \in Texts : Syncs /\ Save(id, b) /\ OnlySync
  \/ Counts /\ Poll /\ OnlyTraffic
  \/ Counts /\ Collect /\ OnlyTraffic
  \/ Counts /\ PollFails /\ OnlyTraffic
  \/ \E by \in {"loop", "exit"} : Counts /\ Take(by) /\ OnlyTraffic
  \/ \E by \in {"loop", "exit"} : Counts /\ Commit(by) /\ OnlyTraffic
  \/ \E by \in {"loop", "exit"} : Counts /\ CommitFails(by) /\ OnlyTraffic
  \/ Counts /\ ApplicationStarts /\ OnlyTraffic
  \/ Counts /\ HasSampled /\ ApplicationCrashes /\ OnlyTraffic
  \/ Counts /\ HasCounted /\ Tick /\ OnlyTraffic
  \/ Counts /\ CoreStarts /\ OnlyTraffic
  \/ Counts /\ HasCarried /\ CoreEnds /\ OnlyTraffic
  \/ \E s \in SettingValues : Counts /\ HasSampled /\ Settings(s) /\ OnlyTraffic
  \/ \E b \in MC_Bytes : Counts /\ Carry(b[1], b[2]) /\ OnlyTraffic
  \/ \E c \in Connections : Counts /\ Close(c) /\ OnlyTraffic
  \/ Builds /\ Enhance /\ OnlyBuild
  \/ Builds /\ Check /\ OnlyBuild
  \/ Builds /\ Control /\ OnlyBuild
  \/ Builds /\ Sniffer /\ OnlyBuild
  \/ Builds /\ Tun /\ OnlyBuild
  \/ Builds /\ Dns /\ OnlyBuild
  \/ Builds /\ DnsOverride /\ OnlyBuild
  \/ Builds /\ ForceDns /\ OnlyBuild
  \/ Builds /\ Servers /\ OnlyBuild
  \/ Builds /\ Hosts /\ OnlyBuild
  \/ \E first, second \in Links : Queues /\ EnqueueArgs(first, second) /\ OnlyImports
  \/ \E id \in 1 .. LastId : Queues /\ Dismiss(id) /\ OnlyImports
  \/ \E w \in Windows, id \in 1 .. LastId : Queues /\ Confirm(w, id) /\ OnlyImports
  \/ \E w \in Windows, success \in BOOLEAN : Queues /\ ImportEnds(w, success) /\ OnlyImports
  \/ Manages /\ Install /\ OnlyManager
  \/ Manages /\ Reinstall /\ OnlyManager
  \/ Manages /\ Uninstall /\ OnlyManager
  \/ Manages /\ Refresh /\ OnlyManager
  \/ \E t \in {"init", "operation"} : Manages /\ Inspect(t) /\ OnlyManager
  \/ \E t \in {"init", "operation"} : Manages /\ GetsAnswer(t) /\ OnlyManager
  \/ \E t \in {"init", "operation"} : Manages /\ GetsNoAnswer(t) /\ OnlyManager
  \/ \E t \in {"init", "operation"} : Manages /\ CompareVersion(t) /\ OnlyManager
  \/ \E t \in {"init", "operation"} : Manages /\ Watch(t) /\ OnlyManager
  \/ \E t \in {"init", "operation"} : Manages /\ BecomeReady(t) /\ OnlyManager
  \/ Manages /\ ProbeFails /\ OnlyManager
  \/ \E g \in failing : Manages /\ Report(g) /\ OnlyManager
  \/ Manages /\ RepairRefused /\ OnlyManager
  \/ Manages /\ Repair /\ OnlyManager
  \/ Manages /\ RepairStarts /\ OnlyManager
  \/ Manages /\ RepairElevates /\ OnlyManager
  \/ \E h \in Slots : Manages /\ OpenInstall(h) /\ OnlyManager
  \/ \E h \in Slots : Manages /\ OpenUninstall(h) /\ OnlyManager
  \/ \E h \in Slots : Manages /\ Unregister(h) /\ OnlyManager
  \/ \E h \in Slots : Manages /\ Prepare(h) /\ OnlyManager
  \/ \E h \in Slots : Manages /\ Register(h) /\ OnlyManager
  \/ \E h \in Slots : Manages /\ HelperStarts(h) /\ OnlyManager
  \/ \E h \in Slots : Manages /\ RemoveFiles(h) /\ OnlyManager
  \/ \E h \in Slots : Manages /\ HelperFails(h) /\ OnlyManager
  \/ \E h \in Slots : Manages /\ HelperEnds(h) /\ OnlyManager
  \/ Manages /\ CommandStarts /\ OnlyManager
  \/ Manages /\ CommandElevates /\ OnlyManager
  \/ Manages /\ ServiceStops /\ OnlyManager
  \/ Manages /\ ServiceHangs /\ OnlyManager
  \/ Manages /\ ApplicationRestarts /\ OnlyManager
  \/ Schedules /\ StartPass /\ OnlyUpdater
  \/ \E p \in pass : Schedules /\ PassOver(p) /\ OnlyUpdater
  \/ \E p \in pass : Schedules /\ UpdateWhenDue(p) /\ OnlyUpdater
  \/ \E id \in Subscriptions : Schedules /\ UpdateByHand(id) /\ OnlyUpdater
  \/ \E who \in {"loop", "hand"} : Schedules /\ UpdateFails(who) /\ OnlyUpdater
  \/ \E who \in {"loop", "hand"}, every \in Intervals \cup {0} :
       Schedules /\ WriteEntry(who, every) /\ OnlyUpdater
  \/ \E who \in {"loop", "hand"} : Schedules /\ UpdateSucceeds(who) /\ OnlyUpdater
  \/ \E who \in {"loop", "hand"} : Schedules /\ UpdateIsUndone(who) /\ OnlyUpdater
  \/ \E id \in Subscriptions, every \in Intervals \cup {0} :
       Schedules /\ ChangeInterval(id, every) /\ OnlyUpdater
  \/ \E id \in Subscriptions : Schedules /\ DeleteSubscription(id) /\ OnlyUpdater
  \/ \E every \in Intervals : Schedules /\ RestoreIndex(every) /\ OnlyUpdater
  \/ Schedules /\ Wait /\ OnlyUpdater

DataSpec == DataInit /\ [][DataNext]_<<backupVars, syncOwnVars, trafficVars, buildVars,
                                      importVars, managerVars, updaterVars, part>>
=============================================================================
