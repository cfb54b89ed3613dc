---------------------------- MODULE ProfileUpdater ----------------------------
(* The scheduled updates of subscriptions: spawn_updater of                     *)
(* src-tauri/src/profiles.rs.  A loop reads the index without the lock and goes *)
(* through that copy, updating what is due, one subscription after the other;   *)
(* in memory it keeps whose update failed when and how often.  Meanwhile the    *)
(* user updates by hand, changes intervals, deletes and restores a backup.      *)
(* What an update writes besides the index is ProfileStore's; every             *)
(* subscription here is remote, and an update by hand differs from the loop's   *)
(* only in what its end is told to.                                             *)
EXTENDS Integers, FiniteSets

CONSTANTS
  Subscriptions,   \* ids of remote profiles
  Intervals,       \* values of auto_update_min; 0 is none
  RetryBase,       \* five minutes, in the same units
  FirstInstant,    \* when the loop starts; the index is from instant 0
  LastInstant      \* bound on the clock

ASSUME UpdaterBounds ==
  /\ Intervals \subseteq Nat \ {0} /\ RetryBase \in Nat \ {0}
  /\ FirstInstant \in Nat /\ LastInstant \in Nat

VARIABLES
  clock,           \* now_millis; two reads of it differ
  index,           \* id -> [at, every]: updated_at and auto_update_min, or Deleted
  failures,        \* the loop's failures: id -> [last, count], for some ids
  pass,            \* what is left of the loop's copy of the index: {[id, at, every]}
  updating,        \* by whom -> the update that is under way, or NoUpdate
  streak           \* ghost: id -> the loop's failures since its entry was last written

updaterVars == <<clock, index, failures, pass, updating, streak>>

Deleted  == [at |-> -1]
NoUpdate == [stage |-> "none"]
NoStreak == [failed |-> 0, last |-> 0, told |-> 0]
Listed   == {id \in Subscriptions : index[id] # Deleted}
Only(f, S) == [x \in S |-> f[x]]

\* The configuration lock, from the write of an update to its commit or rollback.
IndexLocked == \E who \in {"loop", "hand"} : updating[who].stage = "written"
ClockMoves == clock < LastInstant /\ clock' = clock + 1

(********************************** the loop **********************************)

\* The minute is over: the index as it is on disk, be it in the middle of an
\* update, and the failures of what has not been written since.
StartPass ==
  /\ pass = {} /\ updating["loop"] = NoUpdate
  /\ pass' = {[id |-> id, at |-> index[id].at, every |-> index[id].every] : id \in Listed}
  /\ failures' = Only(failures, {id \in DOMAIN failures \cap Listed :
                                   index[id].at < failures[id].last})
  /\ UNCHANGED <<clock, index, updating, streak>>

\* retry_delay.
RetryDelay(every, count) ==
  LET doubled == RetryBase * 2 ^ (IF count > 17 THEN 16 ELSE count - 1)
  IN  IF doubled < every THEN doubled ELSE every

Due(p) ==
  /\ p.every > 0
  /\ clock - p.at >= p.every
  /\ p.id \in DOMAIN failures =>
       clock - failures[p.id].last >= RetryDelay(p.every, failures[p.id].count)

PassOver(p) ==
  /\ updating["loop"] = NoUpdate
  /\ p \in pass /\ ~Due(p)
  /\ pass' = pass \ {p}
  /\ UNCHANGED <<clock, index, failures, updating, streak>>

\* [started, every] is what the loop found it due by; the user looks at neither.
StartsUpdate(who, id, started, every) ==
  /\ updating[who] = NoUpdate
  /\ updating' = [updating EXCEPT ![who] =
                    [stage |-> "download", id |-> id, started |-> started, every |-> every,
                     before |-> Deleted]]

UpdateWhenDue(p) ==
  /\ p \in pass /\ Due(p)
  /\ StartsUpdate("loop", p.id, clock, p.every)
  /\ pass' = pass \ {p}
  /\ UNCHANGED <<clock, index, failures, streak>>

\* What the loop makes of an update that failed: only the first in a row is shown.
Failed(id, time) ==
  LET count == IF id \in DOMAIN failures THEN failures[id].count + 1 ELSE 1
  IN  /\ failures' = [x \in DOMAIN failures \cup {id} |->
                        IF x = id THEN [last |-> time, count |-> count] ELSE failures[x]]
      /\ streak' = [streak EXCEPT ![id] =
                      [failed |-> @.failed + 1, last |-> clock,
                       told |-> @.told + IF count = 1 THEN 1 ELSE 0]]

(*********************************** update ***********************************)

\* The user asks for an update.
UpdateByHand(id) ==
  /\ id \in Listed
  /\ StartsUpdate("hand", id, 0, 0)
  /\ UNCHANGED <<clock, index, failures, pass, streak>>

\* Mutant: the failure bears the time at which the update began.
RefusedAsOfStart(who) ==
  /\ updating' = [updating EXCEPT ![who] = NoUpdate]
  /\ IF who = "loop" THEN Failed(updating[who].id, updating[who].started) /\ ClockMoves
                     ELSE UNCHANGED <<clock, failures, streak>>

\* Err comes back to whoever asked.
Refused(who) ==
  /\ updating' = [updating EXCEPT ![who] = NoUpdate]
  /\ IF who = "loop" THEN Failed(updating[who].id, clock) /\ ClockMoves
                     ELSE UNCHANGED <<clock, failures, streak>>

\* The download fails, or what it was for is deleted or has another address by now.
UpdateFails(who) ==
  /\ updating[who].stage = "download"
  /\ Refused(who)
  /\ UNCHANGED <<index, pass>>

\* Under the lock: the interval may come from the server, unless there is none.
WriteEntry(who, every) ==
  /\ updating[who].stage = "download" /\ ~IndexLocked
  /\ LET id == updating[who].id
     IN  /\ id \in Listed
         /\ every # index[id].every => every > 0 /\ index[id].every > 0
         /\ index' = [index EXCEPT ![id] = [at |-> clock, every |-> every]]
         /\ updating' = [updating EXCEPT ![who].stage = "written", ![who].before = index[id]]
         /\ streak' = [streak EXCEPT ![id] = NoStreak]
  /\ ClockMoves
  /\ UNCHANGED <<failures, pass>>

UpdateSucceeds(who) ==
  /\ updating[who].stage = "written"
  /\ updating' = [updating EXCEPT ![who] = NoUpdate]
  /\ failures' = IF who = "loop" THEN Only(failures, DOMAIN failures \ {updating[who].id})
                                 ELSE failures
  /\ UNCHANGED <<clock, index, pass, streak>>

\* The core refuses the configuration, so the old index comes back; or not even that.
UpdateIsUndone(who) ==
  /\ updating[who].stage = "written"
  /\ Refused(who)
  /\ index' \in {index, [index EXCEPT ![updating[who].id] = updating[who].before]}
  /\ UNCHANGED pass

(******************************* other commands *******************************)

ChangeInterval(id, every) ==
  /\ id \in Listed /\ ~IndexLocked
  /\ index' = [index EXCEPT ![id].every = every]
  /\ UNCHANGED <<clock, failures, pass, updating, streak>>

DeleteSubscription(id) ==
  /\ id \in Listed /\ ~IndexLocked
  /\ index' = [index EXCEPT ![id] = Deleted]
  /\ streak' = [streak EXCEPT ![id] = NoStreak]
  /\ UNCHANGED <<clock, failures, pass, updating>>

\* A restored backup brings old entries and their times back.
RestoreIndex(every) ==
  /\ ~IndexLocked
  /\ index' = [id \in Subscriptions |-> [at |-> 0, every |-> every]]
  /\ streak' = [id \in Subscriptions |-> NoStreak]
  /\ UNCHANGED <<clock, failures, pass, updating>>

Wait ==
  /\ ClockMoves
  /\ UNCHANGED <<index, failures, pass, updating, streak>>

(******************************* specification ********************************)

UpdaterStarts(every) ==
  /\ clock = FirstInstant
  /\ index = [id \in Subscriptions |-> [at |-> 0, every |-> every]]
  /\ failures = [id \in {} |-> NoStreak]
  /\ pass = {}
  /\ updating = [who \in {"loop", "hand"} |-> NoUpdate]
  /\ streak = [id \in Subscriptions |-> NoStreak]

UpdaterInit == \E every \in Intervals : UpdaterStarts(every)

UpdaterNext ==
  \/ StartPass
  \/ \E p \in pass : PassOver(p)
  \/ \E p \in pass : UpdateWhenDue(p)
  \/ \E id \in Subscriptions : UpdateByHand(id)
  \/ \E who \in {"loop", "hand"} : UpdateFails(who)
  \/ \E who \in {"loop", "hand"}, every \in Intervals \cup {0} : WriteEntry(who, every)
  \/ \E who \in {"loop", "hand"} : UpdateSucceeds(who)
  \/ \E who \in {"loop", "hand"} : UpdateIsUndone(who)
  \/ \E id \in Subscriptions, every \in Intervals \cup {0} : ChangeInterval(id, every)
  \/ \E id \in Subscriptions : DeleteSubscription(id)
  \/ \E every \in Intervals : RestoreIndex(every)
  \/ Wait

UpdaterSpec == UpdaterInit /\ [][UpdaterNext]_updaterVars

\* However long downloads take and whatever happens to a subscription while the loop
\* works from its copy of the index, what keeps failing is shown once and tried ever
\* more rarely: since a subscription's entry was last written, at most one failure
\* of the loop's updates was shown, and the one under way began no sooner after the
\* n-th failure than five minutes doubled n - 1 times, or the interval (the comment
\* on spawn_updater, profiles.rs:1064, and retain, 1080).
RetriesBackOff ==
  \A id \in Subscriptions :
    /\ streak[id].told <= 1
    /\ LET update == updating["loop"]
       IN  update.stage = "download" =>
             (update.id = id /\ streak[id].failed > 0 =>
                update.started - streak[id].last >= RetryDelay(update.every, streak[id].failed))
=============================================================================
