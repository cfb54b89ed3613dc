---------------------------- MODULE UpdatesProofs ----------------------------
(***************************************************************************)
(* Proofs about Updates, for every set of releases and of cores and every  *)
(* number of failures: the types, the installer that may be run, that the  *)
(* selected core is the one that runs, and that a switch is all or nothing.*)
(***************************************************************************)
EXTENDS Updates, TLAPS

Binaries == Ids \cup {None}
CoreStates == {NoCore} \cup [by : {"sidecar", "service"}, bin : Ids]

\* The shapes of an operation: before and after config_lock is taken.
LoadSteps   == {"fetch", "fetched", "cache", "cached", "failed"}
LockedSteps ==
    {"verify", "stop", "launch", "resume", "replace", "wait", "select", "activate",
     "health", "undo_stop", "undo_replace", "unselect", "undo_resume", "end"}
Outcomes    == {"none", "switched", "restored", "failed"}
HelperSteps ==
    {"prepare", "halt", "save", "swap", "unswap", "restore", "restart", "again", "done"}

Checks    == [op : {"check_app", "check_core"}, step : {"ask"}]
AppLoads  == [op : {"app"}, step : LoadSteps, what : Releases]
CoreLoads == [op : {"core"}, step : LoadSteps, what : Cores]
Waiting   == [op : {"install"}, step : {"lock"}, to : Releases]
             \cup [op : {"switch"}, step : {"lock"}, to : Ids]
LockedJobs ==
    {j \in [op : {"install", "switch"}, step : LockedSteps, to : Releases \cup Ids,
            selected : Ids, managed : Binaries, core : CoreStates, running : BOOLEAN,
            installed : BOOLEAN, alone : BOOLEAN, clean : BOOLEAN, outcome : Outcomes] :
       j.running => j.core # NoCore}

JobOK ==
    /\ job \in {NoJob} \cup Checks \cup AppLoads \cup CoreLoads \cup Waiting \cup LockedJobs
    /\ job.op = "switch" => job.to \in Ids

HelperOK ==
    \/ helper = NoJob
    \/ helper \in [op : {"update", "rollback"}, step : HelperSteps, id : Ids,
                   was : BOOLEAN, ok : BOOLEAN, clean : BOOLEAN]

\* A download of the app is one of the candidate that the page shows.
DownloadsTheOneShown == job.op = "app" => job.what = session.app

\* While a switch may change the selection, no core runs: config_lock keeps the
\* other commands out, and no step of the switch starts one.
NoCoreWhileSelecting ==
    job.op = "switch" /\ job.step \in {"replace", "wait", "select", "activate",
                                       "undo_replace", "unselect", "undo_resume"}
      => core = NoCore

Sessions ==
    [phase : Busy \cup {"idle", "ready", "failed", "cancelled"},
     app : Releases \cup {None}, core : Cores \cup {None},
     cancelled : BOOLEAN, ready : Releases \cup {None}]

PhaseShowsJob == (session.phase \in Busy) = (job # NoJob)

\* The invariant about the session and the operation that it admitted.
SessionInv ==
    session \in Sessions /\ PhaseShowsJob /\ JobOK /\ ReadyIsTheOneShown /\ DownloadsTheOneShown

\* The invariant about the binaries and the helper.
MachineInv ==
    /\ cache \in [Cores -> {"absent", "intact", "damaged"}]
    /\ selected \in Ids
    /\ service \in {"absent", "stopped", "running"}
    /\ managed \in Binaries /\ backup \in Binaries
    /\ core \in CoreStates
    /\ alive \in BOOLEAN /\ mishaps \in 0 .. MaxMishaps
    /\ HelperOK

CoreInv == CoreRunsSelected /\ NoCoreWhileSelecting

Inv == SessionInv /\ MachineInv /\ CoreInv

JobTypes == {NoJob} \cup Checks \cup AppLoads \cup CoreLoads \cup Waiting \cup LockedJobs

(******************************* operations **********************************)

\* The mapped facts about a job that its operation determines.
LEMMA LockedJob ==
    ASSUME JobOK, job.op \in {"install", "switch"}, job.step # "lock"
    PROVE  job \in LockedJobs
  BY DEF JobOK, NoJob, Checks, AppLoads, CoreLoads, Waiting

LEMMA AppLoad == ASSUME JobOK, job.op = "app" PROVE job \in AppLoads
  BY DEF JobOK, NoJob, Checks, CoreLoads, Waiting, LockedJobs

LEMMA CoreLoad == ASSUME JobOK, job.op = "core" PROVE job \in CoreLoads
  BY DEF JobOK, NoJob, Checks, AppLoads, Waiting, LockedJobs

\* A locked operation goes on to a step of its own.
LEMMA LockedGoes ==
    ASSUME NEW s \in LockedSteps, NEW c \in BOOLEAN, NEW o \in Outcomes,
           JobOK, job \in LockedJobs,
           job' = [job EXCEPT !.step = s, !.clean = c, !.outcome = o]
    PROVE  /\ JobOK' /\ job' \in LockedJobs /\ job' # NoJob
           /\ job'.op = job.op /\ job'.step = s /\ job'.to = job.to
  BY DEF JobOK, LockedJobs, NoJob

LEMMA LockedGoTo ==
    ASSUME NEW s \in LockedSteps, JobOK, job \in LockedJobs, GoTo(s)
    PROVE  /\ JobOK' /\ job' \in LockedJobs /\ job' # NoJob
           /\ job'.op = job.op /\ job'.step = s /\ job'.to = job.to
  BY DEF JobOK, LockedJobs, NoJob, GoTo

LEMMA LockedEnds ==
    ASSUME NEW o \in Outcomes, JobOK, job \in LockedJobs, EndAs(o)
    PROVE  /\ JobOK' /\ job' \in LockedJobs /\ job' # NoJob
           /\ job'.op = job.op /\ job'.step = "end"
<1>1. "end" \in LockedSteps
  BY DEF LockedSteps
<1>2. job.clean \in BOOLEAN
  BY DEF LockedJobs
<1>3. job' = [job EXCEPT !.step = "end", !.clean = job.clean, !.outcome = o]
  BY DEF EndAs, LockedJobs
<1>4. QED
  BY <1>1, <1>2, <1>3, LockedGoes

LEMMA LoadGoes ==
    ASSUME NEW s \in LoadSteps, JobOK, job.op \in {"app", "core"}, GoTo(s)
    PROVE  /\ JobOK' /\ job' # NoJob /\ job'.op = job.op /\ job'.what = job.what
<1>1. job \in AppLoads \cup CoreLoads
  BY AppLoad, CoreLoad
<1>2. QED
  BY <1>1 DEF GoTo, AppLoads, CoreLoads, JobOK, NoJob

(********************************* session ***********************************)

LEMMA FailedSession ==
    ASSUME session \in Sessions
    PROVE  /\ Failed(session) \in Sessions /\ Failed(session).phase \notin Busy
           /\ Failed(session).ready = session.ready
           /\ Failed(session).app = session.app
  BY DEF Sessions, Failed, Busy

LEMMA BeginKeepsInv ==
    ASSUME NEW phase \in Busy, NEW s \in Sessions, NEW j \in JobTypes,
           j # NoJob, j.op = "switch" => j.to \in Ids, j.op = "app" => j.what = s.app,
           s.ready # None => s.ready = s.app,
           Begin(phase, s, j)
    PROVE  SessionInv'
<1>1. session' \in Sessions /\ session'.phase \in Busy
      /\ session'.ready = s.ready /\ session'.app = s.app
  BY DEF Begin, Sessions
<1>2. job' = j
  BY DEF Begin
<1>3. JobOK'
  BY <1>2 DEF JobOK, JobTypes
<1>4. QED
  BY <1>1, <1>2, <1>3 DEF SessionInv, PhaseShowsJob, ReadyIsTheOneShown,
     DownloadsTheOneShown

LEMMA EndKeepsInv ==
    ASSUME NEW s \in Sessions, s.phase \notin Busy,
           s.ready # None => s.ready = s.app, End(s)
    PROVE  SessionInv'
  BY DEF End, SessionInv, PhaseShowsJob, ReadyIsTheOneShown, DownloadsTheOneShown,
     JobOK, NoJob

LEMMA GoOnKeepsInv ==
    ASSUME SessionInv, UNCHANGED session, job # NoJob, job' # NoJob, JobOK',
           job'.op = job.op, job.op = "app" => job'.what = job.what
    PROVE  SessionInv'
  BY DEF SessionInv, PhaseShowsJob, ReadyIsTheOneShown, DownloadsTheOneShown

\* The locked operations of Next that go on, each to a step that it names.
LEMMA LockedStep ==
    ASSUME JobOK, NEW step \in LockedSteps, At("switch", step) \/ Holding(step)
    PROVE  job \in LockedJobs /\ job # NoJob
<1>1. step # "lock"
  BY DEF LockedSteps
<1>2. job \in LockedJobs
  BY <1>1, LockedJob DEF At, Holding
<1>3. QED
  BY <1>2 DEF LockedJobs, NoJob

LEMMA RequestKeepsSession == ASSUME Inv, UserRequest PROVE SessionInv'
<1>1. session \in Sessions /\ JobOK /\ (session.ready # None => session.ready = session.app)
  BY DEF Inv, SessionInv, ReadyIsTheOneShown
<1>2. CASE CheckApp \/ CheckCore
  <2>1. PICK o \in {"check_app", "check_core"} :
          Begin("checking", session, [op |-> o, step |-> "ask"])
    BY <1>2 DEF CheckApp, CheckCore
  <2>2. [op |-> o, step |-> "ask"] \in JobTypes /\ [op |-> o, step |-> "ask"] # NoJob
    BY DEF JobTypes, Checks, NoJob
  <2>3. QED
    BY <1>1, <2>1, <2>2, BeginKeepsInv DEF Busy
<1>3. CASE DownloadApp
  <2> DEFINE j == [op |-> "app", step |-> "fetch", what |-> session.app]
             s == [session EXCEPT !.ready = None]
  <2>1. session.app \in Releases
    BY <1>1, <1>3 DEF DownloadApp, Sessions
  <2>2. j \in JobTypes /\ j # NoJob /\ j.op = "app" /\ j.what = session.app
    BY <2>1 DEF JobTypes, AppLoads, LoadSteps, NoJob
  <2>3. s \in Sessions /\ s.ready = None /\ s.app = session.app
    BY <1>1 DEF Sessions
  <2>4. Begin("downloading", s, j)
    BY <1>3 DEF DownloadApp
  <2> HIDE DEF s, j
  <2>5. QED
    BY <2>2, <2>3, <2>4, BeginKeepsInv DEF Busy
<1>4. CASE DownloadCore
  <2> DEFINE j == [op |-> "core", step |-> "fetch", what |-> session.core]
  <2>1. session.core \in Cores
    BY <1>1, <1>4 DEF DownloadCore, Sessions
  <2>2. j \in JobTypes /\ j # NoJob /\ j.op = "core"
    BY <2>1 DEF JobTypes, CoreLoads, LoadSteps, NoJob
  <2>3. Begin("downloading", session, j)
    BY <1>4 DEF DownloadCore
  <2> HIDE DEF j
  <2>4. QED
    BY <1>1, <2>2, <2>3, BeginKeepsInv DEF Busy
<1>5. CASE Cancel
  <2>1. session' \in Sessions /\ session'.app = session.app
        /\ session'.ready \in {session.ready, None}
        /\ (session'.phase \in Busy) = (session.phase \in Busy)
    <3>1. CASE session.phase = "ready"
      <4>1. session' = [session EXCEPT !.cancelled = TRUE, !.ready = None,
                                       !.phase = "cancelled"]
        BY <1>5, <3>1 DEF Cancel
      <4>2. session' \in Sessions /\ session'.app = session.app /\ session'.ready = None
            /\ session'.phase = "cancelled"
        BY <1>1, <4>1 DEF Sessions
      <4>3. session.phase \notin Busy /\ session'.phase \notin Busy
        BY <3>1, <4>2 DEF Busy
      <4>4. QED
        BY <4>2, <4>3
    <3>2. CASE session.phase # "ready"
      <4>1. session' = [session EXCEPT !.cancelled = TRUE]
        BY <1>5, <3>2 DEF Cancel
      <4>2. QED
        BY <1>1, <4>1 DEF Sessions, Busy
    <3>3. QED
      BY <3>1, <3>2
  <2>2. UNCHANGED job
    BY <1>5 DEF Cancel
  <2>3. QED
    BY <1>1, <2>1, <2>2 DEF Inv, SessionInv, PhaseShowsJob, JobOK,
       ReadyIsTheOneShown, DownloadsTheOneShown
<1>6. CASE InstallApp
  <2> DEFINE j == [op |-> "install", step |-> "lock", to |-> session.ready]
             s == [session EXCEPT !.ready = None]
  <2>1. session.ready \in Releases
    BY <1>1, <1>6 DEF InstallApp, Sessions
  <2>2. j \in JobTypes /\ j # NoJob /\ j.op = "install"
    BY <2>1 DEF JobTypes, Waiting, NoJob
  <2>3. s \in Sessions /\ s.ready = None
    BY <1>1 DEF Sessions
  <2>4. Begin("installing", s, j)
    BY <1>6 DEF InstallApp
  <2> HIDE DEF s, j
  <2>5. QED
    BY <2>2, <2>3, <2>4, BeginKeepsInv DEF Busy
<1>7. ASSUME NEW id \in Ids, SwitchCore(id) PROVE SessionInv'
  <2> DEFINE j == [op |-> "switch", step |-> "lock", to |-> id]
  <2>1. j \in JobTypes /\ j # NoJob /\ j.op = "switch" /\ j.to \in Ids
    BY DEF JobTypes, Waiting, NoJob
  <2>2. Begin("switching", session, j)
    BY <1>7 DEF SwitchCore
  <2> HIDE DEF j
  <2>3. QED
    BY <1>1, <2>1, <2>2, BeginKeepsInv DEF Busy
<1>8. QED
  BY <1>2, <1>3, <1>4, <1>5, <1>6, <1>7 DEF UserRequest

LEMMA LoadKeepsSession ==
    ASSUME Inv, \/ CheckAppAnswered \/ CheckCoreAnswered \/ Fetched \/ AppStored
                \/ CoreFetched \/ CoreCached \/ DownloadEnds
    PROVE  SessionInv'
<1>1. /\ SessionInv /\ session \in Sessions /\ JobOK
      /\ session.ready # None => session.ready = session.app
      /\ job.op = "app" => job.what = session.app
  BY DEF Inv, SessionInv, ReadyIsTheOneShown, DownloadsTheOneShown
<1>2. End(Failed(session)) => SessionInv'
  BY <1>1, FailedSession, EndKeepsInv
<1>3. CASE CheckAppAnswered
  <2>1. ASSUME NEW found \in Releases \cup {None},
               End([session EXCEPT !.app = found, !.ready = StillReady(found),
                      !.phase = IF StillReady(found) = None THEN "idle" ELSE "ready"])
        PROVE  SessionInv'
    <3> DEFINE s == [session EXCEPT !.app = found, !.ready = StillReady(found),
                       !.phase = IF StillReady(found) = None THEN "idle" ELSE "ready"]
    <3>1. StillReady(found) \in {found, None}
      BY DEF StillReady
    <3>2. s \in Sessions /\ s.phase \notin Busy /\ s.app = found
          /\ s.ready = StillReady(found)
      BY <1>1, <3>1 DEF Sessions, Busy
    <3> HIDE DEF s
    <3>3. QED
      BY <2>1, <3>1, <3>2, EndKeepsInv DEF s
  <2>2. QED
    BY <1>2, <1>3, <2>1 DEF CheckAppAnswered, Offered
<1>4. CASE CheckCoreAnswered
  <2>1. ASSUME NEW found \in Cores, End([session EXCEPT !.core = found, !.phase = "idle"])
        PROVE  SessionInv'
    <3> DEFINE s == [session EXCEPT !.core = found, !.phase = "idle"]
    <3>1. s \in Sessions /\ s.phase \notin Busy /\ s.app = session.app
          /\ s.ready = session.ready
      BY <1>1 DEF Sessions, Busy
    <3> HIDE DEF s
    <3>2. QED
      BY <1>1, <2>1, <3>1, EndKeepsInv DEF s
  <2>2. QED
    BY <1>2, <1>4, <2>1 DEF CheckCoreAnswered
<1>5. CASE Fetched \/ CoreCached
  <2>1. UNCHANGED session /\ job.op \in {"app", "core"} /\ job # NoJob
    BY <1>5 DEF Fetched, CoreCached, Downloading, At, NoJob
  <2>2. PICK s \in LoadSteps : GoTo(s)
    BY <1>5 DEF Fetched, CoreCached, LoadSteps
  <2>3. QED
    BY <1>1, <2>1, <2>2, LoadGoes, GoOnKeepsInv
<1>6. CASE AppStored
  <2> DEFINE s == [session EXCEPT !.ready = job.what, !.phase = "ready"]
  <2>1. job.what \in Releases /\ job.what = session.app
    BY <1>1, <1>6, AppLoad DEF AppStored, At, AppLoads
  <2>2. s \in Sessions /\ s.phase \notin Busy /\ s.app = session.app /\ s.ready = session.app
    BY <1>1, <2>1 DEF Sessions, Busy
  <2>3. End(Failed(session)) \/ End(s)
    BY <1>6 DEF AppStored
  <2> HIDE DEF s
  <2>4. QED
    BY <1>2, <2>2, <2>3, EndKeepsInv
<1>7. CASE CoreFetched
  <2>1. job.op = "core" /\ GoTo("cache") /\ job # NoJob
    BY <1>7 DEF CoreFetched, At, NoJob
  <2>2. session' \in Sessions /\ session'.phase \in Busy
        /\ session'.ready = session.ready /\ session'.app = session.app
    BY <1>1, <1>7 DEF CoreFetched, Sessions, Busy
  <2>3. JobOK' /\ job'.op = "core" /\ job' # NoJob
    BY <1>1, <2>1, LoadGoes DEF LoadSteps
  <2>4. QED
    BY <1>1, <2>2, <2>3 DEF SessionInv, PhaseShowsJob, ReadyIsTheOneShown,
       DownloadsTheOneShown
<1>8. CASE DownloadEnds
  <2> DEFINE s == [session EXCEPT !.phase = "idle"]
  <2>1. s \in Sessions /\ s.phase \notin Busy /\ s.app = session.app
        /\ s.ready = session.ready
    BY <1>1 DEF Sessions, Busy
  <2>2. End(Failed(session)) \/ End(s)
    BY <1>8 DEF DownloadEnds
  <2> HIDE DEF s
  <2>3. QED
    BY <1>1, <1>2, <2>1, <2>2, EndKeepsInv
<1>9. QED
  BY <1>3, <1>4, <1>5, <1>6, <1>7, <1>8

\* The locked steps that neither end the operation nor touch the session.
LEMMA GoesOnKeepsSession ==
    ASSUME Inv, UNCHANGED session, job \in LockedJobs, JobOK', job' # NoJob,
           job'.op = job.op
    PROVE  SessionInv'
<1>1. job # NoJob /\ job.op # "app"
  BY DEF LockedJobs, NoJob
<1>2. QED
  BY <1>1, GoOnKeepsInv DEF Inv

LEMMA LockKeepsSession ==
    ASSUME Inv, \/ Acquire \/ Verify \/ Stop \/ LaunchInstaller \/ Resume \/ Finish
    PROVE  SessionInv'
<1>1. session \in Sessions /\ JobOK
      /\ (session.ready # None => session.ready = session.app)
  BY DEF Inv, SessionInv, ReadyIsTheOneShown
<1>2. CASE Acquire
  <2>1. PICK running \in BOOLEAN :
          (running => core # NoCore) /\
          job' = [op |-> job.op, step |-> "verify", to |-> job.to,
                  selected |-> selected, managed |-> managed, core |-> core,
                  running |-> running, installed |-> service # "absent",
                  alone |-> Idle(helper), clean |-> TRUE, outcome |-> "none"]
    BY <1>2 DEF Acquire
  <2>2. /\ job.op \in {"install", "switch"} /\ job.to \in Releases \cup Ids
        /\ job.op = "switch" => job.to \in Ids
    BY <1>1, <1>2 DEF Acquire, Holding, At, JobOK, NoJob, Checks, AppLoads,
       CoreLoads, Waiting, LockedJobs
  <2>3. (service # "absent") \in BOOLEAN /\ Idle(helper) \in BOOLEAN
    BY DEF Idle
  <2>4. selected \in Ids /\ managed \in Binaries /\ core \in CoreStates
    BY DEF Inv, MachineInv
  <2>5. job' \in LockedJobs /\ job'.op = job.op /\ job'.to = job.to
    BY <2>1, <2>2, <2>3, <2>4 DEF LockedJobs, LockedSteps, Outcomes
  <2>6. JobOK' /\ job' # NoJob
    BY <2>2, <2>5 DEF JobOK, LockedJobs, NoJob
  <2>7. UNCHANGED session /\ job # NoJob /\ job.op # "app"
    BY <1>2, <2>2 DEF Acquire, NoJob
  <2>8. QED
    BY <2>5, <2>6, <2>7, GoOnKeepsInv DEF Inv
<1>3. CASE Verify
  <2>1. job \in LockedJobs
    BY <1>1, <1>3, LockedStep DEF Verify, LockedSteps
  <2>2. UNCHANGED session /\ (GoTo("stop") \/ EndAs("restored"))
    BY <1>3 DEF Verify
  <2>3. JobOK' /\ job' # NoJob /\ job'.op = job.op
    BY <1>1, <2>1, <2>2, LockedGoTo, LockedEnds DEF LockedSteps, Outcomes
  <2>4. QED
    BY <2>1, <2>2, <2>3, GoesOnKeepsSession
<1>4. CASE Stop
  <2>1. job \in LockedJobs
    BY <1>1, <1>4, LockedStep DEF Stop, LockedSteps
  <2>2. UNCHANGED session /\ \E s \in LockedSteps : GoTo(s)
    BY <1>4 DEF Stop, AfterStop, LockedSteps
  <2>3. JobOK' /\ job' # NoJob /\ job'.op = job.op
    BY <1>1, <2>1, <2>2, LockedGoTo
  <2>4. QED
    BY <2>1, <2>2, <2>3, GoesOnKeepsSession
<1>5. CASE LaunchInstaller
  <2>1. job \in LockedJobs
    BY <1>1, <1>5, LockedStep DEF LaunchInstaller, Holding, LockedSteps
  <2>2. CASE job' = NoJob /\ session' = NewSession
    BY <2>2 DEF SessionInv, Sessions, NewSession, Busy, PhaseShowsJob, JobOK, NoJob,
       ReadyIsTheOneShown, DownloadsTheOneShown
  <2>3. CASE GoTo("resume") /\ UNCHANGED session
    <3>1. JobOK' /\ job' # NoJob /\ job'.op = job.op
      BY <1>1, <2>1, <2>3, LockedGoTo DEF LockedSteps
    <3>2. QED
      BY <2>1, <2>3, <3>1, GoesOnKeepsSession
  <2>4. QED
    BY <1>5, <2>2, <2>3 DEF LaunchInstaller
<1>6. CASE Resume
  <2>1. job \in LockedJobs
    BY <1>1, <1>6, LockedStep DEF Resume, LockedSteps
  <2>2. UNCHANGED session /\ \E o \in Outcomes : EndAs(o)
    BY <1>6 DEF Resume, Outcomes
  <2>3. JobOK' /\ job' # NoJob /\ job'.op = job.op
    BY <1>1, <2>1, <2>2, LockedEnds
  <2>4. QED
    BY <2>1, <2>2, <2>3, GoesOnKeepsSession
<1>7. CASE Finish
  <2> DEFINE s == [session EXCEPT !.phase = "idle"]
  <2>1. s \in Sessions /\ s.phase \notin Busy /\ s.app = session.app
        /\ s.ready = session.ready
    BY <1>1 DEF Sessions, Busy
  <2>2. End(s) \/ End(Failed(session))
    BY <1>7 DEF Finish
  <2> HIDE DEF s
  <2>3. QED
    BY <1>1, <2>1, <2>2, FailedSession, EndKeepsInv
<1>8. QED
  BY <1>2, <1>3, <1>4, <1>5, <1>6, <1>7

LEMMA SwitchKeepsSession ==
    ASSUME Inv, \/ Replace \/ HelperAnswers \/ Select \/ Activate \/ Healthy
                \/ UndoStop \/ UndoReplace \/ Unselect \/ UndoResume
    PROVE  SessionInv'
<1>1. JobOK /\ UNCHANGED session
  BY DEF Inv, SessionInv, Replace, HelperAnswers, Select, Activate, Healthy,
     UndoStop, UndoReplace, Unselect, UndoResume
<1>2. PICK step \in LockedSteps : At("switch", step)
  BY DEF LockedSteps, Replace, HelperAnswers, Select, Activate, Healthy,
     UndoStop, UndoReplace, Unselect, UndoResume
<1>3. job \in LockedJobs
  BY <1>1, <1>2, LockedStep
<1>4. ASSUME NEW s \in LockedSteps, GoTo(s) PROVE SessionInv'
  BY <1>1, <1>3, <1>4, LockedGoTo, GoesOnKeepsSession
<1>5. ASSUME NEW o \in Outcomes, EndAs(o) PROVE SessionInv'
  BY <1>1, <1>3, <1>5, LockedEnds, GoesOnKeepsSession
<1>6. CASE HelperAnswers /\ helper.op = "update"
  <2>1. PICK s \in LockedSteps : job' = [job EXCEPT !.step = s, !.clean = helper.clean]
    BY <1>6 DEF HelperAnswers, LockedSteps
  <2>2. helper.clean \in BOOLEAN /\ job.outcome \in Outcomes
    BY <1>3, <1>6 DEF Inv, MachineInv, HelperOK, HelperAnswers, NoJob, LockedJobs
  <2>3. job' = [job EXCEPT !.step = s, !.clean = helper.clean, !.outcome = job.outcome]
    BY <1>3, <2>1 DEF LockedJobs
  <2>4. JobOK' /\ job' # NoJob /\ job'.op = job.op
    BY <1>1, <1>3, <2>2, <2>3, LockedGoes
  <2>5. QED
    BY <1>1, <1>3, <2>4, GoesOnKeepsSession
<1>7. CASE ~(HelperAnswers /\ helper.op = "update")
  <2>1. \/ \E s \in LockedSteps : GoTo(s)
        \/ \E o \in Outcomes : EndAs(o)
    BY <1>7 DEF Replace, HelperAnswers, Select, Activate, Healthy, UndoStop,
       UndoReplace, Unselect, UndoResume, RunHelper, AfterStop, LockedSteps, Outcomes
  <2>2. QED
    BY <1>4, <1>5, <2>1
<1>8. QED
  BY <1>6, <1>7

LEMMA SessionStep == ASSUME Inv, Next PROVE SessionInv'
<1>1. CASE HelperStep \/ OtherCommand \/ CacheDamaged \/ Launch \/ HelperDies
  <2>1. UNCHANGED <<session, job>>
    BY <1>1 DEF HelperStep, HelperPrepares, HelperHalts, HelperSaves, HelperSwaps,
       HelperUnswaps, HelperRestores, HelperRestarts, HelperTriesAgain, HelperLeaves,
       OtherCommand, CacheDamaged, Launch, HelperDies
  <2>2. QED
    BY <2>1 DEF Inv, SessionInv, PhaseShowsJob, JobOK, ReadyIsTheOneShown,
       DownloadsTheOneShown
<1>2. CASE AppDies
  BY <1>2 DEF AppDies, SessionInv, Sessions, NewSession, Busy, PhaseShowsJob, JobOK,
     NoJob, ReadyIsTheOneShown, DownloadsTheOneShown
<1>3. QED
  BY <1>1, <1>2, RequestKeepsSession, LoadKeepsSession, LockKeepsSession,
     SwitchKeepsSession DEF Next, JobStep, Environment

(******************************** the machine ********************************)

\* A failure is counted up to its bound.
LEMMA MishapCounts == ASSUME Inv, Mishap \/ UNCHANGED mishaps PROVE mishaps' \in 0 .. MaxMishaps
  BY BoundsAreNaturals DEF Inv, MachineInv, Mishap, Room

\* A core is started from the selected binary, whoever hosts it.
LEMMA StartedCore ==
    ASSUME Inv, NEW by \in {"sidecar", "service"}, StartCore(by)
    PROVE  /\ core' \in CoreStates /\ core' # NoCore /\ core'.bin = selected
           /\ service' \in {"absent", "stopped", "running"} /\ managed' \in Binaries
<1>1. PICK r \in Reached(by) :
        /\ Runnable(by, r) /\ service' = r.service /\ managed' = r.managed
        /\ core' = Running(by, IF by = "service" THEN r.managed ELSE selected)
  BY DEF StartCore
<1>2. selected \in Ids /\ service \in {"absent", "stopped", "running"} /\ managed \in Binaries
  BY DEF Inv, MachineInv
<1>3. r.service \in {"absent", "stopped", "running"} /\ r.managed \in Binaries
  BY <1>2 DEF Reached, Binaries, Ids
<1>4. core' = [by |-> by, bin |-> selected]
  BY <1>1 DEF Running, Runnable
<1>5. QED
  BY <1>1, <1>2, <1>3, <1>4 DEF CoreStates, NoCore

LEMMA FailedStart ==
    ASSUME Inv, NEW by \in {"sidecar", "service"}, StartFails(by)
    PROVE  /\ core' = NoCore /\ mishaps' \in 0 .. MaxMishaps
           /\ service' \in {"absent", "stopped", "running"} /\ managed' \in Binaries
<1>1. /\ service \in {"absent", "stopped", "running"} /\ managed \in Binaries
      /\ mishaps \in 0 .. MaxMishaps
  BY DEF Inv, MachineInv
<1>2. CASE core' = NoCore /\ UNCHANGED <<service, managed, mishaps>>
  BY <1>1, <1>2
<1>3. ASSUME NEW r \in Reached(by), service' = r.service, managed' = r.managed,
             Runnable(by, r) => mishaps < MaxMishaps,
             mishaps' = IF Runnable(by, r) THEN mishaps + 1 ELSE mishaps
      PROVE  /\ mishaps' \in 0 .. MaxMishaps /\ managed' \in Binaries
             /\ service' \in {"absent", "stopped", "running"}
  <2>1. r.service \in {"absent", "stopped", "running"} /\ r.managed \in Binaries
    BY <1>1 DEF Reached, Binaries, Ids
  <2>2. mishaps' \in 0 .. MaxMishaps
    <3>1. CASE Runnable(by, r)
      BY <1>1, <1>3, <3>1, BoundsAreNaturals
    <3>2. CASE ~Runnable(by, r)
      BY <1>1, <1>3, <3>2
    <3>3. QED
      BY <3>1, <3>2
  <2>3. QED
    BY <1>3, <2>1, <2>2
<1>4. QED
  BY <1>2, <1>3 DEF StartFails, Room

\* The host of a core that an operation saw running.
LEMMA SeenHost ==
    ASSUME job \in LockedJobs, job.running
    PROVE  job.core.by \in {"sidecar", "service"}
  BY DEF LockedJobs, CoreStates

\* A machine nobody touches keeps its invariant.
LEMMA SameMachine ==
    ASSUME Inv, UNCHANGED <<machine, alive, helper>>, Mishap \/ UNCHANGED mishaps
    PROVE  MachineInv' /\ CoreRunsSelected'
<1>1. mishaps' \in 0 .. MaxMishaps
  BY MishapCounts
<1>2. UNCHANGED <<cache, selected, service, managed, backup, core, alive, helper>>
  BY DEF machine
<1>3. QED
  BY <1>1, <1>2 DEF Inv, MachineInv, HelperOK, CoreInv, CoreRunsSelected

LEMMA RequestKeepsMachine == ASSUME Inv, UserRequest PROVE MachineInv' /\ CoreInv'
<1>1. UNCHANGED <<machine, alive, helper, mishaps>>
  BY DEF UserRequest, CheckApp, CheckCore, DownloadApp, DownloadCore, Cancel,
     InstallApp, SwitchCore, Begin
<1>2. NoCoreWhileSelecting'
  <2>1. CASE Cancel
    BY <1>1, <2>1 DEF Inv, CoreInv, Cancel, NoCoreWhileSelecting, machine
  <2>2. CASE CheckApp \/ CheckCore \/ DownloadApp \/ DownloadCore \/ InstallApp
    <3>1. job'.op # "switch"
      BY <2>2 DEF CheckApp, CheckCore, DownloadApp, DownloadCore, InstallApp, Begin
    <3>2. QED
      BY <3>1 DEF NoCoreWhileSelecting
  <2>3. ASSUME NEW id \in Ids, SwitchCore(id) PROVE NoCoreWhileSelecting'
    BY <2>3 DEF SwitchCore, Begin, NoCoreWhileSelecting
  <2>4. QED
    BY <2>1, <2>2, <2>3 DEF UserRequest
<1>3. QED
  BY <1>1, <1>2, SameMachine DEF CoreInv

LEMMA LoadKeepsMachine ==
    ASSUME Inv, \/ CheckAppAnswered \/ CheckCoreAnswered \/ Fetched \/ AppStored
                \/ CoreFetched \/ CoreCached \/ DownloadEnds
    PROVE  MachineInv' /\ CoreInv'
<1>1. JobOK
  BY DEF Inv, SessionInv
<1>2. NoCoreWhileSelecting'
  <2>1. CASE job' = NoJob
    BY <2>1 DEF NoJob, NoCoreWhileSelecting
  <2>2. CASE Fetched \/ CoreFetched \/ CoreCached
    <3>1. job.op \in {"app", "core"} /\ \E s \in LoadSteps : GoTo(s)
      BY <2>2 DEF Fetched, CoreFetched, CoreCached, Downloading, At, LoadSteps
    <3>2. job'.op # "switch"
      BY <1>1, <3>1, LoadGoes
    <3>3. QED
      BY <3>2 DEF NoCoreWhileSelecting
  <2>3. CASE CheckAppAnswered \/ CheckCoreAnswered \/ AppStored \/ DownloadEnds
    BY <2>1, <2>3 DEF CheckAppAnswered, CheckCoreAnswered, AppStored, DownloadEnds, End
  <2>4. QED
    BY <2>2, <2>3
<1>3. CASE CoreCached
  <2>1. job.what \in Cores
    BY <1>1, <1>3, CoreLoad DEF CoreCached, At, CoreLoads
  <2>2. cache' \in [Cores -> {"absent", "intact", "damaged"}]
    BY <1>3, <2>1 DEF CoreCached, Inv, MachineInv
  <2>3. mishaps' \in 0 .. MaxMishaps
    BY <1>3, MishapCounts DEF CoreCached
  <2>4. UNCHANGED <<selected, service, managed, backup, core, alive, helper>>
    BY <1>3 DEF CoreCached
  <2>5. QED
    BY <1>2, <2>2, <2>3, <2>4 DEF Inv, MachineInv, HelperOK, CoreInv, CoreRunsSelected
<1>4. CASE \/ CheckAppAnswered \/ CheckCoreAnswered \/ Fetched \/ AppStored
           \/ CoreFetched \/ DownloadEnds
  <2>1. UNCHANGED <<machine, alive, helper, mishaps>>
    BY <1>4 DEF CheckAppAnswered, CheckCoreAnswered, Fetched, AppStored, CoreFetched,
       DownloadEnds
  <2>2. QED
    BY <1>2, <2>1, SameMachine DEF CoreInv
<1>5. QED
  BY <1>3, <1>4

\* Where a locked operation stands after a step.
LEMMA Goes ==
    ASSUME JobOK, job \in LockedJobs, NEW s \in LockedSteps, GoTo(s)
    PROVE  job'.op = job.op /\ job'.step = s
  BY LockedGoTo

LEMMA Ends ==
    ASSUME JobOK, job \in LockedJobs, NEW o \in Outcomes, EndAs(o)
    PROVE  job'.step = "end"
  BY LockedEnds

\* A core that is stopped, or that is running as before, is as it should be.
LEMMA StoppedCore ==
    ASSUME Inv, core' \in {NoCore, core}, UNCHANGED selected
    PROVE  core' \in CoreStates /\ CoreRunsSelected'
  BY DEF Inv, MachineInv, CoreInv, CoreRunsSelected, CoreStates

\* resume_core starts the selected core, or leaves what runs.
LEMMA ResumedCore ==
    ASSUME Inv, job \in LockedJobs, UNCHANGED selected, Resumed
    PROVE  /\ core' \in CoreStates /\ CoreRunsSelected' /\ mishaps' \in 0 .. MaxMishaps
           /\ service' \in {"absent", "stopped", "running"} /\ managed' \in Binaries
<1>1. CASE job.running
  <2>1. StartCore(job.core.by) /\ UNCHANGED mishaps /\ job.core.by \in {"sidecar", "service"}
    BY <1>1, SeenHost DEF Resumed
  <2>2. QED
    BY <2>1, StartedCore, MishapCounts DEF CoreRunsSelected
<1>2. CASE ~job.running
  BY <1>2 DEF Resumed, Inv, MachineInv, CoreInv, CoreRunsSelected
<1>3. QED
  BY <1>1, <1>2

LEMMA UnresumedCore ==
    ASSUME Inv, job \in LockedJobs, ResumeFails
    PROVE  /\ core' = NoCore /\ mishaps' \in 0 .. MaxMishaps
           /\ service' \in {"absent", "stopped", "running"} /\ managed' \in Binaries
  BY SeenHost, FailedStart DEF ResumeFails

LEMMA LockKeepsMachine ==
    ASSUME Inv, \/ Acquire \/ Verify \/ Stop \/ LaunchInstaller \/ Resume \/ Finish
    PROVE  MachineInv' /\ CoreInv'
<1>1. JobOK
  BY DEF Inv, SessionInv
<1>2. CASE Acquire
  <2>1. UNCHANGED <<machine, alive, helper>> /\ (Mishap \/ UNCHANGED mishaps)
    BY <1>2 DEF Acquire
  <2>2. job'.step = "verify"
    BY <1>2 DEF Acquire
  <2>3. QED
    BY <2>1, <2>2, SameMachine DEF CoreInv, NoCoreWhileSelecting
<1>3. CASE Verify
  <2>1. job \in LockedJobs
    BY <1>1, <1>3, LockedStep DEF Verify, LockedSteps
  <2>2. UNCHANGED <<machine, alive, helper>> /\ (Mishap \/ UNCHANGED mishaps)
    BY <1>3 DEF Verify
  <2>3. job'.step \in {"stop", "end"}
    BY <1>1, <1>3, <2>1, Goes, Ends DEF Verify, LockedSteps, Outcomes
  <2>4. QED
    BY <2>2, <2>3, SameMachine DEF CoreInv, NoCoreWhileSelecting
<1>4. CASE Stop
  <2>1. job \in LockedJobs
    BY <1>1, <1>4, LockedStep DEF Stop, LockedSteps
  <2>2. /\ core' \in {NoCore, core} /\ mishaps' \in 0 .. MaxMishaps
        /\ UNCHANGED <<cache, selected, service, managed, backup, helper, alive>>
    BY <1>4, MishapCounts DEF Stop, StopCore, StopFails
  <2>3. core' = NoCore \/ job'.step = "resume"
    BY <1>1, <1>4, <2>1, Goes DEF Stop, StopCore, LockedSteps
  <2>4. QED
    BY <2>2, <2>3, StoppedCore DEF Inv, MachineInv, HelperOK, CoreInv,
       NoCoreWhileSelecting
<1>5. CASE LaunchInstaller
  <2>1. job \in LockedJobs
    BY <1>1, <1>5, LockedStep DEF LaunchInstaller, Holding, LockedSteps
  <2>2. UNCHANGED <<machine, helper>> /\ (Mishap \/ UNCHANGED mishaps) /\ alive' \in BOOLEAN
    BY <1>5 DEF LaunchInstaller, Inv, MachineInv
  <2>3. job'.step \in {"none", "resume"}
    BY <1>1, <1>5, <2>1, Goes DEF LaunchInstaller, NoJob, LockedSteps
  <2>4. mishaps' \in 0 .. MaxMishaps
    BY <2>2, MishapCounts
  <2>5. QED
    BY <2>2, <2>3, <2>4 DEF Inv, MachineInv, HelperOK, machine, CoreInv,
       CoreRunsSelected, NoCoreWhileSelecting
<1>6. CASE Resume
  <2>1. job \in LockedJobs
    BY <1>1, <1>6, LockedStep DEF Resume, LockedSteps
  <2>2. UNCHANGED <<cache, selected, backup, helper, alive>> /\ (Resumed \/ ResumeFails)
    BY <1>6 DEF Resume
  <2>3. job'.step = "end"
    BY <1>1, <1>6, <2>1, Ends DEF Resume, Outcomes
  <2>4. /\ core' \in CoreStates /\ CoreRunsSelected' /\ mishaps' \in 0 .. MaxMishaps
        /\ service' \in {"absent", "stopped", "running"} /\ managed' \in Binaries
    BY <2>1, <2>2, ResumedCore, UnresumedCore, StoppedCore
  <2>5. QED
    BY <2>2, <2>3, <2>4 DEF Inv, MachineInv, HelperOK, CoreInv, NoCoreWhileSelecting
<1>7. CASE Finish
  <2>1. UNCHANGED <<machine, alive, helper, mishaps>> /\ job' = NoJob
    BY <1>7 DEF Finish, End
  <2>2. QED
    BY <2>1, SameMachine DEF CoreInv, NoCoreWhileSelecting, NoJob
<1>8. QED
  BY <1>2, <1>3, <1>4, <1>5, <1>6, <1>7

LEMMA SwitchKeepsMachine ==
    ASSUME Inv, \/ Replace \/ HelperAnswers \/ Select \/ Activate \/ Healthy
                \/ UndoStop \/ UndoReplace \/ Unselect \/ UndoResume
    PROVE  MachineInv' /\ CoreInv'
<1>1. JobOK
  BY DEF Inv, SessionInv
<1>2. PICK step \in LockedSteps : At("switch", step)
  BY DEF LockedSteps, Replace, HelperAnswers, Select, Activate, Healthy,
     UndoStop, UndoReplace, Unselect, UndoResume
<1>3. job \in LockedJobs /\ job.to \in Ids /\ job.selected \in Ids
  BY <1>1, <1>2, LockedStep DEF JobOK, At, LockedJobs
<1>4. /\ NoCoreWhileSelecting
      /\ At("switch", "replace") \/ At("switch", "wait") \/ At("switch", "select")
         \/ At("switch", "undo_replace") \/ At("switch", "unselect") => core = NoCore
  BY DEF Inv, CoreInv, NoCoreWhileSelecting, At
<1>5. CASE Replace \/ UndoReplace
  <2>1. core = NoCore /\ UNCHANGED <<machine, alive>> /\ (Mishap \/ UNCHANGED mishaps)
    BY <1>4, <1>5 DEF Replace, UndoReplace, RunHelper
  <2>2. HelperOK'
    <3>1. CASE UNCHANGED helper
      BY <3>1 DEF Inv, MachineInv, HelperOK
    <3>2. ASSUME NEW op \in {"update", "rollback"}, NEW s \in HelperSteps,
                 helper' = [op |-> op, step |-> s, id |-> job.to, was |-> FALSE,
                            ok |-> TRUE, clean |-> TRUE]
          PROVE  HelperOK'
      BY <1>3, <3>2 DEF HelperOK
    <3>3. CASE Replace /\ ~UNCHANGED helper
      BY <3>2, <3>3 DEF Replace, RunHelper, HelperSteps
    <3>4. CASE UndoReplace /\ ~UNCHANGED helper
      BY <3>2, <3>4 DEF UndoReplace, RunHelper, HelperSteps
    <3>5. QED
      BY <1>5, <3>1, <3>3, <3>4
  <2>3. mishaps' \in 0 .. MaxMishaps
    BY <2>1, MishapCounts
  <2>4. QED
    BY <2>1, <2>2, <2>3 DEF Inv, MachineInv, machine, CoreInv, CoreRunsSelected,
       NoCoreWhileSelecting
<1>6. CASE HelperAnswers
  <2>1. core = NoCore /\ UNCHANGED <<machine, alive, mishaps>> /\ helper' = NoJob
    BY <1>4, <1>6 DEF HelperAnswers
  <2>2. QED
    BY <2>1 DEF Inv, MachineInv, machine, HelperOK, CoreInv, CoreRunsSelected,
       NoCoreWhileSelecting
<1>7. CASE Select \/ Unselect
  <2>1. /\ core = NoCore /\ selected' \in Ids /\ mishaps' \in 0 .. MaxMishaps
        /\ UNCHANGED <<cache, service, managed, backup, core, helper, alive>>
    BY <1>3, <1>4, <1>7, MishapCounts DEF Select, Unselect, Inv, MachineInv
  <2>2. QED
    BY <2>1 DEF Inv, MachineInv, HelperOK, CoreInv, CoreRunsSelected,
       NoCoreWhileSelecting
<1>8. CASE Activate \/ UndoResume
  <2>1. /\ UNCHANGED <<cache, selected, backup, helper, alive>>
        /\ \/ Resumed \/ ResumeFails
           \/ Mishap /\ UNCHANGED <<service, managed, core>>
    BY <1>8 DEF Activate, UndoResume
  <2>2. job'.step \in {"health", "undo_stop", "end"}
    BY <1>1, <1>3, <1>8, Goes, Ends DEF Activate, UndoResume, LockedSteps, Outcomes
  <2>3. /\ core' \in CoreStates /\ CoreRunsSelected' /\ mishaps' \in 0 .. MaxMishaps
        /\ service' \in {"absent", "stopped", "running"} /\ managed' \in Binaries
    <3>1. CASE Resumed \/ ResumeFails
      BY <1>3, <2>1, <3>1, ResumedCore, UnresumedCore, StoppedCore
    <3>2. CASE Mishap /\ UNCHANGED <<service, managed, core>>
      BY <2>1, <3>2, MishapCounts, StoppedCore DEF Inv, MachineInv
    <3>3. QED
      BY <2>1, <3>1, <3>2
  <2>4. QED
    BY <2>1, <2>2, <2>3 DEF Inv, MachineInv, HelperOK, CoreInv, NoCoreWhileSelecting
<1>9. CASE Healthy
  <2>1. UNCHANGED <<machine, alive, helper>> /\ (Mishap \/ UNCHANGED mishaps)
    BY <1>9 DEF Healthy
  <2>2. job'.step \in {"end", "undo_stop"}
    BY <1>1, <1>3, <1>9, Goes, Ends DEF Healthy, LockedSteps, Outcomes
  <2>3. QED
    BY <2>1, <2>2, SameMachine DEF CoreInv, NoCoreWhileSelecting
<1>10. CASE UndoStop
  <2>1. /\ core' \in {NoCore, core} /\ mishaps' \in 0 .. MaxMishaps
        /\ UNCHANGED <<cache, selected, service, managed, backup, helper, alive>>
    BY <1>10, MishapCounts DEF UndoStop, StopCore, StopFails
  <2>2. core' = NoCore \/ job'.step = "end"
    BY <1>1, <1>3, <1>10, Ends DEF UndoStop, StopCore, Outcomes
  <2>3. QED
    BY <2>1, <2>2, StoppedCore DEF Inv, MachineInv, HelperOK, CoreInv,
       NoCoreWhileSelecting
<1>11. QED
  BY <1>5, <1>6, <1>7, <1>8, <1>9, <1>10

(************************ the helper and the environment **********************)

\* The helper goes from step to step.
LEMMA HelperMoves ==
    ASSUME Inv, NEW s \in HelperSteps, helper # NoJob,
           \/ HelperGoes(s) \/ HelperFails(s)
           \/ helper' = [helper EXCEPT !.step = s, !.clean = FALSE]
           \/ helper' = [helper EXCEPT !.step = s, !.ok = FALSE, !.clean = FALSE]
           \/ helper' = [helper EXCEPT !.was = service = "running", !.step = s]
    PROVE  HelperOK'
<1>1. helper \in [op : {"update", "rollback"}, step : HelperSteps, id : Ids,
                  was : BOOLEAN, ok : BOOLEAN, clean : BOOLEAN]
  BY DEF Inv, MachineInv, HelperOK
<1>2. CASE HelperGoes(s) \/ HelperFails(s)
  BY <1>1, <1>2 DEF HelperGoes, HelperFails, HelperOK
<1>3. CASE \/ helper' = [helper EXCEPT !.step = s, !.clean = FALSE]
           \/ helper' = [helper EXCEPT !.step = s, !.ok = FALSE, !.clean = FALSE]
  BY <1>1, <1>3 DEF HelperOK
<1>4. CASE helper' = [helper EXCEPT !.was = service = "running", !.step = s]
  BY <1>1, <1>4 DEF HelperOK
<1>5. QED
  BY <1>2, <1>3, <1>4

LEMMA HelperKeepsMachine ==
    ASSUME Inv, HelperStep \/ HelperDies PROVE MachineInv' /\ CoreInv'
<1>1. /\ UNCHANGED <<job, cache, selected, alive>> /\ core' \in {NoCore, core}
      /\ Mishap \/ UNCHANGED mishaps
  BY DEF HelperStep, HelperPrepares, HelperHalts, HelperSaves, HelperSwaps,
     HelperUnswaps, HelperRestores, HelperRestarts, HelperTriesAgain, HelperLeaves,
     HelperDies, machine
<1>2. HelperOK'
  <2>1. CASE HelperLeaves
    BY <2>1 DEF HelperLeaves, HelperOK
  <2>2. CASE HelperHalts
    <3>1. helper # NoJob
      BY <2>2 DEF HelperHalts, HelperAt, NoJob
    <3>2. CASE HelperFails("done")
      BY <3>1, <3>2, HelperMoves DEF HelperSteps
    <3>3. ASSUME NEW s \in {"save", "restore"},
                 helper' = [helper EXCEPT !.was = service = "running", !.step = s]
          PROVE  HelperOK'
      BY <3>1, <3>3, HelperMoves DEF HelperSteps
    <3>4. QED
      BY <2>2, <3>2, <3>3 DEF HelperHalts
  <2>3. CASE HelperDies
    <3>1. helper # NoJob
      BY <2>3 DEF HelperDies, Idle, NoJob
    <3>2. QED
      BY <2>3, <3>1, HelperMoves DEF HelperDies, HelperSteps
  <2>4. CASE \/ HelperPrepares \/ HelperSaves \/ HelperSwaps \/ HelperUnswaps
             \/ HelperRestores \/ HelperRestarts \/ HelperTriesAgain
    <3>1. helper # NoJob
      BY <2>4 DEF HelperPrepares, HelperSaves, HelperSwaps, HelperUnswaps,
         HelperRestores, HelperRestarts, HelperTriesAgain, HelperAt, NoJob
    <3>2. PICK s \in HelperSteps :
            \/ HelperGoes(s) \/ HelperFails(s)
            \/ helper' = [helper EXCEPT !.step = s, !.clean = FALSE]
      BY <2>4 DEF HelperPrepares, HelperSaves, HelperSwaps, HelperUnswaps,
         HelperRestores, HelperRestarts, HelperTriesAgain, HelperSteps
    <3>3. QED
      BY <3>1, <3>2, HelperMoves
  <2>5. QED
    BY <2>1, <2>2, <2>3, <2>4 DEF HelperStep
<1>3. managed' \in Binaries /\ backup' \in Binaries
  <2>1. managed \in Binaries /\ backup \in Binaries /\ None \in Binaries
    BY DEF Inv, MachineInv, Binaries
  <2>2. CASE HelperSwaps
    <3>1. helper.id \in Ids
      BY <2>2 DEF HelperSwaps, HelperAt, Inv, MachineInv, HelperOK, NoJob
    <3>2. QED
      BY <2>1, <2>2, <3>1 DEF HelperSwaps, Binaries
  <2>3. CASE ~HelperSwaps
    BY <2>1, <2>3 DEF HelperStep, HelperPrepares, HelperHalts, HelperSaves,
       HelperUnswaps, HelperRestores, HelperRestarts, HelperTriesAgain, HelperLeaves,
       HelperDies, machine, PutBack
  <2>4. QED
    BY <2>2, <2>3
<1>4. service' \in {"absent", "stopped", "running"}
  <2>1. service \in {"absent", "stopped", "running"}
    BY DEF Inv, MachineInv
  <2>2. service' \in {service, "stopped", "running"}
    BY DEF HelperStep, HelperPrepares, HelperHalts, HelperSaves, HelperSwaps,
       HelperUnswaps, HelperRestores, HelperRestarts, HelperTriesAgain, HelperLeaves,
       HelperDies, machine
  <2>3. QED
    BY <2>1, <2>2
<1>5. mishaps' \in 0 .. MaxMishaps
  BY <1>1, MishapCounts
<1>6. core' \in CoreStates /\ CoreRunsSelected' /\ NoCoreWhileSelecting'
  BY <1>1, StoppedCore DEF Inv, CoreInv, NoCoreWhileSelecting
<1>7. QED
  BY <1>1, <1>2, <1>3, <1>4, <1>5, <1>6 DEF Inv, MachineInv, CoreInv

\* The commands that start and stop cores wait for config_lock.
LEMMA CommandKeepsMachine == ASSUME Inv, OtherCommand PROVE MachineInv' /\ CoreInv'
<1>1. UNCHANGED <<job, cache, selected, backup, helper, alive, mishaps>> /\ ~Locked
  BY DEF OtherCommand
<1>2. NoCoreWhileSelecting'
  BY <1>1 DEF Locked, NoCoreWhileSelecting
<1>3. None \in Binaries /\ Bundled \in Binaries
  BY DEF Binaries, Ids
<1>4. CASE core = NoCore /\ \E by \in {"sidecar", "service"} : StartCore(by)
  <2>1. /\ core' \in CoreStates /\ core' # NoCore /\ core'.bin = selected
        /\ service' \in {"absent", "stopped", "running"} /\ managed' \in Binaries
    BY <1>4, StartedCore
  <2>2. QED
    BY <1>1, <1>2, <2>1 DEF Inv, MachineInv, HelperOK, CoreInv, CoreRunsSelected
<1>5. CASE \/ StopCore /\ UNCHANGED <<service, managed>>
           \/ /\ service' = "running" /\ managed' = Bundled
              /\ core' = IF core.by = "service" THEN NoCore ELSE core
           \/ /\ service' = "absent" /\ managed' = None
              /\ core' = IF core.by = "service" THEN NoCore ELSE core
  <2>1. /\ core' \in {NoCore, core}
        /\ service' \in {"absent", "stopped", "running"} /\ managed' \in Binaries
    BY <1>3, <1>5 DEF StopCore, Inv, MachineInv
  <2>2. core' \in CoreStates /\ CoreRunsSelected'
    BY <1>1, <2>1, StoppedCore
  <2>3. QED
    BY <1>1, <1>2, <2>1, <2>2 DEF Inv, MachineInv, HelperOK, CoreInv
<1>6. QED
  BY <1>4, <1>5 DEF OtherCommand

LEMMA EnvironmentKeepsMachine ==
    ASSUME Inv, CacheDamaged \/ AppDies \/ Launch PROVE MachineInv' /\ CoreInv'
<1>1. /\ cache' \in [Cores -> {"absent", "intact", "damaged"}] /\ alive' \in BOOLEAN
      /\ core' \in {NoCore, core} /\ mishaps' \in 0 .. MaxMishaps
      /\ UNCHANGED <<selected, service, managed, backup, helper>>
  BY MishapCounts DEF CacheDamaged, AppDies, Launch, machine, Inv, MachineInv
<1>2. core' \in CoreStates /\ CoreRunsSelected'
  BY <1>1, StoppedCore
<1>3. NoCoreWhileSelecting'
  <2>1. CASE UNCHANGED job
    BY <1>1, <2>1 DEF Inv, CoreInv, NoCoreWhileSelecting
  <2>2. CASE job' = NoJob
    BY <2>2 DEF NoCoreWhileSelecting, NoJob
  <2>3. QED
    BY <2>1, <2>2 DEF CacheDamaged, AppDies, Launch
<1>4. QED
  BY <1>1, <1>2, <1>3 DEF Inv, MachineInv, HelperOK, CoreInv

(******************************** theorems ***********************************)

LEMMA InitInv == Init => Inv
<1> SUFFICES ASSUME Init PROVE Inv
  OBVIOUS
<1>1. SessionInv
  BY DEF Init, SessionInv, Sessions, NewSession, PhaseShowsJob, Busy, JobOK, NoJob,
     ReadyIsTheOneShown, DownloadsTheOneShown
<1>2. MachineInv
  BY BoundsAreNaturals DEF Init, MachineInv, HelperOK, Binaries, CoreStates, Ids
<1>3. CoreInv
  BY DEF Init, CoreInv, CoreRunsSelected, NoCoreWhileSelecting
<1>4. QED
  BY <1>1, <1>2, <1>3 DEF Inv

LEMMA StepInv == ASSUME Inv, [Next]_vars PROVE Inv'
<1>1. CASE Next
  <2>1. SessionInv'
    BY <1>1, SessionStep
  <2>2. MachineInv' /\ CoreInv'
    BY <1>1, RequestKeepsMachine, LoadKeepsMachine, LockKeepsMachine,
       SwitchKeepsMachine, HelperKeepsMachine, CommandKeepsMachine,
       EnvironmentKeepsMachine DEF Next, JobStep, Environment
  <2>3. QED
    BY <2>1, <2>2 DEF Inv
<1>2. CASE UNCHANGED vars
  <2>1. UNCHANGED <<session, job>> /\ UNCHANGED <<machine, helper, alive, mishaps>>
    BY <1>2 DEF vars
  <2>2. SessionInv'
    BY <2>1 DEF Inv, SessionInv, PhaseShowsJob, JobOK, ReadyIsTheOneShown,
       DownloadsTheOneShown
  <2>3. MachineInv' /\ CoreRunsSelected'
    BY <2>1, SameMachine
  <2>4. NoCoreWhileSelecting'
    BY <2>1 DEF Inv, CoreInv, NoCoreWhileSelecting, machine
  <2>5. QED
    BY <2>2, <2>3, <2>4 DEF Inv, CoreInv
<1>3. QED
  BY <1>1, <1>2

\* The invariant holds in every reachable state.
THEOREM Invariance == Spec => []Inv
  BY InitInv, StepInv, PTL DEF Spec

\* The types, and that the phase is busy exactly while an operation is at work
\* (updater.rs:47-57, 109-130).
THEOREM TypeCorrect == Spec => []TypeOK
<1>1. Inv => TypeOK
  BY DEF Inv, SessionInv, Sessions, PhaseShowsJob, MachineInv, Binaries, CoreStates,
     TypeOK
<1>2. QED
  BY <1>1, Invariance, PTL

\* The verified installer is always the one of the candidate on the page
\* (updater.rs:306-315, 374-417).
THEOREM InstallerIsTheOneShown == Spec => []ReadyIsTheOneShown
  BY Invariance, PTL DEF Inv, SessionInv

\* A running core is the selected core (core.rs:149-158, updater.rs:648-731).
THEOREM SelectedCoreRuns == Spec => []CoreRunsSelected
  BY Invariance, PTL DEF Inv, CoreInv

\* A cancelled download stores nothing (updater.rs:407-417, core_update.rs:207-286).
THEOREM CancellationHolds == Spec => CancelledLeavesNothing
<1>1. ASSUME Inv, Next, session.cancelled, job # NoJob
      PROVE  /\ session'.ready = None \/ session'.ready = session.ready
             /\ \A id \in Cores : cache'[id] = "intact" => cache[id] = "intact"
  <2>1. session \in Sessions /\ session.phase \in Busy
    BY <1>1 DEF Inv, SessionInv, PhaseShowsJob
  <2>2. session'.ready = None \/ session'.ready = session.ready
    <3>1. CASE UserRequest
      <4>1. CASE Cancel
        BY <2>1, <4>1 DEF Cancel, Sessions
      <4>2. QED
        BY <2>1, <3>1, <4>1 DEF UserRequest, CheckApp, CheckCore, DownloadApp,
           DownloadCore, InstallApp, SwitchCore, Begin
    <3>2. CASE JobStep
      <4>1. Failed(session).ready = session.ready
        BY <2>1, FailedSession
      <4>2. CASE CheckAppAnswered
        <5>1. ASSUME NEW found \in Releases \cup {None},
                     session' = [session EXCEPT !.app = found, !.ready = StillReady(found),
                       !.phase = IF StillReady(found) = None THEN "idle" ELSE "ready"]
              PROVE  session'.ready = StillReady(found)
          BY <2>1, <5>1 DEF Sessions
        <5>2. QED
          BY <4>1, <4>2, <5>1 DEF CheckAppAnswered, Offered, End, StillReady
      <4>3. CASE \/ CheckCoreAnswered \/ AppStored \/ CoreFetched \/ DownloadEnds
                 \/ Finish
        BY <1>1, <2>1, <4>1, <4>3 DEF CheckCoreAnswered, AppStored, CoreFetched,
           DownloadEnds, Finish, End, Sessions
      <4>4. CASE LaunchInstaller
        BY <4>4 DEF LaunchInstaller, NewSession
      <4>5. CASE \/ Fetched \/ CoreCached \/ Acquire \/ Verify \/ Stop \/ Resume
                 \/ Replace \/ HelperAnswers \/ Select \/ Activate \/ Healthy
                 \/ UndoStop \/ UndoReplace \/ Unselect \/ UndoResume
        BY <4>5 DEF Fetched, CoreCached, Acquire, Verify, Stop, Resume, Replace,
           HelperAnswers, Select, Activate, Healthy, UndoStop, UndoReplace, Unselect,
           UndoResume
      <4>6. QED
        BY <3>2, <4>2, <4>3, <4>4, <4>5 DEF JobStep
    <3>3. CASE HelperStep \/ Environment
      BY <3>3 DEF HelperStep, HelperPrepares, HelperHalts, HelperSaves, HelperSwaps,
         HelperUnswaps, HelperRestores, HelperRestarts, HelperTriesAgain, HelperLeaves,
         Environment, OtherCommand, CacheDamaged, AppDies, Launch, HelperDies, NewSession
    <3>4. QED
      BY <1>1, <3>1, <3>2, <3>3 DEF Next
  <2>3. \A id \in Cores : cache'[id] = "intact" => cache[id] = "intact"
    <3>1. cache \in [Cores -> {"absent", "intact", "damaged"}]
      BY <1>1 DEF Inv, MachineInv
    <3>2. CASE CoreCached
      BY <1>1, <3>1, <3>2 DEF CoreCached
    <3>3. CASE CacheDamaged
      BY <3>1, <3>3 DEF CacheDamaged
    <3>4. CASE ~CoreCached /\ ~CacheDamaged
      BY <1>1, <3>4 DEF Next, UserRequest, CheckApp, CheckCore, DownloadApp, DownloadCore,
         Cancel, InstallApp, SwitchCore, Begin, JobStep, CheckAppAnswered,
         CheckCoreAnswered, Fetched, AppStored, CoreFetched, DownloadEnds, Acquire,
         Verify, Stop, LaunchInstaller, Resume, Replace, HelperAnswers, Select, Activate,
         Healthy, UndoStop, UndoReplace, Unselect, UndoResume, Finish, HelperStep,
         HelperPrepares, HelperHalts, HelperSaves, HelperSwaps, HelperUnswaps,
         HelperRestores, HelperRestarts, HelperTriesAgain, HelperLeaves, Environment,
         OtherCommand, AppDies, Launch, HelperDies, machine
    <3>5. QED
      BY <3>2, <3>3, <3>4
  <2>4. QED
    BY <2>2, <2>3
<1>2. ASSUME Inv, [Next]_vars
      PROVE  [session.cancelled /\ job # NoJob =>
                /\ session'.ready = None \/ session'.ready = session.ready
                /\ \A id \in Cores : cache'[id] = "intact" => cache[id] = "intact"]_vars
  BY <1>1, <1>2
<1>3. QED
  BY <1>2, Invariance, PTL DEF Spec, CancelledLeavesNothing

(******************* an operation is complete or undone **********************)

\* The service's core is its own copy, and it has one only where it is installed.
HostInv == core.by = "service" => managed = core.bin /\ service # "absent"

\* An operation under config_lock that found no helper at work.
Claimed == Locked /\ job.alone

\* What it found fits together, as HostInv and CoreRunsSelected say.
FoundInOrder ==
    /\ job.core # NoCore => job.core.bin = job.selected
    /\ job.core.by = "service" => job.installed /\ job.managed = job.selected

AsBefore == selected = job.selected /\ managed = job.managed
\* The copy that a rollback puts back, and the one that the switch has put there.
CanUndo  == IF job.installed THEN backup = job.managed ELSE managed = job.managed
Replaced == CanUndo /\ (job.installed => managed = job.to)
NewCore  == IF job.running THEN Running(job.core.by, job.to) ELSE NoCore

\* Where an update of the service's copy stands, and what of it failed.
UpdateFollows ==
    /\ helper.step \in HelperSteps \ {"restore"}
    /\ selected = job.selected
    /\ helper.step \in {"prepare", "halt", "save", "swap"} =>
         managed = job.managed /\ helper.ok /\ helper.clean
    /\ helper.step \in {"swap", "unswap", "again"} => backup = job.managed
    /\ helper.step \in {"unswap", "again"} => ~helper.ok
    /\ helper.step \in {"restart", "done"} =>
         IF helper.ok THEN Replaced ELSE helper.clean => managed = job.managed

RollbackFollows ==
    /\ helper.step \in {"halt", "restore", "restart", "done"}
    /\ helper.step \in {"halt", "restore"} => backup = job.managed
    /\ helper.step \in {"restart", "done"} /\ helper.ok => managed = job.managed

HelperFollows ==
    /\ helper # NoJob /\ helper.id = job.to /\ job.op = "switch" /\ job.installed
    /\ helper.op = "update" => UpdateFollows
    /\ helper.op = "rollback" => RollbackFollows

\* What the operation ends with.
IsComplete ==
    /\ job.outcome = "switched" =>
         selected = job.to /\ (job.installed => managed = job.to) /\ core = NewCore
    /\ job.outcome = "restored" =>
         AsBefore /\ (core = job.core \/ (core = NoCore /\ ~job.running))

\* What the steps up to each point of the operation have left.
StepFollows ==
    /\ job.step \in {"verify", "stop", "launch", "replace"} => AsBefore /\ job.clean
    /\ job.step \in {"verify", "stop"} => core = job.core
    /\ job.step = "launch" => core = NoCore
    /\ job.step \in {"replace", "undo_replace"} => job.installed
    /\ job.step = "resume" =>
         /\ selected = job.selected /\ core \in {job.core, NoCore}
         /\ job.clean => managed = job.managed
    /\ job.step = "select" => selected = job.selected /\ Replaced
    /\ job.step = "activate" => selected = job.to /\ Replaced
    /\ job.step = "health" => selected = job.to /\ Replaced /\ core = NewCore
    /\ job.step \in {"undo_stop", "undo_replace"} => CanUndo
    /\ job.step = "unselect" => managed = job.managed
    /\ job.step = "undo_resume" => AsBefore
    /\ job.step = "wait" => HelperFollows
    /\ job.step # "wait" => helper = NoJob
    /\ job.step = "end" => IsComplete

ChangeInv ==
    /\ HostInv
    /\ job # NoJob => alive
    /\ Claimed => FoundInOrder /\ StepFollows

\* What no step changes about the operation at work.
SameChange ==
    /\ job'.op = job.op /\ job'.to = job.to /\ job'.selected = job.selected
    /\ job'.managed = job.managed /\ job'.core = job.core /\ job'.running = job.running
    /\ job'.installed = job.installed /\ job'.alone = job.alone

LEMMA LockedMoves ==
    ASSUME job \in LockedJobs, NEW s, GoTo(s)
    PROVE  SameChange /\ job'.step = s /\ job'.clean = job.clean
  BY DEF LockedJobs, GoTo, SameChange

LEMMA LockedStops ==
    ASSUME job \in LockedJobs, NEW o, EndAs(o)
    PROVE  SameChange /\ job'.step = "end" /\ job'.outcome = o
  BY DEF LockedJobs, EndAs, SameChange

\* Who starts a core starts the selected one, from a copy that is the same.
LEMMA StartedAs ==
    ASSUME NEW by \in {"sidecar", "service"}, StartCore(by)
    PROVE  /\ core' = Running(by, selected)
           /\ managed' = IF by = "service" THEN selected ELSE managed
           /\ by = "service" => service' # "absent"
<1>1. PICK r \in Reached(by) :
        /\ Runnable(by, r) /\ service' = r.service /\ managed' = r.managed
        /\ core' = Running(by, IF by = "service" THEN r.managed ELSE selected)
  BY DEF StartCore
<1>2. CASE by = "service"
  <2>1. r.managed = selected
    BY <1>1, <1>2 DEF Runnable
  <2>2. r.service # "absent"
    BY <1>2 DEF Reached
  <2>3. QED
    BY <1>1, <1>2, <2>1, <2>2
<1>3. CASE by = "sidecar"
  <2>1. r.managed = managed
    BY <1>3 DEF Reached
  <2>2. QED
    BY <1>1, <1>3, <2>1
<1>4. QED
  BY <1>2, <1>3

LEMMA FailedAs ==
    ASSUME NEW by \in {"sidecar", "service"}, StartFails(by)
    PROVE  core' = NoCore /\ (by = "sidecar" => managed' = managed)
  BY DEF StartFails, Reached

\* The old core comes back as it was, the new one as it should be.
LEMMA OldCoreBack ==
    ASSUME Inv, job \in LockedJobs, FoundInOrder, AsBefore, Resumed
    PROVE  /\ managed' = job.managed
           /\ core' = IF job.running THEN job.core ELSE core
<1>1. CASE job.running
  <2>1. StartCore(job.core.by) /\ job.core # NoCore /\ job.core.by \in {"sidecar", "service"}
    BY <1>1, SeenHost DEF Resumed, LockedJobs
  <2>2. job.core = Running(job.core.by, job.core.bin)
    BY <2>1 DEF LockedJobs, CoreStates, Running
  <2>3. job.core.bin = job.selected /\ (job.core.by = "service" => job.managed = job.selected)
    BY <2>1 DEF FoundInOrder
  <2>4. QED
    BY <1>1, <2>1, <2>2, <2>3, StartedAs DEF AsBefore
<1>2. CASE ~job.running
  BY <1>2 DEF Resumed, AsBefore
<1>3. QED
  BY <1>1, <1>2

LEMMA NewCoreUp ==
    ASSUME Inv, job \in LockedJobs, FoundInOrder, selected = job.to, Replaced,
           core = NoCore, Resumed, UNCHANGED backup
    PROVE  core' = NewCore /\ managed' = managed
<1>1. CASE job.running
  <2>1. StartCore(job.core.by) /\ job.core.by \in {"sidecar", "service"}
    BY <1>1, SeenHost DEF Resumed
  <2>2. job.core.by = "service" => managed = selected
    BY DEF FoundInOrder, Replaced
  <2>3. QED
    BY <1>1, <2>1, <2>2, StartedAs DEF NewCore
<1>2. CASE ~job.running
  BY <1>2 DEF Resumed, NewCore
<1>3. QED
  BY <1>1, <1>2

\* A core that does not come up leaves what a rollback needs.
LEMMA StillUndone ==
    ASSUME Inv, job \in LockedJobs, FoundInOrder, CanUndo, ResumeFails, UNCHANGED backup,
           SameChange
    PROVE  CanUndo'
<1>1. job.running /\ StartFails(job.core.by) /\ job.core.by \in {"sidecar", "service"}
  BY SeenHost DEF ResumeFails
<1>2. job.core.by = "service" => job.installed
  BY DEF FoundInOrder
<1>3. QED
  BY <1>1, <1>2, FailedAs DEF CanUndo, SameChange

\* Checks and downloads leave the machine and the application alone.
LEMMA LoadSpares ==
    ASSUME \/ CheckAppAnswered \/ CheckCoreAnswered \/ Fetched \/ AppStored \/ CoreFetched
           \/ CoreCached \/ DownloadEnds
    PROVE  UNCHANGED <<core, managed, service, selected, helper, alive>> /\ alive
<1>1. CASE CheckAppAnswered
  <2>1. UNCHANGED <<machine, helper, alive, mishaps>> /\ At("check_app", "ask")
    BY <1>1, Zenon DEF CheckAppAnswered
  <2>2. QED
    BY <2>1 DEF machine, At
<1>2. CASE \/ CheckCoreAnswered \/ Fetched \/ AppStored \/ CoreFetched \/ DownloadEnds
  <2>1. UNCHANGED <<machine, helper, alive, mishaps>>
    BY <1>2, Zenon DEF CheckCoreAnswered, Fetched, AppStored, CoreFetched, DownloadEnds
  <2>2. alive
    BY <1>2, Zenon DEF CheckCoreAnswered, Fetched, AppStored, CoreFetched, DownloadEnds,
       Downloading, At
  <2>3. QED
    BY <2>1, <2>2 DEF machine
<1>3. CASE CoreCached
  BY <1>3 DEF CoreCached, At
<1>4. QED
  BY <1>1, <1>2, <1>3

LEMMA HostStep == ASSUME Inv, HostInv, Next PROVE HostInv'
<1>1. core' = NoCore => HostInv'
  BY DEF HostInv, NoCore
<1>2. UNCHANGED <<core, managed, service>> => HostInv'
  BY DEF HostInv
<1>3. ASSUME NEW by \in {"sidecar", "service"}, StartCore(by) PROVE HostInv'
  <2>1. core'.by = by /\ core'.bin = selected
    BY <1>3, StartedAs DEF Running
  <2>2. QED
    BY <1>3, <2>1, StartedAs DEF HostInv
<1>4. CASE \/ Acquire \/ Verify \/ LaunchInstaller \/ Replace \/ HelperAnswers \/ Select
           \/ Healthy \/ UndoReplace \/ Unselect \/ Finish \/ UserRequest
           \/ CheckAppAnswered \/ CheckCoreAnswered \/ Fetched \/ AppStored \/ CoreFetched
           \/ CoreCached \/ DownloadEnds \/ CacheDamaged \/ Launch \/ HelperDies
  <2>1. CASE UserRequest
    BY <1>2, <2>1 DEF UserRequest, CheckApp, CheckCore, DownloadApp, DownloadCore, Cancel,
       InstallApp, SwitchCore, Begin, machine
  <2>2. CASE \/ CheckAppAnswered \/ CheckCoreAnswered \/ Fetched \/ AppStored \/ CoreFetched
             \/ CoreCached \/ DownloadEnds
    BY <1>2, <2>2, LoadSpares
  <2>3. CASE \/ Acquire \/ Verify \/ LaunchInstaller \/ Replace \/ HelperAnswers \/ Select
             \/ Healthy \/ UndoReplace \/ Unselect \/ Finish
    BY <1>2, <2>3 DEF Acquire, Verify, LaunchInstaller, Replace, HelperAnswers, Select,
       Healthy, UndoReplace, Unselect, Finish, machine
  <2>4. CASE CacheDamaged \/ Launch \/ HelperDies
    BY <1>2, <2>4 DEF CacheDamaged, Launch, HelperDies, machine
  <2>5. QED
    BY <1>4, <2>1, <2>2, <2>3, <2>4
<1>5. CASE Stop \/ UndoStop \/ AppDies
  BY <1>1, <1>2, <1>5 DEF Stop, UndoStop, AppDies, StopCore, StopFails
<1>6. CASE Resume \/ Activate \/ UndoResume
  <2>1. job \in LockedJobs
    BY <1>6, LockedStep DEF Inv, SessionInv, Resume, Activate, UndoResume, LockedSteps
  <2>2. CASE Resumed
    BY <1>2, <1>3, <2>1, <2>2, SeenHost DEF Resumed
  <2>3. CASE ResumeFails
    BY <1>1, <2>1, <2>3, SeenHost, FailedAs DEF ResumeFails
  <2>4. QED
    BY <1>2, <1>6, <2>2, <2>3 DEF Resume, Activate, UndoResume
<1>7. CASE HelperStep
  <2>1. CASE HelperPrepares \/ HelperSaves \/ HelperLeaves
    BY <1>2, <2>1 DEF HelperPrepares, HelperSaves, HelperLeaves, machine
  <2>2. CASE HelperHalts
    BY <1>1, <1>2, <2>2 DEF HelperHalts, HostInv
  <2>3. CASE HelperSwaps \/ HelperUnswaps \/ HelperRestores
    <3>1. UNCHANGED <<core, service>> /\ (UNCHANGED managed \/ ~InUse)
      BY <2>3 DEF HelperSwaps, HelperUnswaps, HelperRestores
    <3>2. QED
      BY <3>1 DEF HostInv, InUse
  <2>4. CASE HelperRestarts \/ HelperTriesAgain
    <3>1. UNCHANGED core /\ (UNCHANGED managed \/ ~InUse) /\ service' \in {service, "running"}
      BY <2>4 DEF HelperRestarts, HelperTriesAgain
    <3>2. QED
      BY <3>1 DEF HostInv, InUse
  <2>5. QED
    BY <1>7, <2>1, <2>2, <2>3, <2>4 DEF HelperStep
<1>8. CASE OtherCommand
  <2>1. CASE \E by \in {"sidecar", "service"} : StartCore(by)
    BY <1>3, <2>1
  <2>2. CASE StopCore
    BY <1>1, <2>2 DEF StopCore
  <2>3. CASE core' = IF core.by = "service" THEN NoCore ELSE core
    BY <1>1, <2>3 DEF HostInv
  <2>4. QED
    BY <1>8, <2>1, <2>2, <2>3 DEF OtherCommand
<1>9. QED
  BY <1>4, <1>5, <1>6, <1>7, <1>8 DEF Next, JobStep, Environment

\* An operation is at work only in an application that runs.
LEMMA AliveStep == ASSUME job # NoJob => alive, Next, job' # NoJob PROVE alive'
<1>1. CASE UserRequest
  BY <1>1 DEF UserRequest, CheckApp, CheckCore, DownloadApp, DownloadCore, Cancel, InstallApp,
     SwitchCore, Begin
<1>2. CASE JobStep
  <2>1. CASE LaunchInstaller
    BY <2>1 DEF LaunchInstaller, At
  <2>2. CASE \/ CheckAppAnswered \/ CheckCoreAnswered \/ Fetched \/ AppStored \/ CoreFetched
             \/ CoreCached \/ DownloadEnds
    BY <2>2, LoadSpares
  <2>3. CASE \/ Acquire \/ Verify \/ Stop \/ Resume \/ Finish \/ Replace \/ HelperAnswers
             \/ Select \/ Activate \/ Healthy \/ UndoStop \/ UndoReplace \/ Unselect
             \/ UndoResume
    <3>1. alive /\ UNCHANGED alive
      BY <2>3 DEF Acquire, Verify, Stop, Resume, Finish, Holding, Replace, HelperAnswers,
         Select, Activate, Healthy, UndoStop, UndoReplace,
         Unselect, UndoResume, At
    <3>2. QED
      BY <3>1
  <2>4. QED
    BY <1>2, <2>1, <2>2, <2>3 DEF JobStep
<1>3. CASE HelperStep \/ Environment
  BY <1>3 DEF HelperStep, HelperPrepares, HelperHalts, HelperSaves, HelperSwaps,
     HelperUnswaps, HelperRestores, HelperRestarts, HelperTriesAgain, HelperLeaves,
     Environment, OtherCommand, CacheDamaged, AppDies, Launch, HelperDies
<1>4. QED
  BY <1>1, <1>2, <1>3 DEF Next

\* The lock is taken: what is there is what the operation has to give back.
LEMMA AcquireKeepsChange ==
    ASSUME Inv, HostInv, Acquire, job'.alone PROVE FoundInOrder' /\ StepFollows'
<1>1. PICK running \in BOOLEAN :
        job' = [op |-> job.op, step |-> "verify", to |-> job.to,
                selected |-> selected, managed |-> managed, core |-> core,
                running |-> running, installed |-> service # "absent",
                alone |-> Idle(helper), clean |-> TRUE, outcome |-> "none"]
  BY DEF Acquire
<1>2. /\ job'.step = "verify" /\ job'.selected = selected /\ job'.managed = managed
      /\ job'.core = core /\ (job'.installed <=> service # "absent") /\ job'.clean
      /\ Idle(helper)
  BY <1>1
<1>3. UNCHANGED <<selected, managed, core, helper>>
  BY DEF Acquire, machine
<1>4. FoundInOrder'
  BY <1>2, <1>3 DEF FoundInOrder, HostInv, Inv, CoreInv, CoreRunsSelected, NoCore
<1>5. StepFollows'
  BY <1>2, <1>3 DEF StepFollows, AsBefore, Idle, NoJob
<1>6. QED
  BY <1>4, <1>5

\* The steps under the lock, before a switch touches the service's copy.
LEMMA LockKeepsChange ==
    ASSUME Inv, ChangeInv, job.alone, Verify \/ Stop \/ LaunchInstaller \/ Resume,
           job' # NoJob
    PROVE  FoundInOrder' /\ StepFollows'
<1>1. JobOK
  BY DEF Inv, SessionInv
<1>2. job \in LockedJobs
  BY <1>1, LockedStep DEF Verify, Stop, LaunchInstaller, Resume, Holding, LockedSteps
<1>3. FoundInOrder /\ StepFollows
  <2>1. Claimed
    BY DEF Claimed, Locked, Verify, Stop, LaunchInstaller, Resume, Holding, At
  <2>2. QED
    BY <2>1 DEF ChangeInv
<1>4. SameChange => FoundInOrder'
  BY <1>3 DEF SameChange, FoundInOrder
<1>5. CASE Verify
  <2>1. job.step = "verify" /\ UNCHANGED <<selected, managed, core, helper>>
    BY <1>5 DEF Verify, Holding, At, machine
  <2>2. AsBefore /\ job.clean /\ core = job.core /\ helper = NoJob
    BY <1>3, <2>1 DEF StepFollows
  <2>3. CASE GoTo("stop")
    <3>1. SameChange /\ job'.step = "stop" /\ job'.clean = job.clean
      BY <1>2, <2>3, LockedMoves
    <3>2. QED
      BY <1>4, <2>1, <2>2, <3>1 DEF StepFollows, AsBefore, SameChange
  <2>4. CASE EndAs("restored")
    <3>1. SameChange /\ job'.step = "end" /\ job'.outcome = "restored"
      BY <1>2, <2>4, LockedStops
    <3>2. QED
      BY <1>4, <2>1, <2>2, <3>1 DEF StepFollows, IsComplete, AsBefore, SameChange
  <2>5. QED
    BY <1>5, <2>3, <2>4 DEF Verify
<1>6. CASE Stop
  <2>1. job.step = "stop" /\ UNCHANGED <<selected, managed, helper>> /\ core' \in {NoCore, core}
    BY <1>6 DEF Stop, Holding, At, StopCore, StopFails
  <2>2. AsBefore /\ job.clean /\ core = job.core /\ helper = NoJob
    BY <1>3, <2>1 DEF StepFollows
  <2>3. CASE core' = NoCore /\ job.op = "install" /\ GoTo("launch")
    <3>1. SameChange /\ job'.step = "launch" /\ job'.clean = job.clean
      BY <1>2, <2>3, LockedMoves
    <3>2. QED
      BY <1>4, <2>1, <2>2, <2>3, <3>1 DEF StepFollows, AsBefore, SameChange
  <2>4. CASE core' = NoCore /\ job.installed /\ GoTo("replace")
    <3>1. SameChange /\ job'.step = "replace" /\ job'.clean = job.clean
      BY <1>2, <2>4, LockedMoves
    <3>2. QED
      BY <1>4, <2>1, <2>2, <2>4, <3>1 DEF StepFollows, AsBefore, SameChange
  <2>5. CASE core' = NoCore /\ ~job.installed /\ GoTo("select")
    <3>1. SameChange /\ job'.step = "select" /\ job'.clean = job.clean
      BY <1>2, <2>5, LockedMoves
    <3>2. QED
      BY <1>4, <2>1, <2>2, <2>5, <3>1
      DEF StepFollows, AsBefore, Replaced, CanUndo, SameChange
  <2>6. CASE GoTo("resume")
    <3>1. SameChange /\ job'.step = "resume" /\ job'.clean = job.clean
      BY <1>2, <2>6, LockedMoves
    <3>2. QED
      BY <1>4, <2>1, <2>2, <2>6, <3>1 DEF StepFollows, AsBefore, SameChange
  <2>7. QED
    BY <1>6, <2>3, <2>4, <2>5, <2>6 DEF Stop, StopCore, AfterStop
<1>7. CASE LaunchInstaller
  <2>1. job.step = "launch" /\ UNCHANGED <<selected, managed, core, helper>> /\ GoTo("resume")
    BY <1>7 DEF LaunchInstaller, At, machine
  <2>2. AsBefore /\ job.clean /\ core = NoCore /\ helper = NoJob
    BY <1>3, <2>1 DEF StepFollows
  <2>3. SameChange /\ job'.step = "resume" /\ job'.clean = job.clean
    BY <1>2, <2>1, LockedMoves
  <2>4. QED
    BY <1>4, <2>1, <2>2, <2>3 DEF StepFollows, AsBefore, SameChange
<1>8. CASE Resume
  <2>1. job.step = "resume" /\ UNCHANGED <<selected, helper>>
    BY <1>8 DEF Resume, Holding, At
  <2>2. /\ selected = job.selected /\ core \in {job.core, NoCore} /\ helper = NoJob
        /\ job.clean => managed = job.managed
    BY <1>3, <2>1 DEF StepFollows
  <2>3. CASE Resumed /\ job.clean /\ EndAs("restored")
    <3>1. SameChange /\ job'.step = "end" /\ job'.outcome = "restored"
      BY <1>2, <2>3, LockedStops
    <3>2. AsBefore
      BY <2>2, <2>3 DEF AsBefore
    <3>3. managed' = job.managed /\ core' = IF job.running THEN job.core ELSE core
      BY <1>2, <1>3, <2>3, <3>2, OldCoreBack
    <3>4. QED
      BY <1>4, <2>1, <2>2, <3>1, <3>3 DEF StepFollows, IsComplete, AsBefore, SameChange
  <2>4. CASE EndAs("failed")
    <3>1. SameChange /\ job'.step = "end" /\ job'.outcome = "failed"
      BY <1>2, <2>4, LockedStops
    <3>2. QED
      BY <1>4, <2>1, <2>2, <3>1 DEF StepFollows, IsComplete
  <2>5. QED
    BY <1>8, <2>3, <2>4 DEF Resume
<1>9. QED
  BY <1>5, <1>6, <1>7, <1>8

\* The steps of a switch and of its rollback in the application.
LEMMA SwitchKeepsChange ==
    ASSUME Inv, ChangeInv, job.alone,
           \/ Replace \/ HelperAnswers \/ Select \/ Activate \/ Healthy
           \/ UndoStop \/ UndoReplace \/ Unselect \/ UndoResume
    PROVE  FoundInOrder' /\ StepFollows'
<1>1. JobOK
  BY DEF Inv, SessionInv
<1>2. job \in LockedJobs /\ job.op = "switch"
  BY <1>1, LockedStep DEF Replace, HelperAnswers, Select, Activate, Healthy, UndoStop,
     UndoReplace, Unselect, UndoResume, At, LockedSteps
<1>3. FoundInOrder /\ StepFollows
  <2>1. Claimed
    BY <1>2 DEF Claimed, Locked, LockedJobs, LockedSteps
  <2>2. QED
    BY <2>1 DEF ChangeInv
<1>4. SameChange => FoundInOrder'
  BY <1>3 DEF SameChange, FoundInOrder
<1>5. job.step \in {"replace", "select", "activate", "undo_replace", "unselect", "undo_resume"}
        => core = NoCore
  BY <1>2 DEF Inv, CoreInv, NoCoreWhileSelecting
<1>6. ASSUME UNCHANGED <<selected, helper>>, helper = NoJob, EndAs("failed")
      PROVE  FoundInOrder' /\ StepFollows'
  <2>1. SameChange /\ job'.step = "end" /\ job'.outcome = "failed"
    BY <1>2, <1>6, LockedStops
  <2>2. QED
    BY <1>4, <1>6, <2>1 DEF StepFollows, IsComplete
<1>7. ASSUME helper' = NoJob, CanUndo', GoTo("undo_stop")
      PROVE  FoundInOrder' /\ StepFollows'
  <2>1. SameChange /\ job'.step = "undo_stop"
    BY <1>2, <1>7, LockedMoves
  <2>2. QED
    BY <1>4, <1>7, <2>1 DEF StepFollows
<1>8. ASSUME NEW op \in {"update", "rollback"}, GoTo("wait"), job.installed,
             helper' = [op |-> op, step |-> IF op = "update" THEN "prepare" ELSE "halt",
                        id |-> job.to, was |-> FALSE, ok |-> TRUE, clean |-> TRUE],
             op = "update" => AsBefore, op = "rollback" => backup = job.managed,
             UNCHANGED <<selected, managed, backup>>
      PROVE  FoundInOrder' /\ StepFollows'
  <2>1. SameChange /\ job'.step = "wait"
    BY <1>2, <1>8, LockedMoves
  <2>2. /\ helper' # NoJob /\ helper'.op = op /\ helper'.id = job.to /\ helper'.ok
        /\ helper'.clean /\ helper'.step = IF op = "update" THEN "prepare" ELSE "halt"
    BY <1>8 DEF NoJob
  <2>3. HelperFollows'
    BY <1>2, <1>8, <2>1, <2>2
    DEF HelperFollows, UpdateFollows, RollbackFollows, HelperSteps, SameChange, AsBefore
  <2>4. QED
    BY <1>4, <2>1, <2>3 DEF StepFollows
<1>9. CASE Replace
  <2>1. job.step = "replace" /\ UNCHANGED <<selected, managed, backup, core>>
    BY <1>9 DEF Replace, At, machine
  <2>2. AsBefore /\ job.clean /\ job.installed /\ helper = NoJob
    BY <1>3, <2>1 DEF StepFollows
  <2>3. CASE UNCHANGED helper /\ GoTo("resume")
    <3>1. SameChange /\ job'.step = "resume"
      BY <1>2, <2>3, LockedMoves
    <3>2. QED
      BY <1>4, <1>5, <2>1, <2>2, <2>3, <3>1 DEF StepFollows, AsBefore, SameChange
  <2>4. QED
    BY <1>8, <1>9, <2>1, <2>2, <2>3 DEF Replace, RunHelper
<1>10. CASE UndoReplace
  <2>1. job.step = "undo_replace" /\ UNCHANGED <<selected, managed, backup, core>>
    BY <1>10 DEF UndoReplace, At, machine
  <2>2. backup = job.managed /\ job.installed /\ helper = NoJob
    BY <1>3, <2>1 DEF StepFollows, CanUndo
  <2>3. CASE UNCHANGED helper /\ EndAs("failed")
    BY <1>6, <2>1, <2>2, <2>3
  <2>4. QED
    BY <1>8, <1>10, <2>1, <2>2, <2>3 DEF UndoReplace, RunHelper
<1>11. CASE HelperAnswers
  <2>1. /\ job.step = "wait" /\ helper.step = "done" /\ helper' = NoJob
        /\ UNCHANGED <<selected, managed, backup, core>>
    BY <1>11 DEF HelperAnswers, At, machine
  <2>2. HelperFollows /\ core = NoCore
    BY <1>2, <1>3, <2>1 DEF StepFollows, Inv, CoreInv, NoCoreWhileSelecting
  <2>3. CASE helper.op = "update"
    <3>1. job' = [job EXCEPT !.step = IF helper.ok THEN "select" ELSE "resume",
                             !.clean = helper.clean]
      BY <1>11, <2>3 DEF HelperAnswers
    <3>2. /\ SameChange /\ job'.step = IF helper.ok THEN "select" ELSE "resume"
          /\ job'.clean = helper.clean
      BY <1>2, <3>1 DEF LockedJobs, SameChange
    <3>3. UpdateFollows
      BY <2>2, <2>3 DEF HelperFollows
    <3>4. CASE helper.ok
      <4>1. selected = job.selected /\ Replaced
        BY <2>1, <3>3, <3>4 DEF UpdateFollows
      <4>2. QED
        BY <1>4, <2>1, <3>2, <3>4, <4>1 DEF StepFollows, Replaced, CanUndo, SameChange
    <3>5. CASE ~helper.ok
      <4>1. selected = job.selected /\ (helper.clean => managed = job.managed)
        BY <2>1, <3>3, <3>5 DEF UpdateFollows
      <4>2. QED
        BY <1>4, <2>1, <2>2, <3>2, <3>5, <4>1 DEF StepFollows, SameChange
    <3>6. QED
      BY <3>4, <3>5
  <2>4. CASE helper.op = "rollback"
    <3>1. helper.ok => managed = job.managed
      BY <2>1, <2>2, <2>4 DEF HelperFollows, RollbackFollows
    <3>2. CASE helper.ok /\ GoTo("unselect")
      <4>1. SameChange /\ job'.step = "unselect"
        BY <1>2, <3>2, LockedMoves
      <4>2. QED
        BY <1>4, <2>1, <3>1, <3>2, <4>1 DEF StepFollows, SameChange
    <3>3. CASE EndAs("failed")
      <4>1. SameChange /\ job'.step = "end" /\ job'.outcome = "failed"
        BY <1>2, <3>3, LockedStops
      <4>2. QED
        BY <1>4, <2>1, <4>1 DEF StepFollows, IsComplete
    <3>4. QED
      BY <1>11, <2>4, <3>2, <3>3 DEF HelperAnswers
  <2>5. helper.op \in {"update", "rollback"}
    BY <2>2 DEF HelperFollows, Inv, MachineInv, HelperOK
  <2>6. QED
    BY <2>3, <2>4, <2>5
<1>12. CASE Select
  <2>1. job.step = "select" /\ UNCHANGED <<managed, backup, core, helper>>
    BY <1>12 DEF Select, At
  <2>2. selected = job.selected /\ Replaced /\ helper = NoJob
    BY <1>3, <2>1 DEF StepFollows
  <2>3. CASE selected' = job.to /\ GoTo("activate")
    <3>1. SameChange /\ job'.step = "activate"
      BY <1>2, <2>3, LockedMoves
    <3>2. QED
      BY <1>4, <2>1, <2>2, <2>3, <3>1 DEF StepFollows, Replaced, CanUndo, SameChange
  <2>4. CASE GoTo("undo_stop")
    <3>1. CanUndo'
      BY <1>2, <2>1, <2>2, <2>4, LockedMoves DEF CanUndo, Replaced, SameChange
    <3>2. QED
      BY <1>7, <2>1, <2>2, <2>4, <3>1
  <2>5. QED
    BY <1>12, <2>3, <2>4 DEF Select
<1>13. CASE Activate
  <2>1. job.step = "activate" /\ UNCHANGED <<selected, backup, helper>>
    BY <1>13 DEF Activate, At
  <2>2. selected = job.to /\ Replaced /\ helper = NoJob /\ core = NoCore
    BY <1>3, <1>5, <2>1 DEF StepFollows
  <2>3. CASE Resumed /\ GoTo("health")
    <3>1. SameChange /\ job'.step = "health"
      BY <1>2, <2>3, LockedMoves
    <3>2. core' = NewCore /\ managed' = managed
      BY <1>2, <1>3, <2>1, <2>2, <2>3, NewCoreUp
    <3>3. QED
      BY <1>4, <2>1, <2>2, <3>1, <3>2 DEF StepFollows, Replaced, CanUndo, NewCore, SameChange
  <2>4. CASE GoTo("undo_stop") /\ (ResumeFails \/ UNCHANGED managed)
    <3>1. SameChange
      BY <1>2, <2>4, LockedMoves
    <3>2. CanUndo'
      <4>1. CASE ResumeFails
        BY <1>2, <1>3, <2>1, <2>2, <3>1, <4>1, StillUndone DEF Replaced
      <4>2. CASE UNCHANGED managed
        BY <2>1, <2>2, <3>1, <4>2 DEF CanUndo, Replaced, SameChange
      <4>3. QED
        BY <2>4, <4>1, <4>2
    <3>3. QED
      BY <1>7, <2>1, <2>2, <2>4, <3>2
  <2>5. QED
    BY <1>13, <2>3, <2>4 DEF Activate
<1>14. CASE Healthy
  <2>1. job.step = "health" /\ UNCHANGED <<selected, managed, backup, core, helper>>
    BY <1>14 DEF Healthy, At, machine
  <2>2. selected = job.to /\ Replaced /\ core = NewCore /\ helper = NoJob
    BY <1>3, <2>1 DEF StepFollows
  <2>3. CASE EndAs("switched")
    <3>1. SameChange /\ job'.step = "end" /\ job'.outcome = "switched"
      BY <1>2, <2>3, LockedStops
    <3>2. QED
      BY <1>4, <2>1, <2>2, <3>1 DEF StepFollows, IsComplete, Replaced, NewCore, SameChange
  <2>4. CASE GoTo("undo_stop")
    <3>1. CanUndo'
      BY <1>2, <2>1, <2>2, <2>4, LockedMoves DEF CanUndo, Replaced, SameChange
    <3>2. QED
      BY <1>7, <2>1, <2>2, <2>4, <3>1
  <2>5. QED
    BY <1>14, <2>3, <2>4 DEF Healthy
<1>15. CASE UndoStop
  <2>1. job.step = "undo_stop" /\ UNCHANGED <<selected, managed, backup, helper>>
    BY <1>15 DEF UndoStop, At
  <2>2. CanUndo /\ helper = NoJob
    BY <1>3, <2>1 DEF StepFollows
  <2>3. CASE EndAs("failed")
    BY <1>6, <2>1, <2>2, <2>3
  <2>4. CASE job.installed /\ GoTo("undo_replace")
    <3>1. SameChange /\ job'.step = "undo_replace"
      BY <1>2, <2>4, LockedMoves
    <3>2. QED
      BY <1>4, <2>1, <2>2, <2>4, <3>1 DEF StepFollows, CanUndo, SameChange, AsBefore
  <2>5. CASE ~job.installed /\ GoTo("unselect")
    <3>1. SameChange /\ job'.step = "unselect"
      BY <1>2, <2>5, LockedMoves
    <3>2. QED
      BY <1>4, <2>1, <2>2, <2>5, <3>1 DEF StepFollows, CanUndo, SameChange
  <2>6. QED
    BY <1>15, <2>3, <2>4, <2>5 DEF UndoStop, AfterStop
<1>16. CASE Unselect
  <2>1. job.step = "unselect" /\ UNCHANGED <<managed, backup, core, helper>>
    BY <1>16 DEF Unselect, At
  <2>2. managed = job.managed /\ helper = NoJob
    BY <1>3, <2>1 DEF StepFollows
  <2>3. CASE selected' = job.selected /\ GoTo("undo_resume")
    <3>1. SameChange /\ job'.step = "undo_resume"
      BY <1>2, <2>3, LockedMoves
    <3>2. QED
      BY <1>4, <2>1, <2>2, <2>3, <3>1 DEF StepFollows, AsBefore, SameChange
  <2>4. CASE EndAs("failed") /\ UNCHANGED selected
    BY <1>6, <2>1, <2>2, <2>4
  <2>5. QED
    BY <1>16, <2>3, <2>4 DEF Unselect
<1>17. CASE UndoResume
  <2>1. job.step = "undo_resume" /\ UNCHANGED <<selected, helper>>
    BY <1>17 DEF UndoResume, At
  <2>2. AsBefore /\ helper = NoJob /\ core = NoCore
    BY <1>3, <1>5, <2>1 DEF StepFollows
  <2>3. CASE Resumed /\ EndAs("restored")
    <3>1. SameChange /\ job'.step = "end" /\ job'.outcome = "restored"
      BY <1>2, <2>3, LockedStops
    <3>2. managed' = job.managed /\ core' = IF job.running THEN job.core ELSE core
      BY <1>2, <1>3, <2>2, <2>3, OldCoreBack
    <3>3. QED
      BY <1>4, <2>1, <2>2, <3>1, <3>2 DEF StepFollows, IsComplete, AsBefore, SameChange
  <2>4. CASE EndAs("failed")
    BY <1>6, <2>1, <2>2, <2>4
  <2>5. QED
    BY <1>17, <2>3, <2>4 DEF UndoResume
<1>18. QED
  BY <1>9, <1>10, <1>11, <1>12, <1>13, <1>14, <1>15, <1>16, <1>17

\* The same helper goes on at another step.
HelperBecomes(step, ok, clean) ==
    /\ helper' # NoJob /\ helper'.id = helper.id /\ helper'.op = helper.op
    /\ helper'.step = step /\ (helper'.ok <=> ok) /\ (helper'.clean <=> clean)

LEMMA HelperGoesOn ==
    ASSUME helper \in [op : {"update", "rollback"}, step : HelperSteps, id : Ids,
                       was : BOOLEAN, ok : BOOLEAN, clean : BOOLEAN],
           NEW s \in HelperSteps
    PROVE  /\ HelperGoes(s) => HelperBecomes(s, helper.ok, helper.clean)
           /\ HelperFails(s) => HelperBecomes(s, FALSE, helper.clean)
           /\ helper' = [helper EXCEPT !.step = s, !.clean = FALSE]
                => HelperBecomes(s, helper.ok, FALSE)
           /\ helper' = [helper EXCEPT !.step = s, !.ok = FALSE, !.clean = FALSE]
                => HelperBecomes(s, FALSE, FALSE)
           /\ helper' = [helper EXCEPT !.was = service = "running", !.step = s]
                => HelperBecomes(s, helper.ok, helper.clean)
<1>1. HelperGoes(s) => HelperBecomes(s, helper.ok, helper.clean)
  BY DEF HelperGoes, HelperBecomes, NoJob
<1>2. HelperFails(s) => HelperBecomes(s, FALSE, helper.clean)
  BY DEF HelperFails, HelperBecomes, NoJob
<1>3. helper' = [helper EXCEPT !.step = s, !.clean = FALSE]
        => HelperBecomes(s, helper.ok, FALSE)
  BY DEF HelperBecomes, NoJob
<1>4. helper' = [helper EXCEPT !.step = s, !.ok = FALSE, !.clean = FALSE]
        => HelperBecomes(s, FALSE, FALSE)
  BY DEF HelperBecomes, NoJob
<1>5. helper' = [helper EXCEPT !.was = service = "running", !.step = s]
        => HelperBecomes(s, helper.ok, helper.clean)
  BY DEF HelperBecomes, NoJob
<1>6. QED
  BY <1>1, <1>2, <1>3, <1>4, <1>5

\* The helper works for the operation that waits for it.
LEMMA HelperKeepsChange ==
    ASSUME Inv, ChangeInv, Claimed, HelperStep \/ HelperDies
    PROVE  FoundInOrder' /\ StepFollows'
<1>1. FoundInOrder /\ StepFollows /\ alive
  BY DEF ChangeInv, Claimed, Locked, NoJob
<1>2. UNCHANGED <<job, selected, cache>>
  BY DEF HelperStep, HelperPrepares, HelperHalts, HelperSaves, HelperSwaps, HelperUnswaps,
     HelperRestores, HelperRestarts, HelperTriesAgain, HelperLeaves, HelperDies, machine
<1>3. helper # NoJob
  BY DEF HelperStep, HelperPrepares, HelperHalts, HelperSaves, HelperSwaps, HelperUnswaps,
     HelperRestores, HelperRestarts, HelperTriesAgain, HelperLeaves, HelperDies, HelperAt,
     Idle, NoJob
<1>4. job.step = "wait" /\ HelperFollows
  BY <1>1, <1>3 DEF StepFollows
<1>5. core = NoCore
  BY <1>4 DEF HelperFollows, Inv, CoreInv, NoCoreWhileSelecting
<1>6. helper \in [op : {"update", "rollback"}, step : HelperSteps, id : Ids,
                  was : BOOLEAN, ok : BOOLEAN, clean : BOOLEAN]
  BY <1>3 DEF Inv, MachineInv, HelperOK
<1>7. ~HelperLeaves
  BY <1>1, <1>4 DEF HelperLeaves, At, HelperFollows
<1>8. ~InUse
  BY <1>5 DEF InUse, NoCore
<1>9. FoundInOrder'
  BY <1>1, <1>2 DEF FoundInOrder
<1>10. ASSUME helper' # NoJob, helper'.id = helper.id, helper'.op = helper.op,
              helper.op = "update" => UpdateFollows', helper.op = "rollback" => RollbackFollows'
       PROVE  StepFollows'
  <2>1. HelperFollows'
    BY <1>2, <1>4, <1>10 DEF HelperFollows
  <2>2. QED
    BY <1>2, <1>4, <2>1 DEF StepFollows
<1>12. CASE helper.op = "update"
  <2>1. UpdateFollows
    BY <1>4, <1>12 DEF HelperFollows
  <2>2. CASE HelperPrepares
    <3>1. /\ helper.step = "prepare" /\ UNCHANGED <<managed, backup>>
          /\ \/ HelperBecomes("halt", helper.ok, helper.clean)
             \/ HelperBecomes("done", FALSE, helper.clean)
      BY <1>6, <2>2, HelperGoesOn DEF HelperSteps, HelperPrepares, HelperAt, machine
    <3>2. UpdateFollows'
      BY <1>2, <2>1, <3>1 DEF UpdateFollows, HelperSteps, HelperBecomes
    <3>3. QED
      BY <1>9, <1>10, <1>12, <3>1, <3>2 DEF HelperBecomes
  <2>3. CASE HelperHalts
    <3>1. /\ helper.step = "halt" /\ UNCHANGED <<managed, backup>>
          /\ \/ HelperBecomes("save", helper.ok, helper.clean)
             \/ HelperBecomes("done", FALSE, helper.clean)
      BY <1>6, <1>12, <2>3, HelperGoesOn DEF HelperSteps, HelperHalts, HelperAt
    <3>2. UpdateFollows'
      BY <1>2, <2>1, <3>1 DEF UpdateFollows, HelperSteps, HelperBecomes
    <3>3. QED
      BY <1>9, <1>10, <1>12, <3>1, <3>2 DEF HelperBecomes
  <2>4. CASE HelperSaves
    <3>1. /\ helper.step = "save" /\ UNCHANGED managed
          /\ \/ backup' = managed /\ HelperBecomes("swap", helper.ok, helper.clean)
             \/ HelperBecomes("restart", FALSE, helper.clean)
      BY <1>6, <2>4, HelperGoesOn DEF HelperSteps, HelperSaves, HelperAt
    <3>2. UpdateFollows'
      BY <1>2, <2>1, <3>1 DEF UpdateFollows, HelperSteps, HelperBecomes
    <3>3. QED
      BY <1>9, <1>10, <1>12, <3>1, <3>2 DEF HelperBecomes
  <2>5. CASE HelperSwaps
    <3>1. /\ helper.step = "swap" /\ UNCHANGED backup
          /\ \/ managed' = helper.id /\ HelperBecomes("restart", helper.ok, helper.clean)
             \/ HelperBecomes("unswap", FALSE, helper.clean)
      BY <1>6, <2>5, HelperGoesOn DEF HelperSteps, HelperSwaps, HelperAt
    <3>2. helper.id = job.to /\ job.installed
      BY <1>4 DEF HelperFollows
    <3>3. UpdateFollows'
      BY <1>2, <2>1, <3>1, <3>2 DEF UpdateFollows, HelperSteps, Replaced, CanUndo, HelperBecomes
    <3>4. QED
      BY <1>9, <1>10, <1>12, <3>1, <3>3 DEF HelperBecomes
  <2>6. CASE HelperUnswaps
    <3>1. /\ helper.step = "unswap"
          /\ \/ managed' = backup /\ HelperBecomes("restart", helper.ok, helper.clean)
             \/ HelperBecomes("restart", helper.ok, FALSE)
      BY <1>6, <2>6, HelperGoesOn DEF HelperSteps, HelperUnswaps, HelperAt, PutBack
    <3>2. UpdateFollows'
      BY <1>2, <2>1, <3>1 DEF UpdateFollows, HelperSteps, HelperBecomes
    <3>3. QED
      BY <1>9, <1>10, <1>12, <3>1, <3>2 DEF HelperBecomes
  <2>7. CASE HelperRestarts
    <3>1. /\ helper.step = "restart" /\ UNCHANGED <<managed, backup>>
          /\ \/ HelperBecomes("done", helper.ok, helper.clean)
             \/ HelperBecomes("again", FALSE, helper.clean) /\ helper.ok
             \/ HelperBecomes("done", FALSE, helper.clean) /\ ~helper.ok
      BY <1>6, <1>12, <2>7, HelperGoesOn DEF HelperSteps, HelperRestarts, HelperAt
    <3>2. job.installed
      BY <1>4 DEF HelperFollows
    <3>3. UpdateFollows'
      BY <1>2, <2>1, <3>1, <3>2 DEF UpdateFollows, HelperSteps, Replaced, CanUndo, HelperBecomes
    <3>4. QED
      BY <1>9, <1>10, <1>12, <3>1, <3>3 DEF HelperBecomes
  <2>8. CASE HelperTriesAgain
    <3>1. /\ helper.step = "again"
          /\ \/ managed' = backup /\ HelperBecomes("done", helper.ok, helper.clean)
             \/ HelperBecomes("done", helper.ok, FALSE)
      BY <1>6, <2>8, HelperGoesOn DEF HelperSteps, HelperTriesAgain, HelperAt, PutBack
    <3>2. UpdateFollows'
      BY <1>2, <2>1, <3>1 DEF UpdateFollows, HelperSteps, HelperBecomes
    <3>3. QED
      BY <1>9, <1>10, <1>12, <3>1, <3>2 DEF HelperBecomes
  <2>9. CASE HelperDies
    <3>1. HelperBecomes("done", FALSE, FALSE)
      BY <1>6, <2>9, HelperGoesOn DEF HelperSteps, HelperDies
    <3>2. UpdateFollows'
      BY <1>2, <2>1, <3>1 DEF UpdateFollows, HelperSteps, HelperBecomes
    <3>3. QED
      BY <1>9, <1>10, <1>12, <3>1, <3>2 DEF HelperBecomes
  <2>10. ~HelperRestores
    BY <2>1 DEF UpdateFollows, HelperRestores, HelperAt
  <2>11. QED
    BY <1>7, <2>2, <2>3, <2>4, <2>5, <2>6, <2>7, <2>8, <2>9, <2>10 DEF HelperStep
<1>13. CASE helper.op = "rollback"
  <2>1. RollbackFollows
    BY <1>4, <1>13 DEF HelperFollows
  <2>2. CASE HelperHalts
    <3>1. /\ helper.step = "halt" /\ UNCHANGED <<managed, backup>>
          /\ \/ HelperBecomes("restore", helper.ok, helper.clean)
             \/ HelperBecomes("done", FALSE, helper.clean)
      BY <1>6, <1>13, <2>2, HelperGoesOn DEF HelperSteps, HelperHalts, HelperAt
    <3>2. RollbackFollows'
      BY <1>2, <2>1, <3>1 DEF RollbackFollows, HelperBecomes
    <3>3. QED
      BY <1>9, <1>10, <1>13, <3>1, <3>2 DEF HelperBecomes
  <2>3. CASE HelperRestores
    <3>1. /\ helper.step = "restore"
          /\ \/ managed' = backup /\ HelperBecomes("restart", helper.ok, helper.clean)
             \/ HelperBecomes("restart", FALSE, helper.clean)
      BY <1>6, <2>3, HelperGoesOn DEF HelperSteps, HelperRestores, HelperAt, PutBack
    <3>2. RollbackFollows'
      BY <1>2, <2>1, <3>1 DEF RollbackFollows, HelperBecomes
    <3>3. QED
      BY <1>9, <1>10, <1>13, <3>1, <3>2 DEF HelperBecomes
  <2>4. CASE HelperRestarts
    <3>1. /\ helper.step = "restart" /\ UNCHANGED managed
          /\ \/ HelperBecomes("done", helper.ok, helper.clean)
             \/ HelperBecomes("done", FALSE, helper.clean)
      BY <1>6, <1>13, <2>4, HelperGoesOn DEF HelperSteps, HelperRestarts, HelperAt
    <3>2. RollbackFollows'
      BY <1>2, <2>1, <3>1 DEF RollbackFollows, HelperBecomes
    <3>3. QED
      BY <1>9, <1>10, <1>13, <3>1, <3>2 DEF HelperBecomes
  <2>5. CASE HelperDies
    <3>1. HelperBecomes("done", FALSE, FALSE)
      BY <1>6, <2>5, HelperGoesOn DEF HelperSteps, HelperDies
    <3>2. RollbackFollows'
      BY <1>2, <2>1, <3>1 DEF RollbackFollows, HelperBecomes
    <3>3. QED
      BY <1>9, <1>10, <1>13, <3>1, <3>2 DEF HelperBecomes
  <2>6. ~(HelperPrepares \/ HelperSaves \/ HelperSwaps \/ HelperUnswaps \/ HelperTriesAgain)
    BY <2>1 DEF RollbackFollows, HelperPrepares, HelperSaves, HelperSwaps, HelperUnswaps,
       HelperTriesAgain, HelperAt
  <2>7. QED
    BY <1>7, <2>2, <2>3, <2>4, <2>5, <2>6 DEF HelperStep
<1>14. QED
  BY <1>6, <1>9, <1>12, <1>13

LEMMA ChangeStep == ASSUME Inv, ChangeInv, Next, Claimed' PROVE FoundInOrder' /\ StepFollows'
<1>1. JobOK
  BY DEF Inv, SessionInv
<1>2. CASE UserRequest
  <2>1. CASE Cancel
    <3>1. UNCHANGED <<job, selected, managed, backup, core, helper>>
      BY <2>1 DEF Cancel, machine
    <3>2. Claimed /\ FoundInOrder /\ StepFollows
      BY <3>1 DEF Claimed, Locked, ChangeInv
    <3>3. QED
      BY <3>1, <3>2 DEF FoundInOrder, StepFollows, AsBefore, Replaced, CanUndo, NewCore,
         HelperFollows, UpdateFollows, RollbackFollows, IsComplete
  <2>2. CASE CheckApp \/ CheckCore \/ DownloadApp \/ DownloadCore \/ InstallApp
    BY <2>2 DEF CheckApp, CheckCore, DownloadApp, DownloadCore, InstallApp, Begin, Claimed,
       Locked
  <2>3. ASSUME NEW id \in Ids, SwitchCore(id) PROVE FALSE
    BY <2>3 DEF SwitchCore, Begin, Claimed, Locked
  <2>4. QED
    BY <1>2, <2>1, <2>2, <2>3 DEF UserRequest
<1>3. CASE \/ CheckAppAnswered \/ CheckCoreAnswered \/ AppStored \/ DownloadEnds \/ Finish
  <2>1. job' = NoJob
    BY <1>3, Zenon DEF CheckAppAnswered, CheckCoreAnswered, AppStored, DownloadEnds, Finish, End
  <2>2. QED
    BY <2>1 DEF Claimed, Locked, NoJob
<1>4. CASE Fetched \/ CoreFetched \/ CoreCached
  <2>1. job.op \in {"app", "core"} /\ \E s \in LoadSteps : GoTo(s)
    BY <1>4 DEF Fetched, CoreFetched, CoreCached, Downloading, At, LoadSteps
  <2>2. job'.op = job.op
    BY <1>1, <2>1, LoadGoes
  <2>3. QED
    BY <2>1, <2>2 DEF Claimed, Locked
<1>5. CASE Acquire
  BY <1>5, AcquireKeepsChange DEF ChangeInv, Claimed
<1>6. CASE \/ Verify \/ Stop \/ LaunchInstaller \/ Resume
           \/ Replace \/ HelperAnswers \/ Select \/ Activate \/ Healthy
           \/ UndoStop \/ UndoReplace \/ Unselect \/ UndoResume
  <2>1. job \in LockedJobs
    BY <1>1, <1>6, LockedStep DEF Verify, Stop, LaunchInstaller, Resume, Replace,
       HelperAnswers, Select, Activate, Healthy, UndoStop, UndoReplace, Unselect, UndoResume,
       Holding, LockedSteps
  <2>2. job' # NoJob
    BY DEF Claimed, Locked, NoJob
  <2>3. job.alone
    <3>1. CASE HelperAnswers /\ helper.op = "update"
      BY <2>1, <3>1 DEF HelperAnswers, LockedJobs, Claimed
    <3>2. CASE ~(HelperAnswers /\ helper.op = "update")
      <4>1. \/ \E s \in LockedSteps : GoTo(s)
            \/ \E o \in Outcomes : EndAs(o)
            \/ helper' = NoJob /\ job' = job
        BY <1>6, <2>2, <3>2 DEF Verify, Stop, LaunchInstaller, Resume, Replace, HelperAnswers,
           Select, Activate, Healthy, UndoStop, UndoReplace, Unselect, UndoResume, RunHelper,
           AfterStop, LockedSteps, Outcomes
      <4>2. job'.alone = job.alone
        BY <2>1, <4>1, LockedMoves, LockedStops DEF SameChange
      <4>3. QED
        BY <4>2 DEF Claimed
    <3>3. QED
      BY <3>1, <3>2
  <2>4. QED
    BY <1>6, <2>2, <2>3, LockKeepsChange, SwitchKeepsChange
<1>7. CASE HelperStep \/ HelperDies
  <2>1. UNCHANGED job
    BY <1>7 DEF HelperStep, HelperPrepares, HelperHalts, HelperSaves, HelperSwaps,
       HelperUnswaps, HelperRestores, HelperRestarts, HelperTriesAgain, HelperLeaves, HelperDies
  <2>2. QED
    BY <1>7, <2>1, HelperKeepsChange DEF Claimed, Locked
<1>8. CASE OtherCommand
  BY <1>8 DEF OtherCommand, Claimed, Locked
<1>9. CASE CacheDamaged \/ Launch
  <2>1. UNCHANGED <<job, selected, managed, backup, core, helper>>
    BY <1>9 DEF CacheDamaged, Launch, machine
  <2>2. Claimed /\ FoundInOrder /\ StepFollows
    BY <2>1 DEF Claimed, Locked, ChangeInv
  <2>3. QED
    BY <2>1, <2>2 DEF FoundInOrder, StepFollows, AsBefore, Replaced, CanUndo, NewCore,
       HelperFollows, UpdateFollows, RollbackFollows, IsComplete
<1>10. CASE AppDies
  BY <1>10 DEF AppDies, Claimed, Locked, NoJob
<1>11. QED
  BY <1>2, <1>3, <1>4, <1>5, <1>6, <1>7, <1>8, <1>9, <1>10 DEF Next, JobStep, Environment

LEMMA InitChange == Init => ChangeInv
  BY DEF Init, ChangeInv, HostInv, Claimed, Locked, NoJob, NoCore

LEMMA StepChange == ASSUME Inv, ChangeInv, [Next]_vars PROVE ChangeInv'
<1>1. CASE Next
  <2>1. HostInv'
    BY <1>1, HostStep DEF ChangeInv
  <2>2. job' # NoJob => alive'
    BY <1>1, AliveStep DEF ChangeInv
  <2>3. Claimed' => FoundInOrder' /\ StepFollows'
    BY <1>1, ChangeStep
  <2>4. QED
    BY <2>1, <2>2, <2>3 DEF ChangeInv
<1>2. CASE UNCHANGED vars
  <2>1. UNCHANGED <<job, alive, selected, service, managed, backup, core, helper>>
    BY <1>2 DEF vars, machine
  <2>2. HostInv' /\ (job' # NoJob => alive')
    BY <2>1 DEF ChangeInv, HostInv
  <2>3. Claimed' => FoundInOrder' /\ StepFollows'
    <3>1. Claimed' => Claimed
      BY <2>1 DEF Claimed, Locked
    <3>2. FoundInOrder /\ StepFollows => FoundInOrder' /\ StepFollows'
      BY <2>1 DEF FoundInOrder, StepFollows, AsBefore, Replaced, CanUndo, NewCore,
         HelperFollows, UpdateFollows, RollbackFollows, IsComplete
    <3>3. QED
      BY <3>1, <3>2 DEF ChangeInv
  <2>4. QED
    BY <2>2, <2>3 DEF ChangeInv
<1>3. QED
  BY <1>1, <1>2

\* A switch of the core and the installation of a release leave either what they
\* announce or what they found (updater.rs:586-731, core_update.rs:289-330,
\* bin/service_install.rs: update_managed_core).
THEOREM OperationsAreAllOrNothing == Spec => []AllOrNothing
<1>1. Inv /\ ChangeInv => AllOrNothing
  <2> SUFFICES ASSUME Inv, ChangeInv, Holding("end"), job.alone PROVE AllOrNothing
    BY DEF AllOrNothing
  <2>1. Claimed /\ job.step = "end"
    BY DEF Claimed, Locked, Holding, At
  <2>2. IsComplete
    BY <2>1 DEF ChangeInv, StepFollows
  <2>3. QED
    BY <2>2 DEF AllOrNothing, IsComplete, AsBefore, NewCore
<1>2. Spec => []ChangeInv
  BY InitChange, StepChange, Invariance, PTL DEF Spec
<1>3. QED
  BY <1>1, <1>2, Invariance, PTL
=====
