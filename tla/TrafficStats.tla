---------------------------- MODULE TrafficStats ----------------------------
(* Traffic statistics: src-tauri/src/stats.rs.  A collector polls the core's     *)
(* counters, attributes what they grew by to connections, and writes minute      *)
(* buckets to SQLite; the core restarts, the application exits or dies, and      *)
(* writes fail meanwhile.                                                        *)
(*                                                                               *)
(* mihomo reads the totals first and each connection's counters later, so one    *)
(* snapshot is two steps.  Ghosts keep what really went through the core.        *)
EXTENDS Integers, Sequences, SequencesExt, FiniteSets, FiniteSetsExt, Functions

CONSTANTS
  Connections,     \* ids, never used twice
  Meta,            \* what mihomo says of each: [chain, process, host, ip]
  Controllers,     \* addresses of the core's API
  Retentions,      \* values of stats_retention_days, here in minutes; 0 keeps all
  LastMinute,      \* bound on the clock
  RankLimit,       \* rows of a ranking: ten
  MaxBytes,        \* bound on what is carried, in both directions together
  TrafficMishaps   \* bound on failures, deaths and changes of settings

ASSUME TrafficBounds ==
  /\ {LastMinute, RankLimit, MaxBytes, TrafficMishaps} \subseteq Nat
  /\ Retentions \subseteq Nat /\ IsFiniteSet(Connections)

VARIABLES
  moved,           \* connection -> bytes carried so far, in each direction
  core,            \* the running core's connections, or CoreOff
  setting,         \* [controller, retention]
  minute,          \* the clock
  collector,       \* AppState::stats, or AppGone
  sample,          \* the answer to a poll while it is read, or NoSample
  flush,           \* <<what flush_pending took>> or <<>>, for the loop and the exit
  table,           \* traffic_minute
  restarted,       \* ghost: the core was restarted since the last sample
  owed,            \* ghost: per minute, what the core counted between samples
  blind,           \* ghost: a restart went unseen, the counters having overtaken
  purged,          \* ghost: rows before this minute may have been deleted
  mishaps

trafficVars == <<moved, core, setting, minute, collector, sample, flush, table,
                 restarted, owed, blind, purged, mishaps>>

(**************************** bytes and buckets ******************************)

Zero        == [up |-> 0, down |-> 0]
Plus(a, b)  == [d \in {"up", "down"} |-> a[d] + b[d]]
Less(a, b)  == [d \in {"up", "down"} |-> IF a[d] > b[d] THEN a[d] - b[d] ELSE 0]
Least(a, b) == [d \in {"up", "down"} |-> IF a[d] < b[d] THEN a[d] ELSE b[d]]
BytesOf(S, f) == FoldFunctionOnSet(Plus, Zero, f, S)

Unattributed == "unattributed"
Dimensions   == {"proxy", "process", "host"}

\* The key a connection is booked under in each dimension.
Key(c) ==
  [proxy   |-> IF Meta[c].chain = "" THEN Unattributed ELSE Meta[c].chain,
   process |-> IF Meta[c].process = "" THEN "unknown process" ELSE Meta[c].process,
   host    |-> IF Meta[c].host = "" THEN Meta[c].ip ELSE Meta[c].host]

\* Buckets: <<minute, dimension, key>> -> bytes, for what is not zero.
NoBuckets == <<>>
At(b, k)  == IF k \in DOMAIN b THEN b[k] ELSE Zero

\* INSERT ... ON CONFLICT DO UPDATE, and the merge after a failed write.
Merged(a, b) == [k \in DOMAIN a \cup DOMAIN b |-> Plus(At(a, k), At(b, k))]

\* Accumulator::add, once for each dimension of `keys`; nothing is added for zero.
Add(b, m, keys, n) ==
  IF n = Zero THEN b
  ELSE Merged(b, [k \in {<<m, dim, keys[dim]>> : dim \in DOMAIN keys} |-> n])
TheTotal == [total |-> ""]
TheRest  == [dim \in Dimensions |-> Unattributed]

SumOver(b, m, dim) == BytesOf({k \in DOMAIN b : k[1] = m /\ k[2] = dim}, b)

(****************************** Accumulator **********************************)

CoreOff  == [state |-> "off"]
AppGone  == [state |-> "gone"]
NoSample == [state |-> "none"]
NoFlush  == [loop |-> <<>>, exit |-> <<>>]

Fresh == [state |-> "up", totals |-> NoSample, seen |-> <<>>, pending |-> NoBuckets,
          controller |-> "none yet"]

\* Clear the baseline when the counters belong to another controller.
For(acc, controller) ==
  IF acc.controller = controller THEN acc
  ELSE [acc EXCEPT !.totals = NoSample, !.seen = <<>>, !.controller = controller]

\* The core restarted: a counter fell.
Falls(acc, totals) == totals.up < acc.totals.up \/ totals.down < acc.totals.down

\* Mutant: no cap, a connection's share is whatever its own counter grew by.
AttributeAll(pending, seen, grown, order, counters, m) ==
  LET after[n \in 0 .. Len(order)] ==
        IF n = 0 THEN [left |-> grown, pending |-> pending]
        ELSE LET c     == order[n]
                 share == Less(counters[c], At(seen, c))
             IN  [left |-> Less(after[n - 1].left, share),
                  pending |-> Add(after[n - 1].pending, m, Key(c), share)]
  IN  after[Len(order)]

\* One connection after the other takes its share of what is left of the total.
Attribute(pending, seen, grown, order, counters, m) ==
  LET after[n \in 0 .. Len(order)] ==
        IF n = 0 THEN [left |-> grown, pending |-> pending]
        ELSE LET c     == order[n]
                 share == Least(Less(counters[c], At(seen, c)), after[n - 1].left)
             IN  [left |-> Less(after[n - 1].left, share),
                  pending |-> Add(after[n - 1].pending, m, Key(c), share)]
  IN  after[Len(order)]

\* Mutant: the first snapshot is counted as well.
ObserveFromZero(acc, totals, order, counters, m) ==
  LET grown  == IF acc.totals = NoSample THEN totals ELSE Less(totals, acc.totals)
      shared == Attribute(Add(acc.pending, m, TheTotal, grown), acc.seen, grown, order,
                          counters, m)
  IN  [acc EXCEPT !.totals = totals, !.seen = counters,
                  !.pending = Add(shared.pending, m, TheRest, shared.left)]

\* Accumulator::observe.  The first snapshot is the baseline; later ones count the
\* growth, or everything after a fall, and what no connection accounts for.
Observe(acc, totals, order, counters, m) ==
  IF acc.totals = NoSample THEN [acc EXCEPT !.totals = totals, !.seen = counters]
  ELSE
    LET reset  == Falls(acc, totals)
        grown  == IF reset THEN totals ELSE Less(totals, acc.totals)
        shared == Attribute(Add(acc.pending, m, TheTotal, grown),
                            IF reset THEN <<>> ELSE acc.seen, grown, order, counters, m)
    IN  [acc EXCEPT !.totals = totals, !.seen = counters,
                    !.pending = Add(shared.pending, m, TheRest, shared.left)]

(****************************** the collector ********************************)

AppUp   == collector # AppGone
Totals  == BytesOf(core.conns, moved)
TrafficMishap == mishaps < TrafficMishaps /\ mishaps' = mishaps + 1
Ghosts  == <<restarted, owed, blind, purged>>

\* A poll: the core runs and answers; the totals are read.  The loop does not poll
\* while it writes.
Poll ==
  /\ AppUp /\ core # CoreOff /\ sample = NoSample /\ flush.loop = <<>>
  /\ sample' = [state |-> "reading", totals |-> Totals, open |-> core.open,
                controller |-> setting.controller]
  /\ UNCHANGED <<moved, core, setting, minute, collector, flush, table, Ghosts, mishaps>>

\* The rest of the snapshot: the connections in the order of a hash map, counted
\* when they are read; what closed since keeps its last count.
Collect ==
  /\ AppUp /\ sample # NoSample
  /\ \E order \in SetToSeqs(sample.open) :
       LET acc    == For(collector, sample.controller)
           first  == acc.totals = NoSample
           growth == IF first THEN Zero ELSE IF restarted THEN sample.totals
                     ELSE Less(sample.totals, acc.totals)
       IN  /\ collector' = Observe(acc, sample.totals, order,
                                   [c \in sample.open |-> moved[c]], minute)
           /\ owed' = [owed EXCEPT ![minute] = Plus(@, growth)]
           /\ blind' = (blind \/ (~first /\ restarted
                                  /\ \A d \in {"up", "down"} : acc.totals[d] <= sample.totals[d]
                                  /\ acc.totals # Zero))
  /\ restarted' = FALSE
  /\ sample' = NoSample
  /\ UNCHANGED <<moved, core, setting, minute, flush, table, purged, mishaps>>

\* A timeout, an error or an answer that does not parse: nothing is observed.
PollFails ==
  /\ sample # NoSample /\ TrafficMishap
  /\ sample' = NoSample
  /\ UNCHANGED <<moved, core, setting, minute, collector, flush, table, Ghosts>>

\* flush_pending: FLUSH_LOCK, then what is pending is taken out.  The loop writes
\* between polls; flush_on_exit comes at any time, and the loop goes on meanwhile.
Take(by) ==
  /\ AppUp /\ flush = NoFlush
  /\ by = "loop" => sample = NoSample /\ collector.pending # NoBuckets
  /\ flush' = [flush EXCEPT ![by] = <<collector.pending>>]
  /\ collector' = [collector EXCEPT !.pending = NoBuckets]
  /\ UNCHANGED <<moved, core, setting, minute, sample, table, Ghosts, mishaps>>

\* The process is gone, and with it what was not written: `lost` is forgiven.
Ends(forgiven) ==
  /\ collector' = AppGone /\ sample' = NoSample /\ flush' = NoFlush
  /\ owed' = [m \in DOMAIN owed |-> Less(owed[m], SumOver(forgiven, m, "total"))]

\* flush_into commits: the rows are added and old ones deleted, or neither.  now is
\* in seconds, so rows of the minute at the limit may go as well.  What is seen
\* after flush_on_exit took the rest is lost with the process.
Commit(by) ==
  /\ flush[by] # <<>>
  /\ LET rows == flush[by][1] IN
     \E cutoff \in (IF setting.retention = 0 \/ rows = NoBuckets THEN {0}
                    ELSE {minute - setting.retention, minute - setting.retention + 1}) :
       /\ table' = LET all == Merged(table, rows)
                    IN  Restrict(all, {k \in DOMAIN all : k[1] >= cutoff})
       /\ purged' = IF cutoff > purged THEN cutoff ELSE purged
  /\ IF by = "exit" THEN Ends(collector.pending)
     ELSE flush' = [flush EXCEPT ![by] = <<>>] /\ UNCHANGED <<collector, sample, owed>>
  /\ UNCHANGED <<moved, core, setting, minute, restarted, blind, mishaps>>

\* The write fails and nothing is stored: what was taken goes back to what is
\* pending.  On exit it is lost with the process.
CommitFails(by) ==
  /\ flush[by] \notin {<<>>, <<NoBuckets>>} /\ TrafficMishap
  /\ LET back == Merged(flush[by][1], collector.pending) IN
     IF by = "exit" THEN Ends(back)
     ELSE /\ collector' = [collector EXCEPT !.pending = back]
          /\ flush' = [flush EXCEPT ![by] = <<>>]
          /\ UNCHANGED <<sample, owed>>
  /\ UNCHANGED <<moved, core, setting, minute, table, restarted, blind, purged>>

(********************* the application, the core, the clock ******************)

\* What a writer has taken and not stored yet.
Taken(by) == IF flush[by] = <<>> THEN NoBuckets ELSE flush[by][1]

ApplicationStarts ==
  /\ ~AppUp
  /\ collector' = Fresh
  /\ UNCHANGED <<moved, core, setting, minute, sample, flush, table, Ghosts, mishaps>>

\* A crash: what is in memory is lost; SQLite rolls an open transaction back.
ApplicationCrashes ==
  /\ AppUp /\ TrafficMishap
  /\ Ends(Merged(Merged(collector.pending, Taken("loop")), Taken("exit")))
  /\ UNCHANGED <<moved, core, setting, minute, table, restarted, blind, purged>>

Settings(s) ==
  /\ AppUp /\ s # setting /\ TrafficMishap
  /\ setting' = s
  /\ UNCHANGED <<moved, core, minute, collector, sample, flush, table, Ghosts>>

Tick ==
  /\ minute < LastMinute
  /\ minute' = minute + 1
  /\ UNCHANGED <<moved, core, setting, collector, sample, flush, table, Ghosts, mishaps>>

\* The core starts over with counters of zero.
CoreStarts ==
  /\ core = CoreOff
  /\ core' = [state |-> "up", conns |-> {}, open |-> {}]
  /\ restarted' = TRUE
  /\ UNCHANGED <<moved, setting, minute, collector, sample, flush, table,
                  owed, blind, purged, mishaps>>

CoreEnds ==
  /\ core # CoreOff
  /\ core' = CoreOff
  /\ sample' = NoSample
  /\ UNCHANGED <<moved, setting, minute, collector, flush, table, Ghosts, mishaps>>

\* A connection opens with its first bytes, carries more, closes.
Carry(c, bytes) ==
  /\ core # CoreOff
  /\ c \in core.open \/ moved[c] = Zero
  /\ LET all == Plus(bytes, BytesOf(Connections, moved))
     IN  all.up + all.down <= MaxBytes
  /\ moved' = [moved EXCEPT ![c] = Plus(@, bytes)]
  /\ core' = [core EXCEPT !.conns = @ \cup {c}, !.open = @ \cup {c}]
  /\ UNCHANGED <<setting, minute, collector, sample, flush, table, Ghosts, mishaps>>

Close(c) ==
  /\ core # CoreOff /\ c \in core.open
  /\ core' = [core EXCEPT !.open = @ \ {c}]
  /\ UNCHANGED <<moved, setting, minute, collector, sample, flush, table, Ghosts, mishaps>>

(****************************** specification ********************************)

TrafficStarts(s) ==
  /\ moved = [c \in Connections |-> Zero]
  /\ core = CoreOff /\ setting = s /\ minute = 0
  /\ collector = Fresh /\ sample = NoSample /\ flush = NoFlush
  /\ table = NoBuckets /\ restarted = FALSE
  /\ owed = [m \in 0 .. LastMinute |-> Zero]
  /\ blind = FALSE /\ purged = 0 /\ mishaps = 0

OneByte == {[up |-> 1, down |-> 0], [up |-> 0, down |-> 1]}
SettingValues == [controller : Controllers, retention : Retentions]

TrafficInit == \E s \in SettingValues : TrafficStarts(s)

CollectorStep ==
  \/ Poll \/ Collect \/ PollFails
  \/ \E by \in {"loop", "exit"} : Take(by) \/ Commit(by) \/ CommitFails(by)

TrafficEnvironment ==
  \/ ApplicationStarts \/ ApplicationCrashes \/ Tick \/ CoreStarts \/ CoreEnds
  \/ \E s \in SettingValues : Settings(s)
  \/ \E c \in Connections, bytes \in OneByte : Carry(c, bytes)
  \/ \E c \in Connections : Close(c)

TrafficNext == CollectorStep \/ TrafficEnvironment

TrafficSpec == TrafficInit /\ [][TrafficNext]_trafficVars

(********************************* queries ***********************************)

Rows(dim, since) == {k \in DOMAIN table : k[2] = dim /\ k[1] >= since}
Both(n) == n.up + n.down

\* series_since, for the whole range.
SeriesSum(since) == BytesOf(Rows("total", since), table)

\* rank_since: the rows of each key are summed, and the keys with the most bytes are
\* listed, as many as the limit allows; of equal ones SQLite takes any.
KeysIn(dim, since) == {k[3] : k \in Rows(dim, since)}
SumOf(dim, since, keys) == BytesOf({k \in Rows(dim, since) : k[3] \in keys}, table)
Rankings(dim, since) ==
  LET all == KeysIn(dim, since) IN
  {top \in SUBSET all :
     /\ Cardinality(top) <= RankLimit
     /\ top # all => Cardinality(top) = RankLimit
     /\ \A a \in top, b \in all \ top :
          Both(SumOf(dim, since, {a})) >= Both(SumOf(dim, since, {b}))}

\* summary_since.
Summary(since) ==
  LET of(keys) == Both(SumOf("proxy", since, keys))
  IN  [total |-> SeriesSum(since), direct |-> of({"DIRECT"}),
       unattributed |-> of({Unattributed}),
       proxy |-> of(KeysIn("proxy", since) \ {"DIRECT", Unattributed})]

(******************************** properties *********************************)

\* The pages agree with each other, whatever the range and however writes fail.  The
\* summary's three parts are its total, also for keys that no ranking lists.  What a
\* ranking lists and what its limit leaves out add up to the total of the chart, and
\* no more than ten keys are listed in full (stats.rs:117-146, 274, 337-383; the
\* counters of one snapshot are read at different times).
PagesAgree ==
  \A since \in 0 .. LastMinute :
    LET s == Summary(since) IN
    /\ s.direct + s.proxy + s.unattributed = Both(s.total)
    /\ \A dim \in Dimensions : \A top \in Rankings(dim, since) :
         LET all    == KeysIn(dim, since)
             listed == SumOf(dim, since, top)
         IN  /\ Plus(listed, SumOf(dim, since, all \ top)) = s.total
             /\ Cardinality(all) <= RankLimit => listed = s.total

\* Everything that is stored or still to be stored.
All == IF AppUp
       THEN Merged(Merged(Merged(table, collector.pending), Taken("loop")), Taken("exit"))
       ELSE table

\* No byte is counted twice, through restarts of the core and of the application,
\* changes of the controller and retries of a write (stats.rs:105, 197, 237): what is
\* booked under a key was carried by connections with that key.
NothingTwice ==
  LET all == All IN
  \A dim \in Dimensions :
    LET keys == {k[3] : k \in {x \in DOMAIN all : x[2] = dim}}
        booked(key) == BytesOf({k \in DOMAIN all : k[2] = dim /\ k[3] = key}, all)
        real(key)   == BytesOf({c \in Connections : Key(c)[dim] = key \/ key = Unattributed},
                               moved)
    IN  \A key \in keys : Least(booked(key), real(key)) = booked(key)

\* What the core counted between two samples is recorded once, in the minute it was
\* seen, and survives failed writes and an exit whose write succeeds, also one that
\* comes while the loop writes (stats.rs:221-253).  Excepted are rows that may have
\* expired, and a restart after which the counters have overtaken the old ones
\* before the next poll: then the code cannot see it (stats.rs:105).
RecordedOnce ==
  ~blind =>
    LET all == All
    IN  \A m \in purged .. LastMinute : SumOver(all, m, "total") = owed[m]

\* Traffic is counted once: neither doubled nor lost between mihomo's counters, the
\* accumulator and the database (stats.rs:92-287).
CountedOnce == NothingTwice /\ RecordedOnce
=============================================================================
