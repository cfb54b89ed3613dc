-------------------------- MODULE ProfileStoreProofs --------------------------
(* Proofs about ProfileStore, for every number of profiles, urls, enhancers,   *)
(* downloads, failing calls and deaths.                                        *)
(*                                                                             *)
(* The properties speak of the moments between commands, so none of them is    *)
(* inductive.  Inv says what holds at every step in between: which files the   *)
(* rest of the plan still has to write, which of them the transaction puts     *)
(* back, which runtime.yaml the core can have, and what a build would read.    *)
(* A command is judged once, when it takes the lock (Planned); its steps only  *)
(* use up the plan, whatever point a failure or a death cuts it at.            *)
EXTENDS ProfileStore, WellFoundedInduction, TLAPS

(******************************* the invariant *******************************)

Lists   == {Index, GlobalIndex}
Bodies  == {Body(id) : id \in Ids}
Scripts == {Script(pid, eid) : pid \in Pids, eid \in Eids}

\* What each file may hold.
GlobalEntry == [eid : Enhs, on : BOOLEAN]
OneIsCurrent(index) ==
  index # <<>> => \E i \in DOMAIN index : \A j \in DOMAIN index : index[j].current <=> j = i
GoodIndexes ==
  {x \in Seq(IndexEntry) :
     (\A i, j \in DOMAIN x : x[i].id = x[j].id => i = j) /\ OneIsCurrent(x)}
BodyTexts   == Contents \cup {None}
ScriptTexts == {Builtin, None} \cup {Text(q) : q \in Qualities}
Values == GoodIndexes \cup Seq(GlobalEntry) \cup BodyTexts \cup ScriptTexts

Fits(f, v) ==
  /\ f = Index => v \in GoodIndexes
  /\ f = GlobalIndex => v \in Seq(GlobalEntry)
  /\ f \in Bodies => v \in BodyTexts
  /\ f \in Scripts => v \in ScriptTexts

\* A disk the program can have written.
IsDisk(d) == d = [f \in Files |-> d[f]] /\ \A f \in Files : Fits(f, d[f])
\* A write of a plan; only regenerate_runtime writes runtime.yaml.
Steps == {w \in [file : Files \ {Runtime}, to : Values] : Fits(w.file, w.to)}

OpNames == {"import", "import_file", "update", "update_meta", "select", "delete", "save_content",
            "edit", "save_enhancer", "delete_enhancer", "toggle_enhancer", "reorder_enhancers",
            "startup"}

\* A command that holds the lock, and the disk from before it.
IsCommand(c) ==
  /\ c \in [op : OpNames, id : Pids \cup {None},
            phase : {"write", "build", "apply", "undo", "restore"}, steps : Seq(Steps),
            done : Seq(Files), refused : BOOLEAN, then : {"runtime", "nothing", "trial"},
            starts : BOOLEAN, before : {c.before}, left : Seq(Files), again : BOOLEAN,
            errors : BOOLEAN, reload : BOOLEAN]
  /\ IsDisk(c.before)

StoreType ==
  /\ IsDisk(disk)
  /\ core \in [state : {"off", "up", "relaunch"}, config : {core.config}]
  /\ \A u \in fetches : u \in [id : Ids, url : Urls, text : Contents] /\ u.text[1] = u.url
  /\ editor # None => editor \in [id : Ids, seen : Contents]
  /\ alive \in BOOLEAN /\ settled \in BOOLEAN /\ renamed \in BOOLEAN /\ reported \in BOOLEAN
  /\ mishaps \in 0 .. MaxMishaps

\* What the phases exclude: the start-up has no rollback of its own to reload
\* after, and only a command that affects the runtime builds it.
CommandType ==
  /\ cmd = NoCommand \/ IsCommand(cmd)
  /\ cmd # NoCommand => alive
  /\ ~alive => core.state = "off" /\ ~settled
  /\ cmd.op = "startup" =>
       /\ core.state = "off" /\ ~settled /\ cmd.phase # "restore"
       /\ cmd.then = "runtime" /\ ~cmd.refused
       /\ cmd.phase = "undo" => cmd.again
  /\ cmd.phase \in {"build", "apply"} => cmd.then = "runtime" /\ ~cmd.refused

\* Every file that differs from what it was before the command is one that the
\* transaction will put back, and during a rollback without an error it is one of
\* those still left.
Tracked ==
  /\ cmd.phase = "write" =>
       \A i \in DOMAIN cmd.steps :
          cmd.steps[i].file \in Untracked => cmd.steps[i].file \in ToSet(cmd.done)
  /\ cmd.phase \in {"write", "build", "apply"} /\ cmd.op # "startup" /\ cmd.then = "runtime" =>
       Runtime \in ToSet(cmd.done)
  /\ cmd.phase \in {"write", "undo"} \/ (cmd.phase \in {"build", "apply"} /\ cmd.op # "startup") =>
       \A f \in Files : disk[f] # cmd.before[f] => f \in ToSet(cmd.done)
  /\ cmd.phase = "undo" /\ ~cmd.errors =>
       \A f \in Files : disk[f] # cmd.before[f] => f \in ToSet(cmd.left)
  /\ cmd.phase = "restore" => disk = cmd.before

\* The files a list names.
Names(l, v, f) ==
  IF l = Index
  THEN \E i \in DOMAIN v :
          \/ f = Body(v[i].id)
          \/ \E j \in DOMAIN v[i].enhs : f = Script(v[i].id, v[i].enhs[j].eid)
  ELSE \E j \in DOMAIN v : f = Script(Global, v[j].eid)

\* The files of F that a list on disk names are there.
Intact(d, F) == \A l \in Lists, f \in F : Names(l, d[l], f) => d[f] # None

Puts(w, f)    == w.file = f /\ w.to # None
Removes(w, f) == w.file = f /\ w.to = None

\* Whenever the steps are cut short, the files named are there.
Safe(steps, d, F) ==
  /\ \A i \in DOMAIN steps : steps[i].file \in Lists =>
       \A f \in F : Names(steps[i].file, steps[i].to, f) =>
         d[f] # None \/ \E k \in DOMAIN steps : k < i /\ Puts(steps[k], f)
  /\ \A i \in DOMAIN steps, f \in F : Removes(steps[i], f) =>
       \A l \in Lists :
         /\ \A k \in DOMAIN steps : steps[k].file = l => k < i /\ ~Names(l, steps[k].to, f)
         /\ (\A k \in DOMAIN steps : steps[k].file # l) => ~Names(l, d[l], f)

\* When all of them are done, the files named are there.
InTheEnd(steps, d, F) ==
  \A l \in Lists, f \in F :
    (IF \E k \in DOMAIN steps : steps[k].file = l
     THEN \E k \in DOMAIN steps : steps[k].file = l /\ Names(l, steps[k].to, f)
     ELSE Names(l, d[l], f))
    => d[f] # None /\ \A k \in DOMAIN steps : ~Removes(steps[k], f)

\* A plan is safe, or it leaves things in order when it is carried out in full
\* (delete_enhancer), and what a rollback returns to is in order.
Kept(F, ok, safe) ==
  ok =>
    /\ cmd.phase = "idle" \/ cmd.phase \in {"build", "apply"} \/ (cmd.phase = "write" /\ safe) =>
         Intact(disk, F)
    /\ cmd.phase = "write" /\ safe => Safe(cmd.steps, disk, F)
    /\ cmd.phase = "write" /\ ~safe => InTheEnd(cmd.steps, disk, F)
    /\ cmd.phase # "idle" => Intact(cmd.before, F)
BodiesKept  == Kept(Bodies, RollbacksEnded, TRUE)
ScriptsKept == Kept(Scripts, torn = {}, cmd.op # "delete_enhancer")

\* The core has the runtime.yaml on disk, or the one from before where a rollback
\* is going to put it back and reload it.
CoreFollows ==
  /\ cmd.phase \in {"write", "build"} \/ (cmd.phase = "undo" /\ ~cmd.reload) =>
        disk[Runtime] = cmd.before[Runtime]
  /\ cmd.phase = "undo" /\ cmd.again /\ cmd.op # "startup" => reported
  /\ core.state = "up" /\ ~reported =>
      /\ cmd.phase \in {"idle", "write", "build"} => core.config = disk[Runtime]
      /\ cmd.phase = "apply" => core.config \in {disk[Runtime], cmd.before[Runtime]}
      /\ cmd.phase = "undo" /\ ~cmd.reload => core.config = disk[Runtime]

\* What a build reads: the current profile with its items, the global ones and
\* their files.  A step that spares them changes no build; only update_meta may
\* give the current profile another name.
SameCurrent(x, y, op) ==
  /\ HasCurrent(x) <=> HasCurrent(y)
  /\ HasCurrent(x) => CurrentOf(x).id = CurrentOf(y).id /\ CurrentOf(x).enhs = CurrentOf(y).enhs
  /\ HasCurrent(x) /\ op # "update_meta" => CurrentOf(x).name = CurrentOf(y).name
Feeds(f, index) ==
  \/ \E eid \in Eids : f = Script(Global, eid)
  \/ /\ HasCurrent(index)
     /\ f = Body(CurrentOf(index).id) \/ \E eid \in Eids : f = Script(CurrentOf(index).id, eid)
SameSources(d, e, op) ==
  /\ SameCurrent(d[Index], e[Index], op) /\ d[GlobalIndex] = e[GlobalIndex]
  /\ \A f \in Files : Feeds(f, d[Index]) => d[f] = e[f]
Spares(w, d, op) ==
  /\ w.file = Index => SameCurrent(d[Index], w.to, op)
  /\ w.file # GlobalIndex /\ ~Feeds(w.file, d[Index])
\* runtime.yaml is made of the texts that a build reads, and all that a build gives.
MadeOf(d) == d[Runtime].of = Sources(d, d[Index])
IsBuilt(d) == d[Runtime] = Build(d)
\* A command that is not going to build leaves what a build reads alone, but perhaps
\* for the name.
BuildFollows ==
  /\ settled /\ cmd.phase = "idle" => MadeOf(disk) /\ (~renamed => IsBuilt(disk))
  /\ settled /\ cmd.phase # "idle" => MadeOf(cmd.before) /\ (~renamed => IsBuilt(cmd.before))
  /\ cmd.phase = "write" /\ ~cmd.refused /\ cmd.then # "runtime" =>
       /\ SameSources(cmd.before, disk, cmd.op)
       /\ \A i \in DOMAIN cmd.steps : Spares(cmd.steps[i], cmd.before, cmd.op)
  /\ cmd.phase = "apply" => IsBuilt(disk)

\* The profile that an update wrote its text for is still in the index.
UpdateFollows ==
  cmd.op = "update" /\ cmd.phase \in {"write", "build", "apply"} /\ ~cmd.refused =>
    LET index == cmd.before[Index]
        url   == index[Slot(index, cmd.id)].url
    IN  /\ cmd.id \in Ids /\ Has(index, cmd.id) /\ disk[Index] = index
        /\ cmd.phase = "write" =>
            /\ \A i \in DOMAIN cmd.steps : cmd.steps[i].file = Index => cmd.steps[i].to = index
            /\ \A i \in DOMAIN cmd.steps : cmd.steps[i].file = Body(cmd.id) => cmd.steps[i].to[1] = url
            /\ (\A i \in DOMAIN cmd.steps : cmd.steps[i].file # Body(cmd.id)) =>
                 disk[Body(cmd.id)][1] = url
        /\ cmd.phase # "write" => disk[Body(cmd.id)][1] = url

Inv ==
  /\ StoreType /\ CommandType /\ Tracked /\ BodiesKept /\ ScriptsKept
  /\ CoreFollows /\ BuildFollows /\ UpdateFollows

(********************************* sequences *********************************)

\* A set of natural numbers that is not empty has a least element.
LEMMA NatMin ==
  ASSUME NEW T, T \subseteq Nat, T # {}
  PROVE  \E x \in T : \A y \in T : x <= y
<1>1. PICK x \in T : \A y \in T : ~ (<<y, x>> \in OpToRel(<,Nat))
  BY WFMin, NatLessThanWellFounded
<1>2. \A y \in T : ~ (y < x)
  BY <1>1 DEF OpToRel
<1> HIDE DEF OpToRel
<1>3. \A y \in T : x <= y
  BY <1>2
<1> QED
  BY <1>3

\* Induction over the natural numbers, on a set.
LEMMA NatSteps ==
  ASSUME NEW T, 0 \in T, \A n \in Nat : n \in T => n + 1 \in T
  PROVE  Nat \subseteq T
<1> SUFFICES ASSUME Nat \ T # {} PROVE FALSE
  OBVIOUS
<1>1. PICK x \in Nat \ T : \A y \in Nat \ T : x <= y
  BY NatMin
<1>2. x # 0 /\ x - 1 \in Nat /\ x - 1 \in T
  BY <1>1
<1> QED
  BY <1>1, <1>2

IsKept(g, s, S, n) ==
  g = [k \in 0 .. n |-> IF k = 0 THEN <<>>
                        ELSE IF s[k] \in S THEN Append(g[k - 1], s[k]) ELSE g[k - 1]]

\* The function that Only is defined by exists.
LEMMA KeptExists == ASSUME NEW s, NEW S, NEW n \in Nat PROVE \E g : IsKept(g, s, S, n)
<1> DEFINE T == {m \in Nat : \E g : IsKept(g, s, S, m)}
<1>1. 0 \in T
  <2>1. IsKept([k \in 0 .. 0 |-> <<>>], s, S, 0)
    BY DEF IsKept
  <2> QED
    BY <2>1
<1>2. ASSUME NEW m \in T PROVE m + 1 \in T
  <2>1. PICK g : IsKept(g, s, S, m)
    OBVIOUS
  <2> DEFINE last == IF s[m + 1] \in S THEN Append(g[m], s[m + 1]) ELSE g[m]
             h == [k \in 0 .. m + 1 |-> IF k = m + 1 THEN last ELSE g[k]]
  <2>2. \A k \in 0 .. m : h[k] = g[k]
    OBVIOUS
  <2>3. h[m + 1] = last
    OBVIOUS
  <2> DEFINE step(k) == IF k = 0 THEN <<>>
                   ELSE IF s[k] \in S THEN Append(h[k - 1], s[k]) ELSE h[k - 1]
  <2>4. ASSUME NEW k \in 0 .. m PROVE h[k] = step(k)
    <3>1. g[k] = IF k = 0 THEN <<>> ELSE IF s[k] \in S THEN Append(g[k - 1], s[k]) ELSE g[k - 1]
      BY <2>1 DEF IsKept
    <3>2. k # 0 => k - 1 \in 0 .. m
      OBVIOUS
    <3> HIDE DEF h
    <3> QED
      BY <3>1, <3>2, <2>2
  <2>5. h[m + 1] = step(m + 1)
    <3> HIDE DEF h
    <3>1. m + 1 # 0 /\ (m + 1) - 1 = m /\ m \in 0 .. m
      OBVIOUS
    <3> QED
      BY <3>1, <2>2, <2>3
  <2> HIDE DEF h, step
  <2>6. \A k \in 0 .. m + 1 : h[k] = step(k)
    <3>1. \A k \in 0 .. m + 1 : k \in 0 .. m \/ k = m + 1
      OBVIOUS
    <3> QED
      BY <2>4, <2>5, <3>1
  <2>8. h = [k \in 0 .. m + 1 |-> h[k]]
    BY DEF h
  <2>7. IsKept(h, s, S, m + 1)
    BY <2>6, <2>8 DEF IsKept, step
  <2> QED
    BY <2>7
<1>3. \A m \in Nat : m \in T => m + 1 \in T
  BY <1>2
<1> HIDE DEF T
<1>4. n \in T
  BY <1>1, <1>3, NatSteps
<1> QED
  BY <1>4 DEF T

LEMMA OnlyIsKept ==
  ASSUME NEW E, NEW s \in Seq(E), NEW S
  PROVE  \E g : IsKept(g, s, S, Len(s)) /\ Only(s, S) = g[Len(s)]
<1> DEFINE f == CHOOSE g : IsKept(g, s, S, Len(s))
<1>1. IsKept(f, s, S, Len(s))
  BY KeptExists
<1>2. Only(s, S) = f[Len(s)]
  BY DEF Only, IsKept
<1> QED
  BY <1>1, <1>2

\* A strictly increasing h that tells where the elements kept come from.
Picks(h, r, s, S, n) ==
  /\ h \in [1 .. Len(r) -> 1 .. n]
  /\ \A i \in 1 .. Len(r) : r[i] = s[h[i]] /\ s[h[i]] \in S
  /\ \A i, j \in 1 .. Len(r) : i < j => h[i] < h[j]
  /\ \A k \in 1 .. n : s[k] \in S => \E i \in 1 .. Len(r) : h[i] = k

\* Only returns some of the elements, in their order, and all that are in S.
LEMMA OnlyPicks ==
  ASSUME NEW E, NEW s \in Seq(E), NEW S
  PROVE  Only(s, S) \in Seq(E) /\ \E h : Picks(h, Only(s, S), s, S, Len(s))
<1>0. Len(s) \in Nat /\ \A k \in 1 .. Len(s) : s[k] \in E
  OBVIOUS
<1>1. PICK g : IsKept(g, s, S, Len(s)) /\ Only(s, S) = g[Len(s)]
  BY OnlyIsKept
<1>2. g[0] = <<>> /\ \A k \in 1 .. Len(s) :
         g[k] = IF s[k] \in S THEN Append(g[k - 1], s[k]) ELSE g[k - 1]
  <2>1. 0 \in 0 .. Len(s) /\ \A k \in 1 .. Len(s) : k \in 0 .. Len(s) /\ k # 0
    BY <1>0
  <2>2. \A k \in 0 .. Len(s) :
          g[k] = IF k = 0 THEN <<>> ELSE IF s[k] \in S THEN Append(g[k - 1], s[k]) ELSE g[k - 1]
    BY <1>1 DEF IsKept
  <2> QED
    BY <2>1, <2>2
<1> DEFINE T == {n \in Nat : n <= Len(s) => g[n] \in Seq(E) /\ \E h : Picks(h, g[n], s, S, n)}
<1>3. 0 \in T
  <2>1. Picks(<<>>, <<>>, s, S, 0)
    BY DEF Picks
  <2>2. g[0] \in Seq(E) /\ Picks(<<>>, g[0], s, S, 0)
    BY <1>2, <2>1
  <2> QED
    BY <2>2
<1>4. ASSUME NEW n \in Nat, n \in T PROVE n + 1 \in T
  <2> SUFFICES ASSUME n + 1 <= Len(s)
               PROVE  g[n + 1] \in Seq(E) /\ \E h : Picks(h, g[n + 1], s, S, n + 1)
    BY DEF T
  <2>1. n + 1 \in 1 .. Len(s) /\ (n + 1) - 1 = n /\ n <= Len(s)
    BY <1>0
  <2>2. PICK h : Picks(h, g[n], s, S, n)
    BY <1>4, <2>1
  <2>3. g[n] \in Seq(E) /\ Len(g[n]) \in Nat
    BY <1>4, <2>1
  <2>4. CASE s[n + 1] \notin S
    <3>1. g[n + 1] = g[n]
      BY <1>2, <2>1, <2>4
    <3>2. Picks(h, g[n], s, S, n + 1)
      BY <2>2, <2>3, <2>4 DEF Picks
    <3> QED
      BY <2>3, <3>1, <3>2
  <2>5. CASE s[n + 1] \in S
    <3> DEFINE r == Append(g[n], s[n + 1])
               m == Len(g[n])
               k == [i \in 1 .. m + 1 |-> IF i = m + 1 THEN n + 1 ELSE h[i]]
    <3>1. g[n + 1] = r
      BY <1>2, <2>1, <2>5
    <3>2. /\ r \in Seq(E) /\ Len(r) = m + 1 /\ r[m + 1] = s[n + 1]
          /\ \A i \in 1 .. m : r[i] = g[n][i]
      BY <1>0, <2>1, <2>3
    <3> HIDE DEF r
    <3>3. k[m + 1] = n + 1 /\ \A i \in 1 .. m : k[i] = h[i]
      BY <2>3
    <3>4. k \in [1 .. m + 1 -> 1 .. n + 1]
      BY <2>2, <2>3 DEF Picks
    <3> HIDE DEF k
    <3>5. \A i \in 1 .. m + 1 : i \in 1 .. m \/ i = m + 1
      BY <2>3
    <3>6. \A i \in 1 .. m : h[i] \in 1 .. n
      BY <2>2 DEF Picks
    <3>7. \A i \in 1 .. m + 1 : r[i] = s[k[i]] /\ s[k[i]] \in S
      BY <2>2, <2>5, <3>2, <3>3, <3>5 DEF Picks
    <3>8. \A i, j \in 1 .. m + 1 : i < j => k[i] < k[j]
      <4> SUFFICES ASSUME NEW i \in 1 .. m + 1, NEW j \in 1 .. m + 1, i < j
                   PROVE  k[i] < k[j]
        OBVIOUS
      <4>1. i \in 1 .. m
        BY <2>3
      <4> QED
        BY <2>2, <3>3, <3>5, <3>6, <4>1 DEF Picks
    <3>9. \A x \in 1 .. n + 1 : s[x] \in S => \E i \in 1 .. m + 1 : k[i] = x
      <4> SUFFICES ASSUME NEW x \in 1 .. n + 1, s[x] \in S PROVE \E i \in 1 .. m + 1 : k[i] = x
        OBVIOUS
      <4>1. CASE x = n + 1
        BY <2>3, <3>3, <4>1
      <4>2. CASE x \in 1 .. n
        <5>1. PICK i \in 1 .. m : h[i] = x
          BY <2>2, <4>2 DEF Picks
        <5> QED
          BY <2>3, <3>3, <5>1
      <4> QED
        BY <4>1, <4>2
    <3>10. Picks(k, r, s, S, n + 1)
      BY <3>2, <3>4, <3>7, <3>8, <3>9 DEF Picks
    <3> QED
      BY <3>1, <3>2, <3>10
  <2> QED
    BY <2>4, <2>5
<1> HIDE DEF T
<1>5. Len(s) \in T
  BY <1>0, <1>3, <1>4, NatSteps
<1> QED
  BY <1>0, <1>1, <1>5 DEF T

LEMMA ToSetIs == ASSUME NEW X, NEW s \in Seq(X), NEW x PROVE x \in ToSet(s) <=> \E i \in 1 .. Len(s) : s[i] = x
  BY DEF ToSet

LEMMA ReverseIs ==
  ASSUME NEW X, NEW s \in Seq(X)
  PROVE  Reverse(s) \in Seq(X) /\ ToSet(Reverse(s)) = ToSet(s)
<1>1. Len(s) \in Nat /\ \A i \in 1 .. Len(s) : s[i] \in X
  OBVIOUS
<1>2. \A i \in 1 .. Len(s) : (Len(s) - i) + 1 \in 1 .. Len(s)
  BY <1>1
<1>3. Reverse(s) \in Seq(X) /\ Len(Reverse(s)) = Len(s)
      /\ \A i \in 1 .. Len(s) : Reverse(s)[i] = s[(Len(s) - i) + 1]
  BY <1>1, <1>2 DEF Reverse
<1>4. ASSUME NEW x \in ToSet(s) PROVE x \in ToSet(Reverse(s))
  <2>1. PICK i \in 1 .. Len(s) : s[i] = x
    BY ToSetIs
  <2>2. (Len(s) - ((Len(s) - i) + 1)) + 1 = i
    BY <1>1
  <2>3. Reverse(s)[(Len(s) - i) + 1] = x
    BY <1>2, <1>3, <2>1, <2>2
  <2> QED
    BY <1>2, <1>3, <2>3, ToSetIs
<1>5. ASSUME NEW x \in ToSet(Reverse(s)) PROVE x \in ToSet(s)
  BY <1>2, <1>3, <1>5, ToSetIs
<1> QED
  BY <1>3, <1>4, <1>5

LEMMA TailIs ==
  ASSUME NEW X, NEW s \in Seq(X), s # <<>>
  PROVE  /\ Head(s) = s[1] /\ s[1] \in X /\ 1 \in 1 .. Len(s)
         /\ Tail(s) \in Seq(X) /\ Len(Tail(s)) = Len(s) - 1
         /\ \A i \in 1 .. Len(s) - 1 : Tail(s)[i] = s[i + 1] /\ i + 1 \in 1 .. Len(s)
  OBVIOUS

LEMMA ToSetOfTail ==
  ASSUME NEW X, NEW s \in Seq(X), s # <<>>, NEW x \in ToSet(s), x # Head(s)
  PROVE  x \in ToSet(Tail(s))
<1>1. PICK i \in 1 .. Len(s) : s[i] = x
  BY ToSetIs
<1>2. i # 1 /\ i - 1 \in 1 .. Len(s) - 1
  BY <1>1, TailIs
<1>3. Tail(s)[i - 1] = x
  BY <1>1, <1>2, TailIs
<1> QED
  BY <1>2, <1>3, TailIs, ToSetIs

LEMMA ToSetOfAppend ==
  ASSUME NEW X, NEW s \in Seq(X), NEW y \in X
  PROVE  Append(s, y) \in Seq(X) /\ ToSet(Append(s, y)) = ToSet(s) \cup {y}
<1> DEFINE r == Append(s, y)
           n == Len(s)
<1>1. /\ r \in Seq(X) /\ Len(r) = n + 1 /\ n \in Nat
      /\ r[n + 1] = y /\ \A i \in 1 .. n : r[i] = s[i]
  OBVIOUS
<1> HIDE DEF r
<1>2. ASSUME NEW x \in ToSet(r) PROVE x \in ToSet(s) \cup {y}
  <2>1. PICK i \in 1 .. n + 1 : r[i] = x
    BY <1>1, ToSetIs
  <2>2. i \in 1 .. n \/ i = n + 1
    BY <1>1
  <2>3. CASE i = n + 1
    BY <1>1, <2>1, <2>3
  <2>4. CASE i \in 1 .. n
    BY <1>1, <2>1, <2>4, ToSetIs
  <2> QED
    BY <2>2, <2>3, <2>4
<1>3. ASSUME NEW x \in ToSet(s) PROVE x \in ToSet(r)
  <2>1. PICK i \in 1 .. n : s[i] = x
    BY ToSetIs
  <2>2. i \in 1 .. n + 1 /\ r[i] = x
    BY <1>1, <2>1
  <2> QED
    BY <1>1, <2>2, ToSetIs
<1>4. y \in ToSet(r)
  <2>1. n + 1 \in 1 .. n + 1
    BY <1>1
  <2> QED
    BY <1>1, <2>1, ToSetIs
<1>5. ToSet(r) = ToSet(s) \cup {y}
  BY <1>2, <1>3, <1>4
<1> QED
  BY <1>1, <1>5 DEF r

(*********************************** files ***********************************)

\* No two of the names stand for one file.
LEMMA FilesDiffer ==
  /\ Index # GlobalIndex /\ Index # Runtime /\ GlobalIndex # Runtime
  /\ \A x : Body(x) \notin {Index, GlobalIndex, Runtime}
  /\ \A x, y : Script(x, y) \notin {Index, GlobalIndex, Runtime}
  /\ \A x, y, z : Body(x) # Script(y, z)
  /\ \A x, y : Body(x) = Body(y) => x = y
  /\ \A x, y, z, w : Script(x, y) = Script(z, w) => x = z /\ y = w
  BY DEF Index, GlobalIndex, Runtime, Body, Script

\* The files are the two indexes, runtime.yaml, the bodies and the scripts.
LEMMA FilesAre ==
  /\ Index \in Files /\ GlobalIndex \in Files /\ Runtime \in Files
  /\ \A x \in Ids : Body(x) \in Files /\ Body(x) \in Bodies
  /\ \A x \in Pids, y \in Eids : Script(x, y) \in Files /\ Script(x, y) \in Scripts
  /\ Files = {Index, GlobalIndex, Runtime} \cup Bodies \cup Scripts
  BY DEF Files, Bodies, Scripts

LEMMA KindsDiffer ==
  /\ Index \notin Bodies \cup Scripts /\ GlobalIndex \notin Bodies \cup Scripts
  /\ Runtime \notin Bodies \cup Scripts /\ Bodies \cap Scripts = {}
  BY FilesDiffer DEF Bodies, Scripts

(********************************** a disk ***********************************)

LEMMA NoneIsNoText ==
  /\ None \notin Contents /\ Builtin # None /\ \A q \in Qualities : Text(q) # None
  BY NamesAreDistinct DEF Contents, Builtin, Text

LEMMA DiskHolds ==
  ASSUME NEW d, IsDisk(d)
  PROVE  /\ d[Index] \in GoodIndexes /\ d[GlobalIndex] \in Seq(GlobalEntry)
         /\ \A f \in Bodies : d[f] \in BodyTexts
         /\ \A f \in Scripts : d[f] \in ScriptTexts
  BY FilesAre DEF IsDisk, Fits

LEMMA DiskTakes ==
  ASSUME NEW d, IsDisk(d), NEW f \in Files, NEW v, Fits(f, v)
  PROVE  /\ IsDisk([d EXCEPT ![f] = v]) /\ [d EXCEPT ![f] = v][f] = v
         /\ \A g \in Files \ {f} : [d EXCEPT ![f] = v][g] = d[g]
<1>1. d = [g \in Files |-> d[g]] /\ \A g \in Files : Fits(g, d[g])
  BY DEF IsDisk
<1> DEFINE e == [d EXCEPT ![f] = v]
<1>2. e = [g \in Files |-> e[g]] /\ e[f] = v /\ \A g \in Files \ {f} : e[g] = d[g]
  BY <1>1
<1> HIDE DEF e
<1>3. \A g \in Files : Fits(g, e[g])
  BY <1>1, <1>2
<1>4. IsDisk(e)
  BY <1>2, <1>3 DEF IsDisk
<1> QED
  BY <1>2, <1>4 DEF e

LEMMA RuntimeFits == ASSUME NEW v PROVE Fits(Runtime, v)
  BY FilesDiffer, KindsDiffer DEF Fits

\* Two disks with the same files are the same disk.
LEMMA SameDisk ==
  ASSUME NEW d, NEW e, IsDisk(d), IsDisk(e), \A f \in Files : d[f] = e[f]
  PROVE  d = e
<1>1. d = [f \in Files |-> d[f]] /\ e = [f \in Files |-> e[f]]
  BY DEF IsDisk
<1>2. [f \in Files |-> d[f]] = [f \in Files |-> e[f]]
  OBVIOUS
<1> QED
  BY <1>1, <1>2

(********************************* an index **********************************)

LEMMA IndexIs ==
  ASSUME NEW x \in GoodIndexes
  PROVE  /\ x \in Seq(IndexEntry) /\ Len(x) \in Nat /\ DOMAIN x = 1 .. Len(x)
         /\ \A i \in 1 .. Len(x) :
              /\ x[i] \in IndexEntry
              /\ x[i].id \in Ids /\ x[i].url \in Urls \cup {Local} /\ x[i].current \in BOOLEAN
              /\ x[i].enhs \in Seq([eid : Eids, on : BOOLEAN])
         /\ \A i, j \in 1 .. Len(x) : x[i].id = x[j].id => i = j
         /\ x # <<>> => \E i \in 1 .. Len(x) : \A j \in 1 .. Len(x) : x[j].current <=> j = i
<1>1. x \in Seq(IndexEntry) /\ Len(x) \in Nat /\ DOMAIN x = 1 .. Len(x)
      /\ \A i \in 1 .. Len(x) : x[i] \in IndexEntry
  BY DEF GoodIndexes
<1>2. \A i \in 1 .. Len(x) :
        /\ x[i].id \in Ids /\ x[i].url \in Urls \cup {Local} /\ x[i].current \in BOOLEAN
        /\ x[i].enhs \in Seq([eid : Eids, on : BOOLEAN])
  BY <1>1 DEF IndexEntry
<1>3. /\ \A i, j \in DOMAIN x : x[i].id = x[j].id => i = j
      /\ OneIsCurrent(x)
  BY DEF GoodIndexes
<1>4. x # <<>> => \E i \in DOMAIN x : \A j \in DOMAIN x : x[j].current <=> j = i
  BY <1>3 DEF OneIsCurrent
<1> QED
  BY <1>1, <1>2, <1>3, <1>4

\* What makes a sequence of profiles an index.
LEMMA IndexMake ==
  ASSUME NEW x \in Seq(IndexEntry),
         \A i, j \in 1 .. Len(x) : x[i].id = x[j].id => i = j,
         x # <<>> => \E i \in 1 .. Len(x) : \A j \in 1 .. Len(x) : x[j].current <=> j = i
  PROVE  x \in GoodIndexes
<1>1. DOMAIN x = 1 .. Len(x)
  OBVIOUS
<1>2. OneIsCurrent(x)
  BY <1>1 DEF OneIsCurrent
<1> QED
  BY <1>1, <1>2 DEF GoodIndexes

LEMMA SlotIs ==
  ASSUME NEW x \in GoodIndexes, NEW id, Has(x, id)
  PROVE  /\ Slot(x, id) \in 1 .. Len(x) /\ x[Slot(x, id)].id = id /\ x # <<>> /\ id \in Ids
         /\ \A i \in 1 .. Len(x) : x[i].id = id => i = Slot(x, id)
<1>1. DOMAIN x = 1 .. Len(x) /\ \A i, j \in 1 .. Len(x) : x[i].id = x[j].id => i = j
  BY IndexIs
<1>2. \E i \in DOMAIN x : x[i].id = id
  BY DEF Has
<1>3. Slot(x, id) \in DOMAIN x /\ x[Slot(x, id)].id = id
  BY <1>2 DEF Slot
<1>4. x[Slot(x, id)].id \in Ids /\ x # <<>>
  BY <1>1, <1>3, IndexIs
<1> QED
  BY <1>1, <1>3, <1>4

\* The marked profile is the current one.
LEMMA CurrentIs ==
  ASSUME NEW x \in GoodIndexes, NEW i \in 1 .. Len(x), x[i].current
  PROVE  HasCurrent(x) /\ CurrentOf(x) = x[i]
<1>1. DOMAIN x = 1 .. Len(x) /\ Len(x) \in Nat
  BY IndexIs
<1>0. x # <<>>
  OBVIOUS
<1>2. PICK k \in 1 .. Len(x) : \A j \in 1 .. Len(x) : x[j].current <=> j = k
  BY <1>0, IndexIs
<1>3. i = k
  BY <1>2
<1> DEFINE P(n) == n \in DOMAIN x /\ x[n].current /\ \A j \in 1 .. n - 1 : ~x[j].current
<1>4. P(i)
  BY <1>1, <1>2, <1>3
<1>5. \A n : P(n) => n = i
  BY <1>1, <1>2, <1>3
<1>6. (CHOOSE n \in DOMAIN x : x[n].current /\ \A j \in 1 .. n - 1 : ~x[j].current) = i
  <2> DEFINE c == CHOOSE n \in DOMAIN x : x[n].current /\ \A j \in 1 .. n - 1 : ~x[j].current
  <2>1. P(c)
    BY <1>4
  <2> HIDE DEF c
  <2>2. c = i
    BY <2>1, <1>5
  <2> QED
    BY <2>2 DEF c
<1> QED
  BY <1>1, <1>6 DEF HasCurrent, CurrentOf

LEMMA HasCurrentIs ==
  ASSUME NEW x \in GoodIndexes
  PROVE  /\ HasCurrent(x) <=> x # <<>>
         /\ HasCurrent(x) => \E i \in 1 .. Len(x) : x[i].current /\ CurrentOf(x) = x[i]
<1>1. ASSUME x # <<>> PROVE \E i \in 1 .. Len(x) : x[i].current
  BY <1>1, IndexIs
<1>2. HasCurrent(x) => x # <<>>
  BY DEF HasCurrent
<1> QED
  BY <1>1, <1>2, CurrentIs

LEMMA SameCurrentIf ==
  ASSUME NEW x \in GoodIndexes, NEW y \in GoodIndexes,
         NEW i \in 1 .. Len(x), NEW j \in 1 .. Len(y), x[i].current, y[j].current,
         x[i].id = y[j].id, x[i].enhs = y[j].enhs,
         NEW op, op # "update_meta" => x[i].name = y[j].name
  PROVE  SameCurrent(x, y, op)
  BY CurrentIs DEF SameCurrent

LEMMA SameCurrentItself == ASSUME NEW x, NEW op PROVE SameCurrent(x, x, op)
  BY DEF SameCurrent

(**************************** plans that are safe ****************************)

LEMMA NamesAre ==
  /\ \A x, id : Names(Index, x, Body(id)) <=> \E i \in DOMAIN x : x[i].id = id
  /\ \A x, p, e : Names(Index, x, Script(p, e)) <=>
       \E i \in DOMAIN x : x[i].id = p /\ \E j \in DOMAIN x[i].enhs : x[i].enhs[j].eid = e
  /\ \A x, id : ~Names(GlobalIndex, x, Body(id))
  /\ \A x, p, e : Names(GlobalIndex, x, Script(p, e)) <=> p = Global /\ \E j \in DOMAIN x : x[j].eid = e
<1>1. \A x, id : Names(Index, x, Body(id)) <=> \E i \in DOMAIN x : x[i].id = id
  BY FilesDiffer DEF Names
<1>2. \A x, p, e : Names(Index, x, Script(p, e)) <=>
       \E i \in DOMAIN x : x[i].id = p /\ \E j \in DOMAIN x[i].enhs : x[i].enhs[j].eid = e
  BY FilesDiffer DEF Names
<1>3. \A x, id : ~Names(GlobalIndex, x, Body(id))
  BY FilesDiffer DEF Names
<1>4. \A x, p, e : Names(GlobalIndex, x, Script(p, e)) <=> p = Global /\ \E j \in DOMAIN x : x[j].eid = e
  BY FilesDiffer DEF Names
<1> QED
  BY <1>1, <1>2, <1>3, <1>4

\* One write of a plan, seen from a disk on which the plan is still safe.
IsWrite(d, e, s) ==
  /\ \A f \in Files : e[f] = IF f = s.file THEN s.to ELSE d[f]
  /\ s \in Steps

LEMMA WriteIs ==
  ASSUME NEW d, IsDisk(d), NEW s \in Steps
  PROVE  /\ IsDisk([d EXCEPT ![s.file] = s.to]) /\ IsWrite(d, [d EXCEPT ![s.file] = s.to], s)
         /\ s.file \in Files /\ s.file # Runtime /\ Fits(s.file, s.to)
<1>1. s.file \in Files /\ s.file # Runtime /\ Fits(s.file, s.to)
  BY DEF Steps
<1> QED
  BY <1>1, DiskTakes DEF IsWrite

\* A step of a safe plan leaves the named files in place.
LEMMA SafeKeepsIntact ==
  ASSUME NEW F \in {Bodies, Scripts}, NEW d, NEW e, NEW steps \in Seq(Steps), steps # <<>>,
         IsWrite(d, e, Head(steps)), Safe(steps, d, F), Intact(d, F)
  PROVE  Intact(e, F)
<1> DEFINE s == Head(steps)
<1>1. s = steps[1] /\ 1 \in DOMAIN steps /\ DOMAIN steps = 1 .. Len(steps) /\ Len(steps) \in Nat
  BY TailIs
<1>2. \A f \in F : f \in Files /\ f \notin Lists
  BY FilesAre, KindsDiffer DEF Lists
<1>3. Lists \subseteq Files
  BY FilesAre DEF Lists
<1> SUFFICES ASSUME NEW l \in Lists, NEW f \in F, Names(l, e[l], f) PROVE e[f] # None
  BY DEF Intact
<1> HIDE DEF s
<1>4. ~ \E k \in DOMAIN steps : k < 1
  BY <1>1
<1>5. e[l] = (IF l = s.file THEN s.to ELSE d[l]) /\ e[f] = IF f = s.file THEN s.to ELSE d[f]
  BY <1>2, <1>3 DEF IsWrite, s
<1>6. CASE l = s.file
  <2>1. Names(l, steps[1].to, f) /\ steps[1].file \in Lists /\ steps[1].file = l
    BY <1>1, <1>5, <1>6
  <2>2. d[f] # None
    BY <1>1, <1>4, <2>1 DEF Safe
  <2> QED
    BY <1>2, <1>5, <1>6, <2>2
<1>7. CASE l # s.file
  <2>1. d[f] # None /\ Names(l, d[l], f)
    BY <1>5, <1>7 DEF Intact
  <2>2. CASE f = s.file /\ s.to = None
    <3>1. Removes(steps[1], f)
      BY <1>1, <2>2 DEF Removes
    <3>2. /\ \A k \in DOMAIN steps : steps[k].file = l => k < 1
          /\ (\A k \in DOMAIN steps : steps[k].file # l) => ~Names(l, d[l], f)
      BY <1>1, <3>1 DEF Safe
    <3> QED
      BY <1>4, <2>1, <3>2
  <2> QED
    BY <1>5, <2>1, <2>2
<1> QED
  BY <1>6, <1>7

LEMMA TailSteps ==
  ASSUME NEW steps \in Seq(Steps), steps # <<>>
  PROVE  /\ Head(steps) = steps[1] /\ 1 \in DOMAIN steps /\ Head(steps) \in Steps
         /\ Tail(steps) \in Seq(Steps)
         /\ \A i \in DOMAIN Tail(steps) :
              i \in Nat /\ i + 1 \in DOMAIN steps /\ Tail(steps)[i] = steps[i + 1] /\ i # 0
         /\ \A i \in DOMAIN steps : i \in Nat
         /\ \A i \in DOMAIN steps : i # 1 => i - 1 \in DOMAIN Tail(steps) /\ Tail(steps)[i - 1] = steps[i]
<1>1. DOMAIN steps = 1 .. Len(steps) /\ Len(steps) \in Nat
  OBVIOUS
<1> DEFINE t == Tail(steps)
<1>2. DOMAIN t = 1 .. Len(t) /\ Len(t) = Len(steps) - 1
  BY TailIs
<1>3. \A i \in 1 .. Len(steps) - 1 : t[i] = steps[i + 1]
  BY TailIs
<1>4. Head(steps) = steps[1] /\ Head(steps) \in Steps /\ t \in Seq(Steps) /\ 1 \in 1 .. Len(steps)
  BY TailIs
<1> HIDE DEF t
<1>5. \A i \in DOMAIN t : i \in Nat /\ i + 1 \in DOMAIN steps /\ t[i] = steps[i + 1] /\ i # 0
  BY <1>1, <1>2, <1>3
<1>6. \A i \in DOMAIN steps : i # 1 => i - 1 \in DOMAIN t /\ t[i - 1] = steps[i]
  BY <1>1, <1>2, <1>3
<1> QED
  BY <1>1, <1>4, <1>5, <1>6 DEF t

\* After its first step the rest of a safe plan is safe.
LEMMA SafeGoesOn ==
  ASSUME NEW F \in {Bodies, Scripts}, NEW d, NEW e, NEW steps \in Seq(Steps), steps # <<>>,
         IsWrite(d, e, Head(steps)), Safe(steps, d, F)
  PROVE  Safe(Tail(steps), e, F)
<1> DEFINE s == Head(steps)
           t == Tail(steps)
<1>1. /\ s = steps[1] /\ 1 \in DOMAIN steps
      /\ \A i \in DOMAIN t : i \in Nat /\ i + 1 \in DOMAIN steps /\ t[i] = steps[i + 1] /\ i # 0
      /\ \A i \in DOMAIN steps : i \in Nat
      /\ \A i \in DOMAIN steps : i # 1 => i - 1 \in DOMAIN t /\ t[i - 1] = steps[i]
  BY TailSteps
<1>2. \A f \in F : f \in Files
  BY FilesAre
<1>3. Lists \subseteq Files
  BY FilesAre DEF Lists
<1>4. \A f \in Files : e[f] = IF f = s.file THEN s.to ELSE d[f]
  BY DEF IsWrite
<1> HIDE DEF s, t
<1>5. ASSUME NEW i \in DOMAIN t, t[i].file \in Lists, NEW f \in F, Names(t[i].file, t[i].to, f)
      PROVE  e[f] # None \/ \E k \in DOMAIN t : k < i /\ Puts(t[k], f)
  <2>1. d[f] # None \/ \E k \in DOMAIN steps : k < i + 1 /\ Puts(steps[k], f)
    BY <1>1, <1>5 DEF Safe
  <2>2. CASE d[f] # None
    <3>1. CASE s.file = f /\ s.to = None
      <4>1. Removes(steps[1], f)
        BY <1>1, <3>1 DEF Removes
      <4>2. \A k \in DOMAIN steps : steps[k].file = t[i].file => k < 1
        BY <1>1, <1>5, <4>1 DEF Safe
      <4>3. i + 1 < 1
        BY <1>1, <4>2
      <4> QED
        BY <1>1, <4>3
    <3> QED
      BY <1>2, <1>4, <2>2, <3>1
  <2>3. CASE \E k \in DOMAIN steps : k < i + 1 /\ Puts(steps[k], f)
    <3>1. PICK k \in DOMAIN steps : k < i + 1 /\ Puts(steps[k], f)
      BY <2>3
    <3>2. CASE k = 1
      BY <1>1, <1>2, <1>4, <3>1, <3>2 DEF Puts
    <3>3. CASE k # 1
      <4>1. k - 1 \in DOMAIN t /\ t[k - 1] = steps[k] /\ k - 1 < i
        BY <1>1, <3>1, <3>3
      <4> QED
        BY <3>1, <4>1
    <3> QED
      BY <3>2, <3>3
  <2> QED
    BY <2>1, <2>2, <2>3
<1>6. ASSUME NEW i \in DOMAIN t, NEW f \in F, Removes(t[i], f), NEW l \in Lists
      PROVE  /\ \A k \in DOMAIN t : t[k].file = l => k < i /\ ~Names(l, t[k].to, f)
             /\ (\A k \in DOMAIN t : t[k].file # l) => ~Names(l, e[l], f)
  <2>1. /\ \A k \in DOMAIN steps : steps[k].file = l => k < i + 1 /\ ~Names(l, steps[k].to, f)
        /\ (\A k \in DOMAIN steps : steps[k].file # l) => ~Names(l, d[l], f)
    <3>1. i + 1 \in DOMAIN steps /\ Removes(steps[i + 1], f)
      BY <1>1, <1>6
    <3> QED
      BY <3>1 DEF Safe
  <2>2. ASSUME NEW k \in DOMAIN t, t[k].file = l PROVE k < i /\ ~Names(l, t[k].to, f)
    <3>1. k + 1 \in DOMAIN steps /\ steps[k + 1] = t[k] /\ k \in Nat /\ i \in Nat
      BY <1>1
    <3>2. k + 1 < i + 1 /\ ~Names(l, t[k].to, f)
      BY <2>1, <2>2, <3>1
    <3> QED
      BY <3>1, <3>2
  <2>3. ASSUME \A k \in DOMAIN t : t[k].file # l PROVE ~Names(l, e[l], f)
    <3>1. CASE s.file = l
      BY <1>1, <1>3, <1>4, <2>1, <3>1
    <3>2. CASE s.file # l
      <4>1. \A k \in DOMAIN steps : steps[k].file # l
        <5> SUFFICES ASSUME NEW k \in DOMAIN steps PROVE steps[k].file # l
          OBVIOUS
        <5> QED
          BY <1>1, <2>3, <3>2
      <4> QED
        BY <1>3, <1>4, <2>1, <3>2, <4>1
    <3> QED
      BY <3>1, <3>2
  <2> QED
    BY <2>2, <2>3
<1>7. Safe(t, e, F)
  BY <1>5, <1>6 DEF Safe
<1> QED
  BY <1>7 DEF t

\* The list a plan leaves.
Ends(l, steps, d, f) ==
  IF \E k \in DOMAIN steps : steps[k].file = l
  THEN \E k \in DOMAIN steps : steps[k].file = l /\ Names(l, steps[k].to, f)
  ELSE Names(l, d[l], f)

LEMMA EndIs ==
  ASSUME NEW F, NEW d, NEW steps
  PROVE  InTheEnd(steps, d, F) <=>
           \A l \in Lists, f \in F : Ends(l, steps, d, f) =>
             d[f] # None /\ \A k \in DOMAIN steps : ~Removes(steps[k], f)
  BY DEF InTheEnd, Ends

\* After its first step the rest of a plan still ends well.
LEMMA EndGoesOn ==
  ASSUME NEW F \in {Bodies, Scripts}, NEW d, NEW e, NEW steps \in Seq(Steps), steps # <<>>,
         IsWrite(d, e, Head(steps)), InTheEnd(steps, d, F)
  PROVE  InTheEnd(Tail(steps), e, F)
<1> DEFINE s == Head(steps)
           t == Tail(steps)
<1>1. /\ s = steps[1] /\ 1 \in DOMAIN steps
      /\ \A i \in DOMAIN t : i \in Nat /\ i + 1 \in DOMAIN steps /\ t[i] = steps[i + 1] /\ i # 0
      /\ \A i \in DOMAIN steps : i # 1 => i - 1 \in DOMAIN t /\ t[i - 1] = steps[i]
  BY TailSteps
<1>2. \A f \in F : f \in Files
  BY FilesAre
<1>3. Lists \subseteq Files
  BY FilesAre DEF Lists
<1>4. \A f \in Files : e[f] = IF f = s.file THEN s.to ELSE d[f]
  BY DEF IsWrite
<1> HIDE DEF s, t
<1>5. ASSUME NEW l \in Lists, NEW f \in F, Ends(l, t, e, f)
      PROVE  e[f] # None /\ \A k \in DOMAIN t : ~Removes(t[k], f)
  <2>1. Ends(l, steps, d, f)
    <3>1. CASE \E k \in DOMAIN t : t[k].file = l
      <4>1. PICK k \in DOMAIN t : t[k].file = l /\ Names(l, t[k].to, f)
        BY <1>5, <3>1 DEF Ends
      <4>2. k + 1 \in DOMAIN steps /\ steps[k + 1].file = l /\ Names(l, steps[k + 1].to, f)
        BY <1>1, <4>1
      <4> QED
        BY <4>2 DEF Ends
    <3>2. CASE s.file = l /\ ~ \E k \in DOMAIN t : t[k].file = l
      <4>1. Names(l, e[l], f) /\ e[l] = s.to
        BY <1>3, <1>4, <1>5, <3>2 DEF Ends
      <4>2. steps[1].file = l /\ Names(l, steps[1].to, f)
        BY <1>1, <3>2, <4>1
      <4> QED
        BY <1>1, <4>2 DEF Ends
    <3>3. CASE s.file # l /\ ~ \E k \in DOMAIN t : t[k].file = l
      <4>1. Names(l, e[l], f) /\ e[l] = d[l]
        BY <1>3, <1>4, <1>5, <3>3 DEF Ends
      <4>2. ~ \E k \in DOMAIN steps : steps[k].file = l
        <5> SUFFICES ASSUME NEW k \in DOMAIN steps PROVE steps[k].file # l
          OBVIOUS
        <5> QED
          BY <1>1, <3>3
      <4> QED
        BY <4>1, <4>2 DEF Ends
    <3> QED
      BY <3>1, <3>2, <3>3
  <2>2. d[f] # None /\ \A k \in DOMAIN steps : ~Removes(steps[k], f)
    BY <2>1, EndIs
  <2>3. e[f] # None
    <3>1. ~(steps[1].file = f /\ steps[1].to = None)
      BY <1>1, <2>2 DEF Removes
    <3> QED
      BY <1>1, <1>2, <1>4, <2>2, <3>1
  <2>4. \A k \in DOMAIN t : ~Removes(t[k], f)
    BY <1>1, <2>2
  <2> QED
    BY <2>3, <2>4
<1>6. InTheEnd(t, e, F)
  BY <1>5, EndIs
<1> QED
  BY <1>6 DEF t

LEMMA EndIsIntact ==
  ASSUME NEW F, NEW d, InTheEnd(<<>>, d, F)
  PROVE  Intact(d, F)
  BY DEF InTheEnd, Intact

(********************************** a build **********************************)

Entry == [eid : Eids, on : BOOLEAN]
Item  == [pid : Pids, eid : Eids, on : BOOLEAN]

LEMMA ItemsAre ==
  ASSUME NEW pid \in Pids, NEW entries \in Seq(Entry)
  PROVE  /\ Items(pid, entries) \in Seq(Item) /\ Len(Items(pid, entries)) = Len(entries)
         /\ \A i \in 1 .. Len(entries) :
              Items(pid, entries)[i].pid = pid /\ Items(pid, entries)[i].eid \in Eids
<1>1. Len(entries) \in Nat /\ DOMAIN entries = 1 .. Len(entries)
      /\ \A i \in 1 .. Len(entries) : entries[i] \in Entry
  OBVIOUS
<1>2. \A i \in 1 .. Len(entries) : entries[i].eid \in Eids /\ entries[i].on \in BOOLEAN
  BY <1>1 DEF Entry
<1> DEFINE r == [i \in 1 .. Len(entries) |-> [pid |-> pid, eid |-> entries[i].eid, on |-> entries[i].on]]
<1>3. \A i \in 1 .. Len(entries) : r[i] \in Item /\ r[i].pid = pid /\ r[i].eid \in Eids
  BY <1>2 DEF Item
<1>4. r \in Seq(Item) /\ Len(r) = Len(entries)
  BY <1>1, <1>3
<1>5. r = Items(pid, entries)
  BY <1>1 DEF Items
<1> HIDE DEF r
<1> QED
  BY <1>3, <1>4, <1>5

LEMMA ConcatIs ==
  ASSUME NEW X, NEW s \in Seq(X), NEW t \in Seq(X)
  PROVE  /\ s \o t \in Seq(X) /\ Len(s \o t) = Len(s) + Len(t)
         /\ Len(s) \in Nat /\ Len(t) \in Nat
         /\ \A i \in 1 .. Len(s) : (s \o t)[i] = s[i] /\ i \in 1 .. Len(s \o t)
         /\ \A i \in 1 .. Len(t) : (s \o t)[Len(s) + i] = t[i] /\ Len(s) + i \in 1 .. Len(s \o t)
         /\ \A i \in 1 .. Len(s \o t) : i \in 1 .. Len(s) \/ (i - Len(s)) \in 1 .. Len(t)
         /\ \A i \in 1 .. Len(s \o t) : i \notin 1 .. Len(s) => (s \o t)[i] = t[i - Len(s)]
  OBVIOUS

LEMMA ChainFrom ==
  ASSUME NEW items \in Seq(Item)
  PROVE  /\ Chain(items) \in Seq(Item)
         /\ \A i \in 1 .. Len(Chain(items)) : \E k \in 1 .. Len(items) : Chain(items)[i] = items[k]
<1> DEFINE a == Only(items, [pid : Pids, eid : Enhs, on : {TRUE}])
           b == Only(items, [pid : Pids, eid : {Prune}, on : {TRUE}])
<1>1. a \in Seq(Item) /\ \A i \in 1 .. Len(a) : \E k \in 1 .. Len(items) : a[i] = items[k]
  <2> DEFINE S == [pid : Pids, eid : Enhs, on : {TRUE}]
  <2> HIDE DEF S
  <2>1. Only(items, S) \in Seq(Item) /\ \E h : Picks(h, Only(items, S), items, S, Len(items))
    BY OnlyPicks
  <2>2. \A i \in 1 .. Len(Only(items, S)) : \E k \in 1 .. Len(items) : Only(items, S)[i] = items[k]
    BY <2>1 DEF Picks
  <2> QED
    BY <2>1, <2>2 DEF S
<1>2. b \in Seq(Item) /\ \A i \in 1 .. Len(b) : \E k \in 1 .. Len(items) : b[i] = items[k]
  <2> DEFINE S == [pid : Pids, eid : {Prune}, on : {TRUE}]
  <2> HIDE DEF S
  <2>1. Only(items, S) \in Seq(Item) /\ \E h : Picks(h, Only(items, S), items, S, Len(items))
    BY OnlyPicks
  <2>2. \A i \in 1 .. Len(Only(items, S)) : \E k \in 1 .. Len(items) : Only(items, S)[i] = items[k]
    BY <2>1 DEF Picks
  <2> QED
    BY <2>1, <2>2 DEF S
<1>3. Chain(items) = a \o b
  BY DEF Chain
<1> HIDE DEF a, b
<1> DEFINE Y == {items[k] : k \in 1 .. Len(items)}
<1>4. Y \subseteq Item
  OBVIOUS
<1>5. a \in Seq(Y)
  BY <1>1
<1>6. b \in Seq(Y)
  BY <1>2
<1>7. a \o b \in Seq(Y)
  <2> HIDE DEF Y
  <2> QED
    BY <1>5, <1>6
<1>8. Chain(items) \in Seq(Y)
  BY <1>3, <1>7
<1>9. \A i \in 1 .. Len(Chain(items)) : Chain(items)[i] \in Y
  <2> HIDE DEF Y
  <2> QED
    BY <1>8
<1>10. Chain(items) \in Seq(Item)
  <2> HIDE DEF Y
  <2> QED
    BY <1>4, <1>8
<1> QED
  BY <1>9, <1>10

LEMMA SameTexts ==
  ASSUME NEW d, NEW e, NEW items \in Seq(Item),
         \A i \in 1 .. Len(items) :
            d[Script(items[i].pid, items[i].eid)] = e[Script(items[i].pid, items[i].eid)]
  PROVE  Texts(d, items) = Texts(e, items)
<1> DEFINE c == Chain(items)
<1>1. c \in Seq(Item) /\ \A i \in 1 .. Len(c) : \E k \in 1 .. Len(items) : c[i] = items[k]
  BY ChainFrom
<1>2. DOMAIN c = 1 .. Len(c)
  BY <1>1
<1>3. Texts(d, items) = [i \in DOMAIN c |-> d[Script(c[i].pid, c[i].eid)]]
  BY DEF Texts
<1>5. Texts(e, items) = [i \in DOMAIN c |-> e[Script(c[i].pid, c[i].eid)]]
  BY DEF Texts
<1> HIDE DEF c
<1>4. \A i \in DOMAIN c : d[Script(c[i].pid, c[i].eid)] = e[Script(c[i].pid, c[i].eid)]
  BY <1>1, <1>2
<1>6. [i \in DOMAIN c |-> d[Script(c[i].pid, c[i].eid)]]
        = [i \in DOMAIN c |-> e[Script(c[i].pid, c[i].eid)]]
  BY <1>4
<1> QED
  BY <1>3, <1>5, <1>6

LEMMA GlobalItems ==
  ASSUME NEW d, IsDisk(d)
  PROVE  d[GlobalIndex] \in Seq(Entry)
<1>1. d[GlobalIndex] \in Seq(GlobalEntry)
  BY DiskHolds
<1>2. GlobalEntry \subseteq Entry
  BY DEF GlobalEntry, Entry, Eids
<1> QED
  BY <1>1, <1>2

\* Two disks that agree on what a build reads have the same texts.
LEMMA SameSourcesSameTexts ==
  ASSUME NEW d, NEW e, IsDisk(d), IsDisk(e), NEW op, SameSources(d, e, op)
  PROVE  Sources(d, d[Index]) = Sources(e, e[Index])
<1> DEFINE x == d[Index]
           y == e[Index]
           global == Items(Global, d[GlobalIndex])
<1>1. SameCurrent(x, y, op) /\ d[GlobalIndex] = e[GlobalIndex]
      /\ \A f \in Files : Feeds(f, x) => d[f] = e[f]
  BY DEF SameSources
<1>2. /\ global \in Seq(Item)
      /\ \A i \in 1 .. Len(global) : global[i].pid = Global /\ global[i].eid \in Eids
  BY GlobalItems, ItemsAre DEF Pids
<1>3. Global \in Pids /\ \A eid \in Eids : Script(Global, eid) \in Files
  BY FilesAre DEF Pids
<1>5. \A i \in 1 .. Len(global) :
        d[Script(global[i].pid, global[i].eid)] = e[Script(global[i].pid, global[i].eid)]
  BY <1>1, <1>2, <1>3 DEF Feeds
<1>6. CASE ~HasCurrent(x)
  <2>1. ~HasCurrent(y)
    BY <1>1, <1>6 DEF SameCurrent
  <2>2. Sources(d, x) = Texts(d, global) /\ Sources(e, y) = Texts(e, global)
    BY <1>1, <1>6, <2>1 DEF Sources
  <2>3. Texts(d, global) = Texts(e, global)
    BY <1>2, <1>5, SameTexts
  <2> QED
    BY <2>2, <2>3
<1>7. CASE HasCurrent(x)
  <2> DEFINE p == CurrentOf(x)
             own == Items(p.id, p.enhs)
             items == own \o global
  <2>1. HasCurrent(y) /\ CurrentOf(y).id = p.id /\ CurrentOf(y).enhs = p.enhs
    BY <1>1, <1>7 DEF SameCurrent
  <2>2. PICK k \in 1 .. Len(x) : x[k].current /\ p = x[k]
    BY <1>7, DiskHolds, HasCurrentIs
  <2>3. p.id \in Ids /\ p.enhs \in Seq(Entry)
    BY <2>2, DiskHolds, IndexIs DEF Entry
  <2>4. Sources(d, x) = <<d[Body(p.id)]>> \o Texts(d, items)
        /\ Sources(e, y) = <<e[Body(p.id)]>> \o Texts(e, items)
    BY <1>1, <1>7, <2>1 DEF Sources
  <2>5. d[Body(p.id)] = e[Body(p.id)]
    BY <1>1, <1>7, <2>3, FilesAre DEF Feeds
  <2>6. own \in Seq(Item) /\ \A i \in 1 .. Len(own) : own[i].pid = p.id /\ own[i].eid \in Eids
    BY <2>3, ItemsAre DEF Pids
  <2>8. \A eid \in Eids : d[Script(p.id, eid)] = e[Script(p.id, eid)]
    BY <1>1, <1>7, <2>3, FilesAre DEF Feeds, Pids
  <2>9. \A i \in 1 .. Len(own) : d[Script(own[i].pid, own[i].eid)] = e[Script(own[i].pid, own[i].eid)]
    BY <2>6, <2>8
  <2> HIDE DEF own
  <2> HIDE DEF global
  <2>10. /\ items \in Seq(Item)
         /\ \A i \in 1 .. Len(items) : i \in 1 .. Len(own) \/ (i - Len(own)) \in 1 .. Len(global)
         /\ \A i \in 1 .. Len(items) : i \notin 1 .. Len(own) => items[i] = global[i - Len(own)]
         /\ \A i \in 1 .. Len(own) : items[i] = own[i]
    BY <1>2, <2>6, ConcatIs
  <2> HIDE DEF items, p
  <2>11. \A i \in 1 .. Len(items) :
          d[Script(items[i].pid, items[i].eid)] = e[Script(items[i].pid, items[i].eid)]
    BY <1>5, <2>9, <2>10
  <2>12. Texts(d, items) = Texts(e, items)
    BY <2>10, <2>11, SameTexts
  <2> QED
    BY <2>4, <2>5, <2>12
<1> QED
  BY <1>6, <1>7

\* The current profile goes by the same name.
SameName(x, y) == HasCurrent(x) => CurrentOf(x).name = CurrentOf(y).name

\* They give the same build if it does.
LEMMA SameSourcesSameBuild ==
  ASSUME NEW d, NEW e, IsDisk(d), IsDisk(e), NEW op, SameSources(d, e, op),
         op = "update_meta" => SameName(d[Index], e[Index])
  PROVE  Build(d) = Build(e)
<1>1. Sources(d, d[Index]) = Sources(e, e[Index])
  BY SameSourcesSameTexts
<1>2. HasCurrent(d[Index]) <=> HasCurrent(e[Index])
  BY DEF SameSources, SameCurrent
<1>3. SameName(d[Index], e[Index])
  BY DEF SameSources, SameCurrent, SameName
<1>4. HandedName(d, d[Index]) = HandedName(e, e[Index])
  BY <1>1, <1>2, <1>3 DEF HandedName, SameName
<1> QED
  BY <1>1, <1>4 DEF Build

\* A build is made of the texts it reads.
LEMMA BuiltIsMadeOf == ASSUME NEW d, IsBuilt(d) PROVE MadeOf(d)
  BY DEF IsBuilt, MadeOf, Build

\* A build does not read runtime.yaml.
LEMMA RuntimeIsNoSource ==
  ASSUME NEW d, IsDisk(d), NEW v
  PROVE  /\ IsDisk([d EXCEPT ![Runtime] = v]) /\ Build([d EXCEPT ![Runtime] = v]) = Build(d)
         /\ [d EXCEPT ![Runtime] = v][Runtime] = v
         /\ \A f \in Files \ {Runtime} : [d EXCEPT ![Runtime] = v][f] = d[f]
         /\ \A F \in {Bodies, Scripts} : Intact(d, F) => Intact([d EXCEPT ![Runtime] = v], F)
<1> DEFINE e == [d EXCEPT ![Runtime] = v]
<1>1. IsDisk(e) /\ e[Runtime] = v /\ \A f \in Files \ {Runtime} : e[f] = d[f]
  BY RuntimeFits, DiskTakes, FilesAre
<1> HIDE DEF e
<1>2. ~Feeds(Runtime, d[Index])
  BY FilesDiffer DEF Feeds
<1>3. e[Index] = d[Index] /\ e[GlobalIndex] = d[GlobalIndex]
  BY <1>1, FilesDiffer, FilesAre
<1>4. SameSources(d, e, "none")
  BY <1>1, <1>2, <1>3, SameCurrentItself DEF SameSources
<1>5. Build(e) = Build(d)
  BY <1>1, <1>4, SameSourcesSameBuild
<1>6. ASSUME NEW F \in {Bodies, Scripts}, Intact(d, F) PROVE Intact(e, F)
  BY <1>1, <1>3, <1>6, FilesAre, KindsDiffer DEF Intact, Lists
<1> QED
  BY <1>1, <1>5, <1>6 DEF e

\* A step that spares the sources leaves the build as it was.
LEMMA SourcesSpared ==
  ASSUME NEW b, NEW d, NEW e, NEW s, NEW op, SameSources(b, d, op), Spares(s, b, op),
         IsWrite(d, e, s)
  PROVE  SameSources(b, e, op)
<1>1. \A f \in Files : e[f] = IF f = s.file THEN s.to ELSE d[f]
  BY DEF IsWrite
<1>2. SameCurrent(b[Index], e[Index], op)
  BY <1>1, FilesAre DEF SameSources, Spares
<1>3. e[GlobalIndex] = b[GlobalIndex]
  BY <1>1, FilesAre DEF SameSources, Spares
<1>4. \A f \in Files : Feeds(f, b[Index]) => b[f] = e[f]
  BY <1>1 DEF SameSources, Spares
<1> QED
  BY <1>2, <1>3, <1>4 DEF SameSources

(********************************* a command *********************************)

Same(n, c) ==
  /\ n.op = c.op /\ n.id = c.id /\ n.refused = c.refused /\ n.then = c.then
  /\ n.starts = c.starts /\ n.before = c.before

LEMMA CommandHolds ==
  ASSUME NEW c, IsCommand(c)
  PROVE  /\ c.op \in OpNames /\ c.id \in Pids \cup {None}
         /\ c.phase \in {"write", "build", "apply", "undo", "restore"}
         /\ c.steps \in Seq(Steps) /\ c.done \in Seq(Files) /\ c.refused \in BOOLEAN
         /\ c.then \in {"runtime", "nothing", "trial"} /\ c.starts \in BOOLEAN
         /\ c.left \in Seq(Files) /\ c.again \in BOOLEAN /\ c.errors \in BOOLEAN
         /\ c.reload \in BOOLEAN /\ IsDisk(c.before) /\ c # NoCommand
  BY DEF IsCommand, NoCommand

LEMMA IdleIs == NoCommand.phase = "idle" /\ NoCommand.op = "none"
  BY DEF NoCommand

LEMMA CommandIs ==
  ASSUME NEW op \in OpNames, NEW id \in Pids \cup {None}, NEW steps \in Seq(Steps),
         NEW refused \in BOOLEAN, NEW then \in {"runtime", "nothing", "trial"},
         NEW starts \in BOOLEAN, NEW captured \in Seq(Files), IsDisk(disk)
  PROVE  LET c == Command(op, id, steps, refused, then, starts, captured)
         IN  /\ IsCommand(c) /\ c.op = op /\ c.id = id /\ c.phase = "write" /\ c.steps = steps
             /\ c.done = captured /\ c.refused = refused /\ c.then = then /\ c.before = disk
<1> <<>> \in Seq(Files)
  OBVIOUS
<1> HIDE DEF OpNames
<1> QED
  BY DEF Command, IsCommand

\* The fields that a change of the others leaves alone.
SameMode(n, c) ==
  n.left = c.left /\ n.again = c.again /\ n.errors = c.errors /\ n.reload = c.reload
IsStepped(n, c, t, d) ==
  IsCommand(n) /\ Same(n, c) /\ SameMode(n, c) /\ n.phase = c.phase /\ n.steps = t /\ n.done = d
IsPhased(n, c, p) ==
  IsCommand(n) /\ Same(n, c) /\ SameMode(n, c) /\ n.phase = p /\ n.steps = c.steps /\ n.done = c.done
IsLeft(n, c, l, a, b) ==
  /\ IsCommand(n) /\ Same(n, c) /\ n.phase = c.phase /\ n.steps = c.steps /\ n.done = c.done
  /\ n.left = l /\ n.again = a /\ n.errors = b /\ n.reload = c.reload

LEMMA StepTaken ==
  ASSUME NEW c, IsCommand(c), NEW t \in Seq(Steps), NEW d \in Seq(Files)
  PROVE  IsStepped([c EXCEPT !.steps = t, !.done = d], c, t, d)
  BY DEF IsCommand, Same, SameMode, IsStepped

LEMMA PhaseTaken ==
  ASSUME NEW c, IsCommand(c), NEW p \in {"build", "apply", "restore"}
  PROVE  IsPhased([c EXCEPT !.phase = p], c, p)
  BY DEF IsCommand, Same, SameMode, IsPhased

LEMMA LeftTaken ==
  ASSUME NEW c, IsCommand(c), NEW l \in Seq(Files), NEW b \in BOOLEAN
  PROVE  /\ IsLeft([c EXCEPT !.left = l], c, l, c.again, c.errors)
         /\ IsLeft([c EXCEPT !.left = l, !.errors = b], c, l, c.again, b)
         /\ IsLeft([c EXCEPT !.left = l, !.again = TRUE, !.errors = b], c, l, TRUE, b)
  BY DEF IsCommand, Same, IsLeft

IsUndo(n, c, d) ==
  /\ IsCommand(n) /\ Same(n, c) /\ n.phase = "undo" /\ n.steps = c.steps /\ n.done = c.done
  /\ n.left \in Seq(Files) /\ ToSet(n.left) = ToSet(c.done)
  /\ (n.again <=> c.op = "startup") /\ n.errors = c.errors
  /\ (n.reload <=> d[Runtime] # c.before[Runtime])

LEMMA UndoIs ==
  ASSUME NEW c, IsCommand(c), NEW d
  PROVE  IsUndo(Undo(c, d), c, d)
<1> DEFINE n == Undo(c, d)
<1> DEFINE b == d[Runtime] # c.before[Runtime]
           a == (c.op = "startup")
           l == Reverse(c.done)
<1>1. l \in Seq(Files) /\ ToSet(l) = ToSet(c.done) /\ a \in BOOLEAN /\ b \in BOOLEAN
  BY CommandHolds, ReverseIs
<1>2. n = [c EXCEPT !.phase = "undo", !.left = l, !.again = a, !.reload = b]
  BY DEF Undo
<1> HIDE DEF a, b, l, n
<1>3. /\ IsCommand(n) /\ Same(n, c) /\ n.phase = "undo" /\ n.steps = c.steps /\ n.done = c.done
      /\ n.left = l /\ n.again = a /\ n.errors = c.errors /\ n.reload = b
  BY <1>1, <1>2 DEF IsCommand, Same
<1>4. (a <=> c.op = "startup") /\ (b <=> d[Runtime] # c.before[Runtime])
  BY DEF a, b
<1>5. IsUndo(n, c, d)
  BY <1>1, <1>2, <1>3, <1>4 DEF IsUndo
<1> QED
  BY <1>5 DEF n

(****************************** taking the lock ******************************)
Planned(c) ==
  /\ IsCommand(c) /\ c.phase = "write" /\ c.before = disk
  /\ \A i \in DOMAIN c.steps : c.steps[i].file \in Untracked => c.steps[i].file \in ToSet(c.done)
  /\ c.op # "startup" => Runtime \in ToSet(c.done)
  /\ c.op = "startup" => c.then = "runtime" /\ ~c.refused /\ core.state = "off" /\ ~settled
  /\ RollbacksEnded => Safe(c.steps, disk, Bodies)
  /\ torn = {} /\ c.op # "delete_enhancer" => Safe(c.steps, disk, Scripts)
  /\ torn = {} /\ c.op = "delete_enhancer" => InTheEnd(c.steps, disk, Scripts)
  /\ ~c.refused /\ c.then # "runtime" => \A i \in DOMAIN c.steps : Spares(c.steps[i], disk, c.op)
  /\ c.op = "update" /\ ~c.refused =>
       LET index == disk[Index]
           url   == index[Slot(index, c.id)].url
       IN  /\ c.id \in Ids /\ Has(index, c.id)
           /\ \A i \in DOMAIN c.steps : c.steps[i].file = Index => c.steps[i].to = index
           /\ \A i \in DOMAIN c.steps : c.steps[i].file = Body(c.id) => c.steps[i].to[1] = url
           /\ \E i \in DOMAIN c.steps : c.steps[i].file = Body(c.id)

\* A planned command takes the lock.
LEMMA BeginKeeps ==
  ASSUME Inv, cmd = NoCommand, NEW c, Planned(c), cmd' = c, alive' = TRUE,
         UNCHANGED <<disk, core, settled, renamed, reported, torn, mishaps>>,
         fetches' \subseteq fetches, editor' \in {editor, None}
  PROVE  Inv'
<1>0. /\ UNCHANGED disk /\ UNCHANGED core /\ UNCHANGED settled /\ UNCHANGED renamed /\ UNCHANGED reported
      /\ UNCHANGED torn /\ UNCHANGED mishaps
  OBVIOUS
<1>1. /\ StoreType /\ CommandType /\ Tracked /\ BodiesKept /\ ScriptsKept
      /\ CoreFollows /\ BuildFollows
  BY DEF Inv
<1>2. cmd.phase = "idle" /\ cmd.op = "none"
  BY IdleIs
<1>3. IsCommand(c) /\ c.phase = "write" /\ c.before = disk
  BY DEF Planned
<1>4. StoreType'
  BY <1>0, <1>1 DEF StoreType
<1>5. CommandType'
  BY <1>0, <1>1, <1>3 DEF CommandType, Planned
<1>6. Tracked'
  BY <1>0, <1>3 DEF Tracked, Planned
<1>7. BodiesKept'
  BY <1>0, <1>1, <1>2, <1>3 DEF BodiesKept, Kept, RollbacksEnded, Planned
<1>8. ScriptsKept'
  BY <1>0, <1>1, <1>2, <1>3 DEF ScriptsKept, Kept, Planned
<1>9. CoreFollows'
  BY <1>0, <1>1, <1>2, <1>3 DEF CoreFollows
<1>10. BuildFollows'
  <2>1. SameSources(disk, disk, c.op)
    BY SameCurrentItself DEF SameSources
  <2> QED
    BY <1>0, <1>1, <1>2, <1>3, <2>1 DEF BuildFollows, Planned
<1>11. UpdateFollows'
  BY <1>0, <1>3 DEF UpdateFollows, Planned
<1> QED
  BY <1>4, <1>5, <1>6, <1>7, <1>8, <1>9, <1>10, <1>11 DEF Inv

(*************************** a failing transaction ***************************)
\* A command that fails before or during its build starts its rollback.
LEMMA UndoKeeps ==
  ASSUME Inv, cmd.phase \in {"write", "build", "apply"},
         cmd.phase # "write" => cmd.op # "startup",
         NEW c, IsCommand(c), Same(c, cmd), ToSet(cmd.done) \subseteq ToSet(c.done), cmd' = Undo(c, disk),
         core' \in [state : {core.state}, config : {core.config, disk[Runtime]}],
         mishaps' \in 0 .. MaxMishaps,
         UNCHANGED <<disk, fetches, editor, alive, settled, renamed, reported, torn>>
  PROVE  Inv'
<1>0. /\ UNCHANGED disk /\ UNCHANGED fetches /\ UNCHANGED settled /\ UNCHANGED renamed /\ UNCHANGED reported
      /\ UNCHANGED torn /\ UNCHANGED editor /\ UNCHANGED alive
  OBVIOUS
<1>1. /\ StoreType /\ CommandType /\ Tracked /\ BodiesKept /\ ScriptsKept
      /\ CoreFollows /\ BuildFollows
  BY DEF Inv
<1>2. cmd # NoCommand /\ cmd.phase # "idle"
  BY IdleIs
<1> DEFINE n == Undo(c, disk)
<1>15. n = Undo(c, disk)
  OBVIOUS
<1>16. IsUndo(n, c, disk)
  BY UndoIs
<1> HIDE DEF n
<1>3. /\ IsCommand(n) /\ Same(n, cmd) /\ n.phase = "undo" /\ n.done = c.done
      /\ n.left \in Seq(Files) /\ ToSet(n.left) = ToSet(c.done)
      /\ (n.again <=> cmd.op = "startup")
      /\ (n.reload <=> disk[Runtime] # cmd.before[Runtime])
  BY <1>16 DEF IsUndo, Same
<1>4. cmd' = n /\ n # NoCommand
  BY <1>3, <1>15, IdleIs
<1>5. core'.state = core.state /\ core'.config \in {core.config, disk[Runtime]}
  OBVIOUS
<1>6. StoreType'
  <2>1. core' \in [state : {"off", "up", "relaunch"}, config : {core'.config}]
    BY <1>1 DEF StoreType
  <2> QED
    BY <1>0, <1>1, <2>1 DEF StoreType
<1>7. CommandType'
  BY <1>0, <1>1, <1>2, <1>3, <1>4, <1>5 DEF CommandType, Same
<1>8. Tracked'
  BY <1>0, <1>1, <1>3, <1>4 DEF Tracked, Same
<1>9. BodiesKept'
  BY <1>0, <1>1, <1>2, <1>3, <1>4 DEF BodiesKept, Kept, RollbacksEnded, Same
<1>10. ScriptsKept'
  BY <1>0, <1>1, <1>2, <1>3, <1>4 DEF ScriptsKept, Kept, Same
<1>11. CoreFollows'
  BY <1>0, <1>1, <1>3, <1>4, <1>5 DEF CoreFollows, Same
<1>12. BuildFollows'
  BY <1>0, <1>1, <1>2, <1>3, <1>4 DEF BuildFollows, Same
<1>13. UpdateFollows'
  BY <1>3, <1>4 DEF UpdateFollows
<1> QED
  BY <1>6, <1>7, <1>8, <1>9, <1>10, <1>11, <1>12, <1>13 DEF Inv

(************************** the steps of a command ***************************)

LEMMA MishapIs == ASSUME StoreType, Mishap PROVE mishaps' \in 0 .. MaxMishaps
  BY BoundsAreNaturals DEF StoreType, Mishap

LEMMA CoreIs ==
  ASSUME StoreType
  PROVE  core \in [state : {core.state}, config : {core.config, disk[Runtime]}]
  BY DEF StoreType

LEMMA WriteStepKeeps == ASSUME Inv, WriteStep PROVE Inv'
<1> DEFINE s == Head(cmd.steps)
           t == Tail(cmd.steps)
           d == IF s.file \in Untracked \cup ToSet(cmd.done) THEN cmd.done ELSE Append(cmd.done, s.file)
           c == [cmd EXCEPT !.steps = t, !.done = d]
           e == [disk EXCEPT ![s.file] = s.to]
<1>1. /\ StoreType /\ CommandType /\ Tracked /\ BodiesKept /\ ScriptsKept
      /\ CoreFollows /\ BuildFollows /\ UpdateFollows
  BY DEF Inv
<1>2. alive /\ cmd.phase = "write" /\ cmd.steps # <<>>
  BY DEF WriteStep
<1>3. IsCommand(cmd) /\ cmd # NoCommand
  BY <1>1, <1>2, IdleIs DEF CommandType
<1>4. cmd.steps \in Seq(Steps) /\ cmd.done \in Seq(Files) /\ IsDisk(cmd.before)
  BY <1>3, CommandHolds
<1>5. /\ s = cmd.steps[1] /\ 1 \in DOMAIN cmd.steps /\ s \in Steps /\ t \in Seq(Steps)
      /\ \A i \in DOMAIN t : i + 1 \in DOMAIN cmd.steps /\ t[i] = cmd.steps[i + 1]
      /\ \A i \in DOMAIN cmd.steps : i # 1 => i - 1 \in DOMAIN t /\ t[i - 1] = cmd.steps[i]
  BY <1>2, <1>4, TailSteps
<1>6. s.file \in Files /\ s.file # Runtime /\ IsWrite(disk, e, s) /\ IsDisk(e)
  BY <1>1, <1>5, WriteIs DEF StoreType
<1>7. /\ d \in Seq(Files) /\ ToSet(cmd.done) \subseteq ToSet(d)
      /\ s.file \in Untracked \/ s.file \in ToSet(d)
  BY <1>4, <1>6, ToSetOfAppend
<1>8. /\ IsCommand(c) /\ Same(c, cmd) /\ c.phase = cmd.phase /\ c.steps = t /\ c.done = d
      /\ c.left = cmd.left /\ c.again = cmd.again /\ c.errors = cmd.errors /\ c.reload = cmd.reload
  <2>1. IsStepped(c, cmd, t, d)
    BY <1>3, <1>5, <1>7, StepTaken
  <2> HIDE DEF c
  <2> QED
    BY <2>1 DEF IsStepped, SameMode
<1>9. /\ \/ disk' = e /\ cmd' = c /\ UNCHANGED mishaps
         \/ Mishap /\ cmd' = Undo(c, disk) /\ UNCHANGED disk
      /\ UNCHANGED core /\ UNCHANGED fetches /\ UNCHANGED editor /\ UNCHANGED alive
      /\ UNCHANGED settled /\ UNCHANGED renamed /\ UNCHANGED reported /\ UNCHANGED torn
  BY DEF WriteStep
<1> HIDE DEF s, t, d, c, e
<1>10. CASE Mishap /\ cmd' = Undo(c, disk) /\ UNCHANGED disk
  <2>1. mishaps' \in 0 .. MaxMishaps
    BY <1>1, <1>10, MishapIs
  <2>2. core' \in [state : {core.state}, config : {core.config, disk[Runtime]}]
    BY <1>1, <1>9, CoreIs
  <2> QED
    BY <1>2, <1>7, <1>8, <1>9, <1>10, <2>1, <2>2, UndoKeeps
<1>11. CASE disk' = e /\ cmd' = c /\ UNCHANGED mishaps
  <2>1. \A f \in Files : e[f] = IF f = s.file THEN s.to ELSE disk[f]
    BY <1>6 DEF IsWrite
  <2>2. StoreType'
    BY <1>1, <1>6, <1>9, <1>11 DEF StoreType
  <2>3. CommandType'
    BY <1>1, <1>2, <1>3, <1>8, <1>9, <1>11 DEF CommandType, Same
  <2>4. Tracked'
    <3>1. \A i \in DOMAIN t : t[i].file \in Untracked => t[i].file \in ToSet(d)
      BY <1>1, <1>2, <1>5, <1>7 DEF Tracked
    <3>2. c.op # "startup" /\ c.then = "runtime" => Runtime \in ToSet(d)
      BY <1>1, <1>2, <1>7, <1>8 DEF Tracked, Same
    <3>3. ASSUME NEW f \in Files, e[f] # c.before[f] PROVE f \in ToSet(d)
      <4>1. CASE f = s.file
        <5>1. s.file \in Untracked => s.file \in ToSet(cmd.done)
          BY <1>1, <1>2, <1>5 DEF Tracked
        <5> QED
          BY <1>7, <4>1, <5>1
      <4>2. CASE f # s.file
        <5>1. disk[f] # cmd.before[f]
          BY <1>8, <2>1, <3>3, <4>2 DEF Same
        <5>2. f \in ToSet(cmd.done)
          BY <1>1, <1>2, <5>1 DEF Tracked
        <5> QED
          BY <1>7, <5>2
      <4> QED
        BY <4>1, <4>2
    <3> QED
      BY <1>2, <1>8, <1>11, <3>1, <3>2, <3>3 DEF Tracked
  <2>5. BodiesKept'
    <3>1. ASSUME RollbacksEnded
          PROVE  Intact(e, Bodies) /\ Safe(t, e, Bodies) /\ Intact(cmd.before, Bodies)
      <4>1. Intact(disk, Bodies) /\ Safe(cmd.steps, disk, Bodies) /\ Intact(cmd.before, Bodies)
        BY <1>1, <1>2, <3>1 DEF BodiesKept, Kept
      <4> QED
        BY <1>2, <1>4, <1>6, <4>1, SafeKeepsIntact, SafeGoesOn DEF s, t
    <3> QED
      BY <1>2, <1>8, <1>9, <1>11, <3>1 DEF BodiesKept, Kept, RollbacksEnded, Same
  <2>6. ScriptsKept'
    <3>1. ASSUME torn = {}, cmd.op # "delete_enhancer"
          PROVE  Intact(e, Scripts) /\ Safe(t, e, Scripts) /\ Intact(cmd.before, Scripts)
      <4>1. Intact(disk, Scripts) /\ Safe(cmd.steps, disk, Scripts) /\ Intact(cmd.before, Scripts)
        BY <1>1, <1>2, <3>1 DEF ScriptsKept, Kept
      <4> QED
        BY <1>2, <1>4, <1>6, <4>1, SafeKeepsIntact, SafeGoesOn DEF s, t
    <3>2. ASSUME torn = {}, cmd.op = "delete_enhancer"
          PROVE  InTheEnd(t, e, Scripts) /\ Intact(cmd.before, Scripts)
      <4>1. InTheEnd(cmd.steps, disk, Scripts) /\ Intact(cmd.before, Scripts)
        BY <1>1, <1>2, <3>2 DEF ScriptsKept, Kept
      <4> QED
        BY <1>2, <1>4, <1>6, <4>1, EndGoesOn DEF s, t
    <3> QED
      BY <1>2, <1>8, <1>9, <1>11, <3>1, <3>2 DEF ScriptsKept, Kept, Same
  <2>7. CoreFollows'
    <3>1. e[Runtime] = disk[Runtime]
      BY <1>6, <2>1, FilesAre
    <3> QED
      BY <1>1, <1>2, <1>8, <1>9, <1>11, <3>1 DEF CoreFollows, Same
  <2>8. BuildFollows'
    <3>1. ASSUME ~c.refused, c.then # "runtime"
          PROVE  /\ SameSources(c.before, e, c.op)
                 /\ \A i \in DOMAIN t : Spares(t[i], c.before, c.op)
      <4>1. /\ SameSources(cmd.before, disk, cmd.op)
            /\ \A i \in DOMAIN cmd.steps : Spares(cmd.steps[i], cmd.before, cmd.op)
        BY <1>1, <1>2, <1>8, <3>1 DEF BuildFollows, Same
      <4>2. Spares(s, cmd.before, cmd.op)
        BY <1>5, <4>1
      <4> QED
        BY <1>5, <1>6, <1>8, <4>1, <4>2, SourcesSpared DEF Same
    <3> QED
      BY <1>1, <1>2, <1>8, <1>9, <1>11, <3>1 DEF BuildFollows, Same
  <2>9. UpdateFollows'
    <3> DEFINE index == cmd.before[Index]
               url   == index[Slot(index, cmd.id)].url
    <3>1. ASSUME cmd.op = "update", ~cmd.refused
          PROVE  /\ cmd.id \in Ids /\ Has(index, cmd.id) /\ e[Index] = index
                 /\ \A i \in DOMAIN t : t[i].file = Index => t[i].to = index
                 /\ \A i \in DOMAIN t : t[i].file = Body(cmd.id) => t[i].to[1] = url
                 /\ (\A i \in DOMAIN t : t[i].file # Body(cmd.id)) => e[Body(cmd.id)][1] = url
      <4>1. /\ cmd.id \in Ids /\ Has(index, cmd.id) /\ disk[Index] = index
            /\ \A i \in DOMAIN cmd.steps : cmd.steps[i].file = Index => cmd.steps[i].to = index
            /\ \A i \in DOMAIN cmd.steps : cmd.steps[i].file = Body(cmd.id) => cmd.steps[i].to[1] = url
            /\ (\A i \in DOMAIN cmd.steps : cmd.steps[i].file # Body(cmd.id)) =>
                 disk[Body(cmd.id)][1] = url
        BY <1>1, <1>2, <3>1 DEF UpdateFollows
      <4> HIDE DEF index, url
      <4>2. e[Index] = index
        BY <1>5, <2>1, <4>1, FilesAre
      <4>3. \A i \in DOMAIN t : t[i].file = Index => t[i].to = index
        BY <1>5, <4>1
      <4>4. \A i \in DOMAIN t : t[i].file = Body(cmd.id) => t[i].to[1] = url
        BY <1>5, <4>1
      <4>5. ASSUME \A i \in DOMAIN t : t[i].file # Body(cmd.id) PROVE e[Body(cmd.id)][1] = url
        <5>1. Body(cmd.id) \in Files
          BY <4>1, FilesAre
        <5>2. CASE s.file = Body(cmd.id)
          BY <1>5, <2>1, <4>1, <5>1, <5>2
        <5>3. CASE s.file # Body(cmd.id)
          <6>1. \A i \in DOMAIN cmd.steps : cmd.steps[i].file # Body(cmd.id)
            BY <1>5, <4>5, <5>3
          <6> QED
            BY <2>1, <4>1, <5>1, <5>3, <6>1
        <5> QED
          BY <5>2, <5>3
      <4> QED
        BY <4>1, <4>2, <4>3, <4>4, <4>5
    <3>2. c.op = cmd.op /\ c.refused = cmd.refused /\ c.id = cmd.id /\ c.before = cmd.before
      BY <1>8 DEF Same
    <3> QED
      BY <1>2, <1>8, <1>11, <3>1, <3>2 DEF UpdateFollows
  <2> QED
    BY <2>2, <2>3, <2>4, <2>5, <2>6, <2>7, <2>8, <2>9 DEF Inv
<1> QED
  BY <1>9, <1>10, <1>11

LEMMA EndKeeps ==
  ASSUME Inv, cmd' = NoCommand, UNCHANGED disk,
         core' \in [state : {"off", "up", "relaunch"}, config : {core'.config}],
         alive' \in BOOLEAN, settled' \in BOOLEAN, renamed' \in BOOLEAN, reported' \in BOOLEAN,
         mishaps' \in 0 .. MaxMishaps, fetches' \subseteq fetches, editor' \in {editor, None},
         ~alive' => core'.state = "off" /\ ~settled',
         RollbacksEnded' => Intact(disk, Bodies), torn' = {} => Intact(disk, Scripts),
         core'.state = "up" /\ ~reported' => core'.config = disk[Runtime],
         settled' => MadeOf(disk) /\ (~renamed' => IsBuilt(disk))
  PROVE  Inv'
<1>1. StoreType
  BY DEF Inv
<1>2. NoCommand.phase = "idle" /\ NoCommand.op = "none"
  BY IdleIs
<1>3. StoreType'
  BY <1>1 DEF StoreType
<1>4. CommandType'
  BY <1>2 DEF CommandType
<1>5. Tracked'
  BY <1>2 DEF Tracked
<1>6. BodiesKept'
  BY <1>2 DEF BodiesKept, Kept
<1>7. ScriptsKept'
  BY <1>2 DEF ScriptsKept, Kept
<1>8. CoreFollows'
  BY <1>2 DEF CoreFollows
<1>9. BuildFollows'
  BY <1>2 DEF BuildFollows
<1>10. UpdateFollows'
  BY <1>2 DEF UpdateFollows
<1> QED
  BY <1>3, <1>4, <1>5, <1>6, <1>7, <1>8, <1>9, <1>10 DEF Inv

LEMMA FilesAtWork ==
  ASSUME Inv, cmd # NoCommand
  PROVE  /\ IsCommand(cmd) /\ alive /\ cmd.phase # "idle"
         /\ cmd.phase \in {"build", "apply", "write", "restore"} /\ RollbacksEnded => Intact(disk, Bodies)
         /\ cmd.phase \in {"build", "apply", "restore"} /\ torn = {} => Intact(disk, Scripts)
         /\ cmd.phase = "write" /\ cmd.steps = <<>> /\ torn = {} => Intact(disk, Scripts)
         /\ cmd.phase = "write" /\ cmd.op # "delete_enhancer" /\ torn = {} => Intact(disk, Scripts)
<1>1. CommandType /\ Tracked /\ BodiesKept /\ ScriptsKept
  BY DEF Inv
<1>2. IsCommand(cmd) /\ alive /\ cmd.phase # "idle"
  BY <1>1, CommandHolds DEF CommandType
<1>3. cmd.phase \in {"build", "apply", "write", "restore"} /\ RollbacksEnded => Intact(disk, Bodies)
  BY <1>1, <1>2 DEF BodiesKept, Kept, Tracked
<1>4. cmd.phase \in {"build", "apply", "restore"} /\ torn = {} => Intact(disk, Scripts)
  BY <1>1, <1>2 DEF ScriptsKept, Kept, Tracked
<1>5. cmd.phase = "write" /\ cmd.op # "delete_enhancer" /\ torn = {} => Intact(disk, Scripts)
  BY <1>1, <1>2 DEF ScriptsKept, Kept
<1>6. ASSUME cmd.phase = "write", cmd.steps = <<>>, torn = {} PROVE Intact(disk, Scripts)
  <2>1. CASE cmd.op = "delete_enhancer"
    <3>1. InTheEnd(<<>>, disk, Scripts)
      BY <1>1, <1>6, <2>1 DEF ScriptsKept, Kept
    <3> QED
      BY <3>1, EndIsIntact
  <2> QED
    BY <1>5, <1>6, <2>1
<1> QED
  BY <1>2, <1>3, <1>4, <1>5, <1>6

LEMMA AfterWritesKeeps == ASSUME Inv, AfterWrites PROVE Inv'
<1>1. /\ StoreType /\ CommandType /\ Tracked /\ BodiesKept /\ ScriptsKept
      /\ CoreFollows /\ BuildFollows /\ UpdateFollows
  BY DEF Inv
<1>2. cmd.phase = "write" /\ cmd.steps = <<>> /\ cmd # NoCommand
  BY IdleIs DEF AfterWrites
<1>3. /\ IsCommand(cmd) /\ alive
      /\ RollbacksEnded => Intact(disk, Bodies)
      /\ torn = {} => Intact(disk, Scripts)
  BY <1>2, FilesAtWork
<1>4. /\ UNCHANGED disk /\ UNCHANGED core /\ UNCHANGED fetches /\ UNCHANGED editor
      /\ UNCHANGED alive /\ UNCHANGED reported /\ UNCHANGED torn
  BY DEF AfterWrites
<1>5. \/ cmd' = Undo(cmd, disk) /\ UNCHANGED settled /\ UNCHANGED renamed /\ (UNCHANGED mishaps \/ Mishap)
      \/ ~cmd.refused /\ cmd.then # "runtime" /\ Commit(FALSE) /\ UNCHANGED mishaps
      \/ /\ ~cmd.refused /\ cmd.then = "runtime" /\ cmd' = [cmd EXCEPT !.phase = "build"]
         /\ UNCHANGED settled /\ UNCHANGED renamed /\ UNCHANGED mishaps
  BY DEF AfterWrites
<1>6. CASE cmd' = Undo(cmd, disk) /\ UNCHANGED settled /\ UNCHANGED renamed /\ (UNCHANGED mishaps \/ Mishap)
  <2>1. mishaps' \in 0 .. MaxMishaps
    BY <1>1, <1>6, MishapIs DEF StoreType
  <2>2. core' \in [state : {core.state}, config : {core.config, disk[Runtime]}]
    BY <1>1, <1>4, CoreIs
  <2>3. Same(cmd, cmd)
    BY DEF Same
  <2> QED
    BY <1>2, <1>3, <1>4, <1>6, <2>1, <2>2, <2>3, UndoKeeps
<1>7. CASE ~cmd.refused /\ cmd.then # "runtime" /\ Commit(FALSE) /\ UNCHANGED mishaps
  <2>1. /\ cmd' = NoCommand /\ (settled' <=> settled) /\ settled' \in BOOLEAN
        /\ renamed' \in BOOLEAN /\ (~renamed' => ~renamed /\ ~Renames)
    BY <1>1, <1>7 DEF Commit, StoreType
  <2>2. settled => MadeOf(disk) /\ (~renamed' => IsBuilt(disk))
    <3>1. SameSources(cmd.before, disk, cmd.op) /\ disk[Runtime] = cmd.before[Runtime]
      BY <1>1, <1>2, <1>7 DEF BuildFollows, CoreFollows
    <3>2. settled => MadeOf(cmd.before) /\ (~renamed => IsBuilt(cmd.before))
      BY <1>1, <1>2 DEF BuildFollows
    <3>3. IsDisk(cmd.before) /\ IsDisk(disk)
      BY <1>1, <1>3, CommandHolds DEF StoreType
    <3>4. Sources(cmd.before, cmd.before[Index]) = Sources(disk, disk[Index])
      BY <3>1, <3>3, SameSourcesSameTexts
    <3>5. ASSUME ~Renames PROVE Build(cmd.before) = Build(disk)
      <4>1. HasCurrent(cmd.before[Index]) <=> HasCurrent(disk[Index])
        BY <3>1 DEF SameSources, SameCurrent
      <4>2. cmd.op = "update_meta" => SameName(cmd.before[Index], disk[Index])
        BY <3>5, <4>1 DEF Renames, SameName
      <4> QED
        BY <3>1, <3>3, <4>2, SameSourcesSameBuild
    <3>6. settled => MadeOf(disk)
      BY <3>1, <3>2, <3>4 DEF MadeOf
    <3>7. settled /\ ~renamed' => IsBuilt(disk)
      BY <2>1, <3>1, <3>2, <3>5 DEF IsBuilt
    <3> QED
      BY <3>6, <3>7
  <2>3. core.state = "up" /\ ~reported => core.config = disk[Runtime]
    BY <1>1, <1>2 DEF CoreFollows
  <2>4. /\ core' \in [state : {"off", "up", "relaunch"}, config : {core'.config}]
        /\ alive' \in BOOLEAN /\ reported' \in BOOLEAN /\ mishaps' \in 0 .. MaxMishaps
        /\ alive'
    BY <1>1, <1>3, <1>4, <1>7 DEF StoreType
  <2> QED
    BY <1>3, <1>4, <2>1, <2>2, <2>3, <2>4, EndKeeps DEF RollbacksEnded
<1>8. CASE /\ ~cmd.refused /\ cmd.then = "runtime" /\ cmd' = [cmd EXCEPT !.phase = "build"]
           /\ UNCHANGED settled /\ UNCHANGED renamed /\ UNCHANGED mishaps
  <2> DEFINE n == [cmd EXCEPT !.phase = "build"]
  <2>1. IsPhased(n, cmd, "build")
    BY <1>3, PhaseTaken
  <2>2. cmd' = n
    BY <1>8
  <2> HIDE DEF n
  <2>3. /\ IsCommand(n) /\ Same(n, cmd) /\ n.phase = "build" /\ n.done = cmd.done /\ n # NoCommand
    BY <2>1, IdleIs DEF IsPhased
  <2>4. StoreType'
    BY <1>1, <1>4, <1>8 DEF StoreType
  <2>5. CommandType'
    BY <1>1, <1>3, <1>4, <1>8, <2>2, <2>3 DEF CommandType, Same
  <2>6. Tracked'
    BY <1>1, <1>2, <1>4, <1>8, <2>2, <2>3 DEF Tracked, Same
  <2>7. BodiesKept'
    BY <1>1, <1>2, <1>3, <1>4, <2>2, <2>3 DEF BodiesKept, Kept, RollbacksEnded, Same
  <2>8. ScriptsKept'
    BY <1>1, <1>2, <1>3, <1>4, <2>2, <2>3 DEF ScriptsKept, Kept, Same
  <2>9. CoreFollows'
    BY <1>1, <1>2, <1>4, <2>2, <2>3 DEF CoreFollows, Same
  <2>10. BuildFollows'
    BY <1>1, <1>2, <1>4, <1>8, <2>2, <2>3 DEF BuildFollows, Same
  <2>11. UpdateFollows'
    <3>1. n.op = cmd.op /\ n.refused = cmd.refused /\ n.id = cmd.id /\ n.before = cmd.before
      BY <2>3 DEF Same
    <3>2. \A i \in DOMAIN cmd.steps : FALSE
      BY <1>2
    <3> QED
      BY <1>1, <1>2, <1>4, <2>2, <2>3, <3>1, <3>2 DEF UpdateFollows
  <2> QED
    BY <2>4, <2>5, <2>6, <2>7, <2>8, <2>9, <2>10, <2>11 DEF Inv
<1> QED
  BY <1>5, <1>6, <1>7, <1>8

\* A failure once the runtime is being built.
LEMMA FailKeeps ==
  ASSUME Inv, cmd.phase \in {"build", "apply"}, cmd' = Fail(cmd, disk),
         core' \in [state : {core.state}, config : {core.config, disk[Runtime]}],
         mishaps' \in 0 .. MaxMishaps,
         UNCHANGED <<disk, fetches, editor, alive, settled, renamed, reported, torn>>
  PROVE  Inv'
<1>1. StoreType /\ CommandType /\ cmd # NoCommand
  BY IdleIs DEF Inv
<1>2. /\ IsCommand(cmd) /\ alive
      /\ RollbacksEnded => Intact(disk, Bodies)
      /\ torn = {} => Intact(disk, Scripts)
  BY <1>1, FilesAtWork
<1>3. CASE cmd.op = "startup"
  <2>1. cmd' = NoCommand /\ core.state = "off" /\ ~settled
    BY <1>1, <1>3 DEF Fail, CommandType
  <2>2. /\ core' \in [state : {"off", "up", "relaunch"}, config : {core'.config}]
        /\ alive' \in BOOLEAN /\ reported' \in BOOLEAN /\ settled' \in BOOLEAN /\ alive'
        /\ renamed' \in BOOLEAN
        /\ core'.state = "off"
    BY <1>1, <1>2, <2>1 DEF StoreType
  <2> QED
    BY <1>2, <2>1, <2>2, EndKeeps DEF RollbacksEnded
<1>4. CASE cmd.op # "startup"
  <2>1. cmd' = Undo(cmd, disk)
    BY <1>4 DEF Fail
  <2>2. Same(cmd, cmd)
    BY DEF Same
  <2> QED
    BY <1>2, <1>4, <2>1, <2>2, UndoKeeps
<1> QED
  BY <1>3, <1>4

LEMMA RegenerateKeeps == ASSUME Inv, Regenerate PROVE Inv'
<1>1. /\ StoreType /\ CommandType /\ Tracked /\ BodiesKept /\ ScriptsKept
      /\ CoreFollows /\ BuildFollows /\ UpdateFollows
  BY DEF Inv
<1>2. cmd.phase = "build" /\ cmd # NoCommand
  BY IdleIs DEF Regenerate
<1>3. /\ IsCommand(cmd) /\ alive
      /\ RollbacksEnded => Intact(disk, Bodies)
      /\ torn = {} => Intact(disk, Scripts)
  BY <1>2, FilesAtWork
<1>4. /\ UNCHANGED core /\ UNCHANGED fetches /\ UNCHANGED editor
      /\ UNCHANGED alive /\ UNCHANGED settled /\ UNCHANGED renamed /\ UNCHANGED reported /\ UNCHANGED torn
  BY DEF Regenerate
<1>5. \/ cmd' = Fail(cmd, disk) /\ UNCHANGED disk /\ (UNCHANGED mishaps \/ Mishap)
      \/ /\ disk' = [disk EXCEPT ![Runtime] = Build(disk)]
         /\ cmd' = [cmd EXCEPT !.phase = "apply"] /\ UNCHANGED mishaps
  BY DEF Regenerate
<1>6. CASE cmd' = Fail(cmd, disk) /\ UNCHANGED disk /\ (UNCHANGED mishaps \/ Mishap)
  <2>1. mishaps' \in 0 .. MaxMishaps
    BY <1>1, <1>6, MishapIs DEF StoreType
  <2>2. core' \in [state : {core.state}, config : {core.config, disk[Runtime]}]
    BY <1>1, <1>4, CoreIs
  <2> QED
    BY <1>2, <1>4, <1>6, <2>1, <2>2, FailKeeps
<1>7. CASE /\ disk' = [disk EXCEPT ![Runtime] = Build(disk)]
           /\ cmd' = [cmd EXCEPT !.phase = "apply"] /\ UNCHANGED mishaps
  <2> DEFINE n == [cmd EXCEPT !.phase = "apply"]
             e == [disk EXCEPT ![Runtime] = Build(disk)]
  <2>1. IsPhased(n, cmd, "apply")
    BY <1>3, PhaseTaken
  <2>2. cmd' = n /\ disk' = e
    BY <1>7
  <2>3. /\ IsDisk(e) /\ Build(e) = Build(disk) /\ e[Runtime] = Build(disk)
        /\ \A f \in Files \ {Runtime} : e[f] = disk[f]
        /\ \A F \in {Bodies, Scripts} : Intact(disk, F) => Intact(e, F)
    BY <1>1, RuntimeIsNoSource DEF StoreType
  <2> HIDE DEF n, e
  <2>4. /\ IsCommand(n) /\ Same(n, cmd) /\ n.phase = "apply" /\ n.done = cmd.done /\ n # NoCommand
    BY <2>1, IdleIs DEF IsPhased
  <2>5. StoreType'
    BY <1>1, <1>4, <1>7, <2>2, <2>3 DEF StoreType
  <2>6. CommandType'
    BY <1>1, <1>2, <1>3, <1>4, <2>2, <2>4 DEF CommandType, Same
  <2>7. Tracked'
    <3>1. cmd.op # "startup" => Runtime \in ToSet(cmd.done)
      BY <1>1, <1>2 DEF Tracked, CommandType
    <3>2. cmd.op # "startup" => \A f \in Files : e[f] # cmd.before[f] => f \in ToSet(cmd.done)
      BY <1>1, <1>2, <2>3, <3>1 DEF Tracked
    <3> QED
      BY <2>2, <2>4, <3>1, <3>2 DEF Tracked, Same
  <2>8. BodiesKept'
    BY <1>1, <1>2, <1>3, <1>4, <2>2, <2>3, <2>4 DEF BodiesKept, Kept, RollbacksEnded, Same
  <2>9. ScriptsKept'
    BY <1>1, <1>2, <1>3, <1>4, <2>2, <2>3, <2>4 DEF ScriptsKept, Kept, Same
  <2>10. CoreFollows'
    BY <1>1, <1>2, <1>4, <2>2, <2>4 DEF CoreFollows, Same
  <2>11. BuildFollows'
    <3>1. IsBuilt(e)
      BY <2>3 DEF IsBuilt
    <3> QED
      BY <1>1, <1>2, <1>4, <2>2, <2>4, <3>1 DEF BuildFollows, Same
  <2>12. UpdateFollows'
    <3>1. n.op = cmd.op /\ n.refused = cmd.refused /\ n.id = cmd.id /\ n.before = cmd.before
      BY <2>4 DEF Same
    <3>2. e[Index] = disk[Index] /\ \A id \in Ids : e[Body(id)] = disk[Body(id)]
      BY <2>3, FilesAre, FilesDiffer
    <3> QED
      BY <1>1, <1>2, <2>2, <2>4, <3>1, <3>2 DEF UpdateFollows
  <2> QED
    BY <2>5, <2>6, <2>7, <2>8, <2>9, <2>10, <2>11, <2>12 DEF Inv
<1> QED
  BY <1>5, <1>6, <1>7

LEMMA ApplyRuntimeKeeps == ASSUME Inv, ApplyRuntime PROVE Inv'
<1>1. StoreType /\ BuildFollows
  BY DEF Inv
<1>2. cmd.phase = "apply" /\ cmd # NoCommand
  BY IdleIs DEF ApplyRuntime
<1>3. /\ alive
      /\ RollbacksEnded => Intact(disk, Bodies)
      /\ torn = {} => Intact(disk, Scripts)
  BY <1>2, FilesAtWork
<1>4. /\ UNCHANGED disk /\ UNCHANGED fetches /\ UNCHANGED editor
      /\ UNCHANGED alive /\ UNCHANGED torn /\ UNCHANGED mishaps
      /\ cmd' = NoCommand /\ settled' \in BOOLEAN /\ renamed' \in BOOLEAN /\ reported' \in BOOLEAN
      /\ core' = IF core.state = "up" \/ cmd.starts THEN Running(disk[Runtime]) ELSE core
  BY DEF ApplyRuntime, Applied, Commit
<1>5. /\ core' \in [state : {"off", "up", "relaunch"}, config : {core'.config}]
      /\ core'.state = "up" => core'.config = disk[Runtime]
  BY <1>1, <1>4 DEF StoreType, Running
<1>6. IsBuilt(disk) /\ MadeOf(disk)
  BY <1>1, <1>2, BuiltIsMadeOf DEF BuildFollows
<1>7. alive' \in BOOLEAN /\ alive' /\ mishaps' \in 0 .. MaxMishaps
  BY <1>1, <1>3, <1>4 DEF StoreType
<1> QED
  BY <1>3, <1>4, <1>5, <1>6, <1>7, EndKeeps DEF RollbacksEnded

LEMMA ApplyFailsKeeps == ASSUME Inv, ApplyFails PROVE Inv'
<1>1. StoreType
  BY DEF Inv
<1>2. /\ cmd.phase = "apply" /\ Mishap /\ cmd' = Fail(cmd, disk)
      /\ core' = core \/ (core.state = "up" /\ core' = Running(disk[Runtime]))
      /\ UNCHANGED <<disk, fetches, editor, alive, settled, renamed, reported, torn>>
  BY DEF ApplyFails
<1>3. core' \in [state : {core.state}, config : {core.config, disk[Runtime]}]
  BY <1>1, <1>2, CoreIs DEF Running
<1>4. mishaps' \in 0 .. MaxMishaps
  BY <1>1, <1>2, MishapIs
<1> QED
  BY <1>2, <1>3, <1>4, FailKeeps

LEMMA UndoneIsBefore ==
  ASSUME Inv, cmd.phase = "undo", cmd.left = <<>>, ~cmd.errors
  PROVE  disk = cmd.before
<1>1. StoreType /\ Tracked /\ cmd # NoCommand
  BY IdleIs DEF Inv
<1>2. IsDisk(disk) /\ IsDisk(cmd.before)
  BY <1>1, FilesAtWork, CommandHolds DEF StoreType
<1>3. \A f : f \notin ToSet(<<>>)
  BY DEF ToSet
<1>4. \A f \in Files : disk[f] = cmd.before[f]
  BY <1>1, <1>3 DEF Tracked
<1> QED
  BY <1>2, <1>4, SameDisk

LEMMA UndoStepKeeps == ASSUME Inv, UndoStep PROVE Inv'
<1> DEFINE f == Head(cmd.left)
           t == Tail(cmd.left)
           e == [disk EXCEPT ![f] = cmd.before[f]]
<1>1. /\ StoreType /\ CommandType /\ Tracked /\ BodiesKept /\ ScriptsKept
      /\ CoreFollows /\ BuildFollows /\ UpdateFollows
  BY DEF Inv
<1>2. cmd.phase = "undo" /\ cmd # NoCommand /\ cmd.left # <<>>
  BY IdleIs DEF UndoStep
<1>3. IsCommand(cmd) /\ alive
  BY <1>2, FilesAtWork
<1>4. cmd.left \in Seq(Files) /\ IsDisk(cmd.before)
  BY <1>3, CommandHolds
<1>5. f \in Files /\ t \in Seq(Files) /\ \A g \in ToSet(cmd.left) : g = f \/ g \in ToSet(t)
  BY <1>2, <1>4, TailIs, ToSetOfTail
<1>6. /\ UNCHANGED core /\ UNCHANGED fetches /\ UNCHANGED editor /\ UNCHANGED alive
      /\ UNCHANGED settled /\ UNCHANGED renamed /\ UNCHANGED reported /\ UNCHANGED torn
  BY DEF UndoStep
<1>7. \/ disk' = e /\ cmd' = [cmd EXCEPT !.left = t] /\ UNCHANGED mishaps
      \/ UNCHANGED disk /\ cmd' = [cmd EXCEPT !.left = t, !.errors = TRUE] /\ Mishap
  BY DEF UndoStep
<1>8. Fits(f, cmd.before[f]) /\ IsDisk(e) /\ e[f] = cmd.before[f] /\ \A g \in Files \ {f} : e[g] = disk[g]
  <2>1. Fits(f, cmd.before[f])
    BY <1>4, <1>5 DEF IsDisk
  <2> QED
    BY <1>1, <1>5, <2>1, DiskTakes DEF StoreType
<1>9. IsLeft([cmd EXCEPT !.left = t], cmd, t, cmd.again, cmd.errors)
      /\ IsLeft([cmd EXCEPT !.left = t, !.errors = TRUE], cmd, t, cmd.again, TRUE)
  BY <1>3, <1>5, LeftTaken
<1> HIDE DEF f, t, e
<1>10. /\ IsCommand(cmd') /\ Same(cmd', cmd) /\ cmd'.phase = "undo" /\ cmd' # NoCommand
       /\ cmd'.done = cmd.done /\ (cmd'.again <=> cmd.again) /\ (cmd'.reload <=> cmd.reload)
       /\ cmd'.left = t
       /\ \/ disk' = e /\ (cmd'.errors <=> cmd.errors)
          \/ UNCHANGED disk /\ cmd'.errors
  BY <1>2, <1>7, <1>9, IdleIs DEF IsLeft
<1>11. StoreType'
  BY <1>1, <1>6, <1>7, <1>8, MishapIs DEF StoreType
<1>12. CommandType'
  BY <1>1, <1>2, <1>3, <1>6, <1>10 DEF CommandType, Same
<1>13. Tracked'
  <2>1. \A g \in Files : disk'[g] # cmd.before[g] => g \in ToSet(cmd.done)
    BY <1>1, <1>2, <1>8, <1>10 DEF Tracked
  <2>2. ASSUME ~cmd'.errors PROVE \A g \in Files : disk'[g] # cmd.before[g] => g \in ToSet(t)
    <3>1. disk' = e /\ ~cmd.errors
      BY <1>10, <2>2
    <3>2. \A g \in Files : disk[g] # cmd.before[g] => g \in ToSet(cmd.left)
      BY <1>1, <1>2, <3>1 DEF Tracked
    <3> QED
      BY <1>5, <1>8, <3>1, <3>2
  <2> QED
    BY <1>10, <2>1, <2>2 DEF Tracked, Same
<1>14. BodiesKept'
  BY <1>1, <1>2, <1>6, <1>10 DEF BodiesKept, Kept, RollbacksEnded, Same
<1>15. ScriptsKept'
  BY <1>1, <1>2, <1>6, <1>10 DEF ScriptsKept, Kept, Same
<1>16. CoreFollows'
  <2>1. ~cmd.reload => disk[Runtime] = cmd.before[Runtime]
    BY <1>1, <1>2 DEF CoreFollows
  <2>2. ~cmd.reload => disk'[Runtime] = cmd.before[Runtime]
    BY <1>8, <1>10, <2>1, FilesAre
  <2> QED
    BY <1>1, <1>2, <1>6, <1>10, <2>1, <2>2 DEF CoreFollows, Same
<1>17. BuildFollows'
  BY <1>1, <1>2, <1>6, <1>10 DEF BuildFollows, Same
<1>18. UpdateFollows'
  BY <1>10 DEF UpdateFollows
<1> QED
  BY <1>11, <1>12, <1>13, <1>14, <1>15, <1>16, <1>17, <1>18 DEF Inv

LEMMA UndoDoneKeeps == ASSUME Inv, UndoDone PROVE Inv'
<1>1. /\ StoreType /\ CommandType /\ Tracked /\ BodiesKept /\ ScriptsKept
      /\ CoreFollows /\ BuildFollows /\ UpdateFollows
  BY DEF Inv
<1>2. cmd.phase = "undo" /\ cmd # NoCommand /\ cmd.left = <<>>
  BY IdleIs DEF UndoDone
<1>3. IsCommand(cmd) /\ alive
  BY <1>2, FilesAtWork
<1>4. cmd.done \in Seq(Files) /\ cmd.errors \in BOOLEAN
  BY <1>3, CommandHolds
<1>5. /\ UNCHANGED disk /\ UNCHANGED core /\ UNCHANGED fetches /\ UNCHANGED editor
      /\ UNCHANGED alive /\ UNCHANGED renamed /\ UNCHANGED mishaps
  BY DEF UndoDone
<1>6. ASSUME ~cmd.errors
      PROVE  /\ disk = cmd.before
             /\ RollbacksEnded => Intact(disk, Bodies)
             /\ torn = {} => Intact(disk, Scripts)
             /\ settled => MadeOf(disk) /\ (~renamed => IsBuilt(disk))
  <2>1. disk = cmd.before
    BY <1>2, <1>6, UndoneIsBefore
  <2> QED
    BY <1>1, <1>2, <2>1 DEF BodiesKept, ScriptsKept, Kept, BuildFollows
<1>7. /\ core' \in [state : {"off", "up", "relaunch"}, config : {core'.config}]
      /\ alive' \in BOOLEAN /\ mishaps' \in 0 .. MaxMishaps /\ alive'
      /\ settled \in BOOLEAN /\ reported \in BOOLEAN /\ renamed' \in BOOLEAN
  BY <1>1, <1>3, <1>5 DEF StoreType
<1>8. ASSUME cmd.errors, ~cmd.again,
             cmd' = [cmd EXCEPT !.left = Reverse(cmd.done), !.again = TRUE, !.errors = FALSE],
             reported' = TRUE, UNCHANGED settled, UNCHANGED torn
      PROVE  Inv'
  <2> DEFINE l == Reverse(cmd.done)
             n == [cmd EXCEPT !.left = l, !.again = TRUE, !.errors = FALSE]
  <2>1. l \in Seq(Files) /\ ToSet(l) = ToSet(cmd.done)
    BY <1>4, ReverseIs
  <2>2. IsLeft(n, cmd, l, TRUE, FALSE)
    BY <1>3, <2>1, LeftTaken
  <2>3. cmd' = n
    BY <1>8
  <2> HIDE DEF l, n
  <2>4. /\ IsCommand(n) /\ Same(n, cmd) /\ n.phase = "undo" /\ n # NoCommand
        /\ n.done = cmd.done /\ n.again /\ (n.reload <=> cmd.reload) /\ n.left = l
    BY <1>2, <2>2, IdleIs DEF IsLeft
  <2>5. StoreType'
    BY <1>1, <1>5, <1>8 DEF StoreType
  <2>6. CommandType'
    BY <1>1, <1>2, <1>3, <1>5, <1>8, <2>3, <2>4 DEF CommandType, Same
  <2>7. Tracked'
    BY <1>1, <1>2, <1>5, <2>1, <2>3, <2>4 DEF Tracked, Same
  <2>8. BodiesKept'
    BY <1>1, <1>2, <1>8, <2>3, <2>4 DEF BodiesKept, Kept, RollbacksEnded, Same
  <2>9. ScriptsKept'
    BY <1>1, <1>2, <1>8, <2>3, <2>4 DEF ScriptsKept, Kept, Same
  <2>10. CoreFollows'
    BY <1>1, <1>2, <1>5, <1>8, <2>3, <2>4 DEF CoreFollows, Same
  <2>11. BuildFollows'
    BY <1>1, <1>2, <1>5, <1>8, <2>3, <2>4 DEF BuildFollows, Same
  <2>12. UpdateFollows'
    BY <2>3, <2>4 DEF UpdateFollows
  <2> QED
    BY <2>5, <2>6, <2>7, <2>8, <2>9, <2>10, <2>11, <2>12 DEF Inv
<1>9. ASSUME cmd.again, cmd' = NoCommand, settled' = (settled /\ ~cmd.errors),
             torn' = IF cmd.errors THEN torn \cup {"rollback"} ELSE torn, UNCHANGED reported
      PROVE  Inv'
  <2>1. RollbacksEnded' => ~cmd.errors /\ RollbacksEnded
    BY <1>9 DEF RollbacksEnded
  <2>2. torn' = {} => ~cmd.errors /\ torn = {}
    BY <1>9
  <2>3. settled' \in BOOLEAN /\ (settled' => settled /\ ~cmd.errors)
    BY <1>4, <1>7, <1>9
  <2>4. ~(core.state = "up" /\ ~reported)
    BY <1>1, <1>2, <1>9 DEF CoreFollows, CommandType
  <2> QED
    BY <1>5, <1>6, <1>7, <1>9, <2>1, <2>2, <2>3, <2>4, EndKeeps
<1>10. ASSUME ~cmd.errors, ~cmd.again, cmd' = NoCommand, ~cmd.reload,
              UNCHANGED settled, UNCHANGED reported, UNCHANGED torn
       PROVE  Inv'
  <2>1. core.state = "up" /\ ~reported => core.config = disk[Runtime]
    BY <1>1, <1>2, <1>10 DEF CoreFollows
  <2> QED
    BY <1>5, <1>6, <1>7, <1>10, <2>1, EndKeeps DEF RollbacksEnded
<1>11. ASSUME ~cmd.errors, ~cmd.again, cmd' = [cmd EXCEPT !.phase = "restore"],
              UNCHANGED settled, UNCHANGED reported, UNCHANGED torn
       PROVE  Inv'
  <2> DEFINE n == [cmd EXCEPT !.phase = "restore"]
  <2>1. IsPhased(n, cmd, "restore")
    BY <1>3, PhaseTaken
  <2>2. cmd' = n
    BY <1>11
  <2> HIDE DEF n
  <2>3. /\ IsCommand(n) /\ Same(n, cmd) /\ n.phase = "restore" /\ n # NoCommand
    BY <2>1, IdleIs DEF IsPhased
  <2>4. StoreType'
    BY <1>1, <1>5, <1>11 DEF StoreType
  <2>5. CommandType'
    BY <1>1, <1>2, <1>3, <1>5, <1>11, <2>2, <2>3 DEF CommandType, Same
  <2>6. Tracked'
    <3>1. disk = cmd.before
      BY <1>2, <1>11, UndoneIsBefore
    <3> QED
      BY <1>5, <2>2, <2>3, <3>1 DEF Tracked, Same
  <2>7. BodiesKept'
    BY <1>1, <1>2, <1>11, <2>2, <2>3 DEF BodiesKept, Kept, RollbacksEnded, Same
  <2>8. ScriptsKept'
    BY <1>1, <1>2, <1>11, <2>2, <2>3 DEF ScriptsKept, Kept, Same
  <2>9. CoreFollows'
    BY <2>2, <2>3 DEF CoreFollows
  <2>10. BuildFollows'
    BY <1>1, <1>2, <1>5, <1>11, <2>2, <2>3 DEF BuildFollows, Same
  <2>11. UpdateFollows'
    BY <2>2, <2>3 DEF UpdateFollows
  <2> QED
    BY <2>4, <2>5, <2>6, <2>7, <2>8, <2>9, <2>10, <2>11 DEF Inv
<1>12. \/ /\ cmd.errors /\ ~cmd.again
          /\ cmd' = [cmd EXCEPT !.left = Reverse(cmd.done), !.again = TRUE, !.errors = FALSE]
          /\ reported' = TRUE /\ UNCHANGED settled /\ UNCHANGED torn
       \/ /\ cmd.again /\ cmd' = NoCommand /\ settled' = (settled /\ ~cmd.errors)
          /\ torn' = IF cmd.errors THEN torn \cup {"rollback"} ELSE torn
          /\ UNCHANGED reported
       \/ /\ ~cmd.errors /\ ~cmd.again
          /\ \/ ~cmd.reload /\ cmd' = NoCommand
             \/ cmd' = [cmd EXCEPT !.phase = "restore"]
          /\ UNCHANGED settled /\ UNCHANGED reported /\ UNCHANGED torn
  BY DEF UndoDone
<1> QED
  BY <1>8, <1>9, <1>10, <1>11, <1>12

LEMMA RestoreRuntimeKeeps == ASSUME Inv, RestoreRuntime PROVE Inv'
<1>1. StoreType /\ Tracked /\ BuildFollows
  BY DEF Inv
<1>2. cmd.phase = "restore" /\ cmd # NoCommand
  BY IdleIs DEF RestoreRuntime
<1>3. /\ alive
      /\ RollbacksEnded => Intact(disk, Bodies)
      /\ torn = {} => Intact(disk, Scripts)
  BY <1>2, FilesAtWork
<1>4. /\ UNCHANGED disk /\ UNCHANGED fetches /\ UNCHANGED editor
      /\ UNCHANGED alive /\ UNCHANGED torn /\ UNCHANGED settled /\ UNCHANGED renamed /\ cmd' = NoCommand
      /\ \/ Applied(FALSE) /\ UNCHANGED mishaps
         \/ reported' = TRUE /\ UNCHANGED core /\ UNCHANGED mishaps
         \/ reported' = TRUE /\ core.state = "up" /\ core' \in {core, Running(disk[Runtime])} /\ Mishap
  BY DEF RestoreRuntime
<1>5. /\ core' \in [state : {"off", "up", "relaunch"}, config : {core'.config}]
      /\ reported' \in BOOLEAN
      /\ core'.state = "up" /\ ~reported' => core'.config = disk[Runtime]
  <2>1. core \in [state : {"off", "up", "relaunch"}, config : {core.config}]
        /\ Running(disk[Runtime]) \in [state : {"off", "up", "relaunch"}, config : {disk[Runtime]}]
    BY <1>1 DEF StoreType, Running
  <2>2. CASE Applied(FALSE)
    BY <2>1, <2>2 DEF Applied, Running
  <2>3. CASE reported' = TRUE /\ core' \in {core, Running(disk[Runtime])}
    BY <2>1, <2>3 DEF Running
  <2> QED
    BY <1>4, <2>2, <2>3
<1>6. /\ mishaps' \in 0 .. MaxMishaps /\ alive' \in BOOLEAN /\ alive' /\ settled' \in BOOLEAN
      /\ renamed' \in BOOLEAN
  BY <1>1, <1>3, <1>4, MishapIs DEF StoreType
<1>7. settled => MadeOf(disk) /\ (~renamed => IsBuilt(disk))
  BY <1>1, <1>2 DEF BuildFollows, Tracked
<1> QED
  BY <1>3, <1>4, <1>5, <1>6, <1>7, EndKeeps DEF RollbacksEnded

(**************************** beside the command *****************************)

\* A step that leaves the command and the files alone.
LEMMA BesideKeeps ==
  ASSUME Inv, StoreType', UNCHANGED <<disk, cmd, alive, settled, renamed, torn>>,
         cmd.op = "startup" => core'.state = "off", ~alive => core'.state = "off",
         core'.state = "up" /\ ~reported' =>
           (core' = core /\ ~reported) \/ core'.config = disk[Runtime],
         reported /\ cmd # NoCommand => reported'
  PROVE  Inv'
<1>1. /\ CommandType /\ Tracked /\ BodiesKept /\ ScriptsKept
      /\ CoreFollows /\ BuildFollows /\ UpdateFollows
  BY DEF Inv
<1>2. UNCHANGED disk /\ UNCHANGED cmd /\ UNCHANGED alive /\ UNCHANGED settled /\ UNCHANGED renamed /\ UNCHANGED torn
  OBVIOUS
<1>3. CommandType'
  BY <1>1, <1>2 DEF CommandType
<1>4. Tracked'
  BY <1>1, <1>2 DEF Tracked
<1>5. BodiesKept'
  BY <1>1, <1>2 DEF BodiesKept, Kept, RollbacksEnded
<1>6. ScriptsKept'
  BY <1>1, <1>2 DEF ScriptsKept, Kept
<1>7. CoreFollows'
  BY <1>1, <1>2, IdleIs DEF CoreFollows
<1>8. BuildFollows'
  BY <1>1, <1>2 DEF BuildFollows
<1>9. UpdateFollows'
  BY <1>1, <1>2 DEF UpdateFollows
<1> QED
  BY <1>3, <1>4, <1>5, <1>6, <1>7, <1>8, <1>9 DEF Inv

LEMMA StoreHolds ==
  ASSUME StoreType
  PROVE  /\ core \in [state : {"off", "up", "relaunch"}, config : {core.config}]
         /\ alive \in BOOLEAN /\ settled \in BOOLEAN /\ renamed \in BOOLEAN /\ reported \in BOOLEAN
         /\ mishaps \in 0 .. MaxMishaps /\ IsDisk(disk)
  BY DEF StoreType

LEMMA StutterKeeps == ASSUME Inv, UNCHANGED vars PROVE Inv'
<1>1. StoreType /\ CommandType
  BY DEF Inv
<1>2. StoreType'
  BY <1>1 DEF StoreType, vars
<1> QED
  BY <1>1, <1>2, BesideKeeps DEF vars, CommandType

LEMMA DownIs ==
  ASSUME NEW s \in {"off", "relaunch"}
  PROVE  Down(s) \in [state : {"off", "up", "relaunch"}, config : {Down(s).config}] /\ Down(s).state = s
  BY DEF Down

LEMMA RunningIs ==
  ASSUME NEW x
  PROVE  /\ Running(x) \in [state : {"off", "up", "relaunch"}, config : {Running(x).config}]
         /\ Running(x).state = "up" /\ Running(x).config = x
  BY DEF Running

LEMMA DownKeeps ==
  ASSUME Inv, core.state # "off", NEW s \in {"off", "relaunch"}, core' = Down(s),
         UNCHANGED <<disk, cmd, fetches, editor, alive, settled, renamed, reported, torn, mishaps>>
  PROVE  Inv'
<1>1. StoreType /\ CommandType
  BY DEF Inv
<1>2. core'.state # "up" /\ core' \in [state : {"off", "up", "relaunch"}, config : {core'.config}]
  BY DownIs
<1>3. StoreType'
  BY <1>1, <1>2 DEF StoreType
<1>4. cmd.op # "startup" /\ alive
  BY <1>1 DEF CommandType
<1> QED
  BY <1>2, <1>3, <1>4, BesideKeeps

LEMMA CoreCrashKeeps == ASSUME Inv, CoreCrash PROVE Inv'
  BY DownKeeps DEF CoreCrash

LEMMA CoreStopKeeps == ASSUME Inv, CoreStop PROVE Inv'
  BY DownKeeps DEF CoreStop

LEMMA CoreRelaunchKeeps == ASSUME Inv, CoreRelaunch PROVE Inv'
<1>1. StoreType /\ CommandType
  BY DEF Inv
<1>2. /\ core.state = "relaunch" /\ core' = Running(disk[Runtime])
      /\ reported' = (reported /\ cmd # NoCommand) /\ alive
      /\ UNCHANGED <<disk, cmd, fetches, editor, alive, settled, renamed, torn, mishaps>>
  BY DEF CoreRelaunch
<1>3. core'.config = disk[Runtime] /\ core' \in [state : {"off", "up", "relaunch"}, config : {core'.config}]
  BY <1>2, RunningIs
<1>4. StoreType'
  BY <1>1, <1>2, <1>3 DEF StoreType
<1>5. cmd.op # "startup"
  BY <1>1, <1>2 DEF CommandType
<1> QED
  BY <1>2, <1>3, <1>4, <1>5, BesideKeeps

LEMMA DownloadKeeps == ASSUME Inv, NEW id \in Ids, NEW q \in Qualities, Download(id, q) PROVE Inv'
<1> DEFINE p == disk[Index][Slot(disk[Index], id)]
           u == [id |-> id, url |-> p.url, text |-> <<p.url, q>>]
<1>1. StoreType /\ CommandType
  BY DEF Inv
<1>2. /\ Has(disk[Index], id) /\ p.url # Local /\ fetches' = fetches \cup {u}
      /\ UNCHANGED <<disk, cmd, core, editor, alive, settled, renamed, reported, torn, mishaps>>
  BY DEF Download
<1>3. disk[Index] \in GoodIndexes
  BY <1>1, StoreHolds, DiskHolds
<1>4. p.url \in Urls
  BY <1>2, <1>3, SlotIs, IndexIs
<1> HIDE DEF p
<1>5. u \in [id : Ids, url : Urls, text : Contents] /\ u.text[1] = u.url
  BY <1>4 DEF Contents
<1> HIDE DEF u
<1>6. StoreType'
  BY <1>1, <1>2, <1>5 DEF StoreType
<1> QED
  BY <1>1, <1>2, <1>6, BesideKeeps DEF CommandType

LEMMA OpenEditorKeeps == ASSUME Inv, NEW id \in Ids, OpenEditor(id) PROVE Inv'
<1>1. StoreType /\ CommandType
  BY DEF Inv
<1>2. /\ disk[Body(id)] # None /\ editor' = [id |-> id, seen |-> disk[Body(id)]]
      /\ UNCHANGED <<disk, cmd, core, fetches, alive, settled, renamed, reported, torn, mishaps>>
  BY DEF OpenEditor
<1>3. disk[Body(id)] \in Contents
  BY <1>1, <1>2, StoreHolds, DiskHolds, FilesAre DEF BodyTexts
<1>4. StoreType'
  BY <1>1, <1>2, <1>3 DEF StoreType
<1> QED
  BY <1>1, <1>2, <1>4, BesideKeeps DEF CommandType

LEMMA CoreStartKeeps == ASSUME Inv, CoreStart PROVE Inv'
<1> DEFINE e == [disk EXCEPT ![Runtime] = Build(disk)]
<1>1. /\ StoreType /\ CommandType /\ BodiesKept /\ ScriptsKept /\ BuildFollows
  BY DEF Inv
<1>2. /\ alive /\ cmd = NoCommand /\ cmd.phase = "idle" /\ cmd.op = "none"
      /\ disk' = IF disk[Runtime] # None THEN disk ELSE e
      /\ settled' = (settled \/ disk[Runtime] = None)
      /\ renamed' = (renamed /\ disk[Runtime] # None)
      /\ core' = Running(disk'[Runtime]) /\ reported' = FALSE
      /\ UNCHANGED cmd /\ UNCHANGED fetches /\ UNCHANGED editor /\ UNCHANGED alive
      /\ UNCHANGED torn /\ UNCHANGED mishaps
  BY IdleIs DEF CoreStart, Idle
<1>3. /\ IsDisk(e) /\ Build(e) = Build(disk) /\ e[Runtime] = Build(disk)
      /\ \A F \in {Bodies, Scripts} : Intact(disk, F) => Intact(e, F)
  BY <1>1, RuntimeIsNoSource, StoreHolds
<1> HIDE DEF e
<1>4. /\ core'.config = disk'[Runtime]
      /\ core' \in [state : {"off", "up", "relaunch"}, config : {core'.config}]
  BY <1>2, RunningIs
<1>5. StoreType'
  BY <1>1, <1>2, <1>3, <1>4 DEF StoreType
<1>6. CommandType'
  BY <1>2 DEF CommandType
<1>7. Tracked'
  BY <1>2 DEF Tracked
<1>8. BodiesKept'
  BY <1>1, <1>2, <1>3 DEF BodiesKept, Kept, RollbacksEnded
<1>9. ScriptsKept'
  BY <1>1, <1>2, <1>3 DEF ScriptsKept, Kept
<1>10. CoreFollows'
  BY <1>2, <1>4 DEF CoreFollows
<1>11. BuildFollows'
  <2>1. IsBuilt(e) /\ MadeOf(e)
    BY <1>3, BuiltIsMadeOf DEF IsBuilt
  <2>2. CASE disk[Runtime] = None
    BY <1>2, <2>1, <2>2 DEF BuildFollows
  <2>3. CASE disk[Runtime] # None
    BY <1>1, <1>2, <2>3 DEF BuildFollows
  <2> QED
    BY <2>2, <2>3
<1>12. UpdateFollows'
  BY <1>2 DEF UpdateFollows
<1> QED
  BY <1>5, <1>6, <1>7, <1>8, <1>9, <1>10, <1>11, <1>12 DEF Inv

LEMMA AppDiesKeeps == ASSUME Inv, AppDies PROVE Inv'
<1>1. StoreType
  BY DEF Inv
<1>2. /\ cmd # NoCommand /\ alive' = FALSE /\ torn' = torn \cup Window /\ cmd' = NoCommand
      /\ fetches' = {} /\ editor' = None /\ core' = Down("off") /\ settled' = FALSE
      /\ renamed' = FALSE
      /\ UNCHANGED disk /\ UNCHANGED reported /\ Mishap
  BY DEF AppDies
<1>3. IsCommand(cmd)
  BY <1>2, FilesAtWork
<1>4. cmd.phase \in {"write", "build", "apply", "undo", "restore"}
  BY <1>3, CommandHolds
<1>5. RollbacksEnded' => RollbacksEnded /\ cmd.phase # "undo"
  BY <1>2 DEF RollbacksEnded, Window
<1>6. torn' = {} => torn = {} /\ cmd.phase # "undo" /\ ~(cmd.phase = "write" /\ cmd.op = "delete_enhancer")
  BY <1>2 DEF Window
<1>7. (RollbacksEnded' => Intact(disk, Bodies)) /\ (torn' = {} => Intact(disk, Scripts))
  BY <1>2, <1>4, <1>5, <1>6, FilesAtWork
<1>8. core'.state = "off" /\ core' \in [state : {"off", "up", "relaunch"}, config : {core'.config}]
  BY <1>2, DownIs
<1>9. mishaps' \in 0 .. MaxMishaps /\ reported' \in BOOLEAN
  BY <1>1, <1>2, MishapIs, StoreHolds
<1> QED
  BY <1>2, <1>7, <1>8, <1>9, EndKeeps

(************************ the indexes commands write *************************)

\* A change of fields that keeps the ids and the mark, or moves the mark.
LEMMA IndexMapped ==
  ASSUME NEW x \in GoodIndexes, NEW y \in Seq(IndexEntry), Len(y) = Len(x),
         \A i \in 1 .. Len(x) : y[i].id = x[i].id,
         \/ \A i \in 1 .. Len(x) : y[i].current <=> x[i].current
         \/ \E k \in 1 .. Len(x) : \A i \in 1 .. Len(x) : y[i].current <=> i = k
  PROVE  y \in GoodIndexes
<1>1. Len(x) \in Nat /\ \A i, j \in 1 .. Len(x) : x[i].id = x[j].id => i = j
  BY IndexIs
<1>2. \A i, j \in 1 .. Len(y) : y[i].id = y[j].id => i = j
  BY <1>1
<1>3. y # <<>> => x # <<>>
  OBVIOUS
<1>4. x # <<>> => \E i \in 1 .. Len(x) : \A j \in 1 .. Len(x) : x[j].current <=> j = i
  BY IndexIs
<1>5. y # <<>> => \E i \in 1 .. Len(y) : \A j \in 1 .. Len(y) : y[j].current <=> j = i
  BY <1>3, <1>4
<1> QED
  BY <1>2, <1>5, IndexMake

\* update_meta.
LEMMA MetaChanged ==
  ASSUME NEW x \in GoodIndexes, NEW id, Has(x, id), NEW url \in Urls \cup {Local},
         NEW name \in ProfileNames
  PROVE  LET y == [x EXCEPT ![Slot(x, id)].url = url, ![Slot(x, id)].name = name]
         IN  /\ y \in GoodIndexes /\ SameCurrent(x, y, "update_meta")
             /\ \A f : Names(Index, y, f) => Names(Index, x, f)
<1> DEFINE s == Slot(x, id)
           y == [x EXCEPT ![s].url = url, ![s].name = name]
<1>1. s \in 1 .. Len(x) /\ x # <<>>
  BY SlotIs
<1>2. /\ x \in Seq(IndexEntry) /\ Len(x) \in Nat /\ DOMAIN x = 1 .. Len(x)
      /\ \A i \in 1 .. Len(x) : x[i] \in IndexEntry
  BY IndexIs
<1> HIDE DEF s
<1>3. /\ \A i \in 1 .. Len(x) : i # s => y[i] = x[i]
      /\ y[s] = [x[s] EXCEPT !.url = url, !.name = name] /\ DOMAIN y = 1 .. Len(x)
  BY <1>1, <1>2
<1>4. /\ y[s] \in IndexEntry /\ y[s].id = x[s].id /\ (y[s].current <=> x[s].current)
      /\ y[s].enhs = x[s].enhs
  <2>1. x[s] \in IndexEntry
    BY <1>1, <1>2
  <2> HIDE DEF y
  <2> QED
    BY <1>3, <2>1 DEF IndexEntry
<1>5. \A i \in 1 .. Len(x) : /\ y[i] \in IndexEntry /\ y[i].id = x[i].id /\ y[i].enhs = x[i].enhs
                             /\ (y[i].current <=> x[i].current)
  <2> HIDE DEF y
  <2> QED
    BY <1>2, <1>3, <1>4
<1>6. y \in Seq(IndexEntry) /\ Len(y) = Len(x)
  <2>1. y = [i \in 1 .. Len(x) |-> y[i]]
    BY <1>2
  <2> HIDE DEF y
  <2> QED
    BY <1>2, <1>3, <1>5, <2>1
<1> HIDE DEF y
<1>7. y \in GoodIndexes
  BY <1>5, <1>6, IndexMapped
<1>8. SameCurrent(x, y, "update_meta")
  <2>1. PICK i \in 1 .. Len(x) : x[i].current
    BY <1>1, IndexIs
  <2> QED
    BY <1>5, <1>6, <1>7, <2>1, SameCurrentIf
<1>9. \A f : Names(Index, y, f) => Names(Index, x, f)
  BY <1>2, <1>3, <1>5 DEF Names
<1> QED
  BY <1>7, <1>8, <1>9 DEF y, s

TakesEnhs(x, y, id, es) ==
  /\ y \in GoodIndexes /\ (~x[Slot(x, id)].current => \A op : SameCurrent(x, y, op))
  /\ \A f : Names(Index, y, f) =>
       \/ Names(Index, x, f) /\ \A e : f # Script(id, e)
       \/ \E j \in DOMAIN es : f = Script(id, es[j].eid)

\* A new list of enhancers.
LEMMA EnhsChanged ==
  ASSUME NEW x \in GoodIndexes, NEW id, Has(x, id), NEW es \in Seq([eid : Eids, on : BOOLEAN])
  PROVE  TakesEnhs(x, [x EXCEPT ![Slot(x, id)].enhs = es], id, es)
<1> DEFINE s == Slot(x, id)
           y == [x EXCEPT ![s].enhs = es]
<1>1. s \in 1 .. Len(x) /\ x # <<>> /\ x[s].id = id /\ \A i \in 1 .. Len(x) : x[i].id = id => i = s
  BY SlotIs
<1>2. /\ x \in Seq(IndexEntry) /\ Len(x) \in Nat /\ DOMAIN x = 1 .. Len(x)
      /\ \A i \in 1 .. Len(x) : x[i] \in IndexEntry
  BY IndexIs
<1> HIDE DEF s
<1>3. /\ \A i \in 1 .. Len(x) : i # s => y[i] = x[i]
      /\ y[s] = [x[s] EXCEPT !.enhs = es] /\ DOMAIN y = 1 .. Len(x)
  BY <1>1, <1>2
<1>4. /\ y[s] \in IndexEntry /\ y[s].id = x[s].id /\ (y[s].current <=> x[s].current)
      /\ y[s].enhs = es /\ y[s].name = x[s].name
  <2>1. x[s] \in IndexEntry
    BY <1>1, <1>2
  <2> HIDE DEF y
  <2> QED
    BY <1>3, <2>1 DEF IndexEntry
<1>5. \A i \in 1 .. Len(x) : /\ y[i] \in IndexEntry /\ y[i].id = x[i].id /\ y[i].name = x[i].name
                             /\ (y[i].current <=> x[i].current)
                             /\ i # s => y[i].enhs = x[i].enhs
  <2> HIDE DEF y
  <2> QED
    BY <1>2, <1>3, <1>4
<1>6. y \in Seq(IndexEntry) /\ Len(y) = Len(x)
  <2>1. y = [i \in 1 .. Len(x) |-> y[i]]
    BY <1>2
  <2> HIDE DEF y
  <2> QED
    BY <1>2, <1>3, <1>5, <2>1
<1> HIDE DEF y
<1>7. y \in GoodIndexes
  BY <1>5, <1>6, IndexMapped
<1>8. ASSUME ~x[s].current, NEW op PROVE SameCurrent(x, y, op)
  <2>1. PICK i \in 1 .. Len(x) : x[i].current
    BY <1>1, IndexIs
  <2> QED
    BY <1>5, <1>6, <1>7, <1>8, <2>1, SameCurrentIf
<1>9. ASSUME NEW f, Names(Index, y, f)
      PROVE  \/ Names(Index, x, f) /\ \A e : f # Script(id, e)
             \/ \E j \in DOMAIN es : f = Script(id, es[j].eid)
  <2>1. PICK i \in 1 .. Len(x) : f = Body(y[i].id) \/ \E j \in DOMAIN y[i].enhs : f = Script(y[i].id, y[i].enhs[j].eid)
    BY <1>3, <1>9 DEF Names
  <2>2. CASE f = Body(y[i].id)
    BY <1>2, <1>5, <2>1, <2>2, FilesDiffer DEF Names
  <2>3. CASE i = s /\ \E j \in DOMAIN y[i].enhs : f = Script(y[i].id, y[i].enhs[j].eid)
    BY <1>1, <1>4, <2>3
  <2>4. CASE i # s /\ \E j \in DOMAIN y[i].enhs : f = Script(y[i].id, y[i].enhs[j].eid)
    <3>1. Names(Index, x, f)
      BY <1>2, <1>5, <2>1, <2>4 DEF Names
    <3>2. y[i].id # id
      BY <1>1, <1>5, <2>1, <2>4
    <3> QED
      BY <2>4, <3>1, <3>2, FilesDiffer
  <2> QED
    BY <2>1, <2>2, <2>3, <2>4
<1>10. TakesEnhs(x, y, id, es)
  BY <1>7, <1>8, <1>9 DEF TakesEnhs, s
<1> QED
  BY <1>10 DEF y, s

\* select.
LEMMA IndexSelected ==
  ASSUME NEW x \in GoodIndexes, NEW id, Has(x, id)
  PROVE  LET y == [i \in DOMAIN x |-> [x[i] EXCEPT !.current = x[i].id = id]]
         IN  y \in GoodIndexes /\ \A f : Names(Index, y, f) => Names(Index, x, f)
<1> DEFINE y == [i \in DOMAIN x |-> [x[i] EXCEPT !.current = x[i].id = id]]
           s == Slot(x, id)
<1>1. s \in 1 .. Len(x) /\ x[s].id = id /\ \A i \in 1 .. Len(x) : x[i].id = id => i = s
  BY SlotIs
<1>2. /\ x \in Seq(IndexEntry) /\ Len(x) \in Nat /\ DOMAIN x = 1 .. Len(x)
      /\ \A i \in 1 .. Len(x) : x[i] \in IndexEntry
  BY IndexIs
<1> HIDE DEF s
<1>3. ASSUME NEW i \in 1 .. Len(x)
      PROVE  /\ y[i] \in IndexEntry /\ y[i].id = x[i].id /\ y[i].enhs = x[i].enhs
             /\ (y[i].current <=> i = s)
  <2> DEFINE b == (x[i].id = id)
  <2>1. b \in BOOLEAN /\ (b <=> i = s)
    BY <1>1, <1>3
  <2>2. y[i] = [x[i] EXCEPT !.current = b]
    BY <1>2
  <2>3. x[i] \in IndexEntry
    BY <1>2
  <2> HIDE DEF b, y
  <2>4. y[i] \in IndexEntry /\ y[i].id = x[i].id /\ y[i].enhs = x[i].enhs /\ y[i].current = b
    BY <2>1, <2>2, <2>3 DEF IndexEntry
  <2> QED
    BY <2>1, <2>4
<1>4. y \in Seq(IndexEntry) /\ Len(y) = Len(x) /\ DOMAIN y = 1 .. Len(x)
  <2>1. y = [i \in 1 .. Len(x) |-> y[i]]
    BY <1>2
  <2> HIDE DEF y
  <2> QED
    BY <1>2, <1>3, <2>1
<1> HIDE DEF y
<1>5. y \in GoodIndexes
  BY <1>1, <1>3, <1>4, IndexMapped
<1>6. \A f : Names(Index, y, f) => Names(Index, x, f)
  BY <1>2, <1>3, <1>4 DEF Names
<1> QED
  BY <1>5, <1>6 DEF y

\* import.
LEMMA IndexAppended ==
  ASSUME NEW x \in GoodIndexes, NEW id \in Ids, ~Has(x, id), NEW url \in Urls \cup {Local},
         NEW name \in ProfileNames
  PROVE  LET y == Append(x, Meta(id, url, name, x = <<>>))
         IN  /\ y \in GoodIndexes /\ (x # <<>> => \A op : SameCurrent(x, y, op))
             /\ \A f : Names(Index, y, f) => Names(Index, x, f) \/ f = Body(id) \/ f = Script(id, Prune)
<1> DEFINE b == (x = <<>>)
           m == Meta(id, url, name, b)
           y == Append(x, m)
           n == Len(x)
<1>1. /\ x \in Seq(IndexEntry) /\ n \in Nat /\ DOMAIN x = 1 .. n
      /\ \A i \in 1 .. n : x[i] \in IndexEntry
      /\ \A i, j \in 1 .. n : x[i].id = x[j].id => i = j
      /\ x # <<>> => \E i \in 1 .. n : \A j \in 1 .. n : x[j].current <=> j = i
  BY IndexIs
<1>2. b \in BOOLEAN /\ (b <=> n = 0)
  BY <1>1
<1> HIDE DEF b
<1>3. /\ m \in IndexEntry /\ m.id = id /\ (m.current <=> b)
      /\ DOMAIN m.enhs = {1} /\ m.enhs[1].eid = Prune
  <2> DEFINE e == [eid |-> Prune, on |-> FALSE]
  <2>1. e \in [eid : Eids, on : BOOLEAN] /\ e.eid = Prune
    BY DEF Eids
  <2>2. m = [id |-> id, url |-> url, name |-> name, current |-> b, enhs |-> <<e>>]
    BY DEF Meta
  <2> HIDE DEF e, m
  <2>3. <<e>> \in Seq([eid : Eids, on : BOOLEAN]) /\ DOMAIN <<e>> = {1} /\ <<e>>[1] = e
    BY <2>1
  <2> DEFINE es == <<e>>
  <2>4. es \in Seq([eid : Eids, on : BOOLEAN]) /\ DOMAIN es = {1} /\ es[1] = e
    BY <2>3
  <2>5. m = [id |-> id, url |-> url, name |-> name, current |-> b, enhs |-> es]
    BY <2>2
  <2> HIDE DEF es
  <2> QED
    BY <1>2, <2>1, <2>4, <2>5 DEF IndexEntry
<1> HIDE DEF m
<1>4. /\ y \in Seq(IndexEntry) /\ Len(y) = n + 1 /\ y[n + 1] = m /\ DOMAIN y = 1 .. n + 1
      /\ \A i \in 1 .. n : y[i] = x[i]
  BY <1>1, <1>3
<1> HIDE DEF y
<1>5. \A i \in 1 .. n + 1 : i \in 1 .. n \/ i = n + 1
  BY <1>1
<1>6. \A i \in 1 .. n : x[i].id # id
  BY <1>1 DEF Has
<1>7. \A i, j \in 1 .. n + 1 : y[i].id = y[j].id => i = j
  BY <1>1, <1>3, <1>4, <1>5, <1>6
<1>8. \E i \in 1 .. n + 1 : \A j \in 1 .. n + 1 : y[j].current <=> j = i
  <2>1. CASE n = 0
    BY <1>2, <1>3, <1>4, <2>1
  <2>2. CASE n # 0
    <3>1. PICK i \in 1 .. n : \A j \in 1 .. n : x[j].current <=> j = i
      BY <1>1, <2>2
    <3>2. i \in 1 .. n + 1 /\ i # n + 1
      BY <1>1
    <3>3. \A j \in 1 .. n + 1 : y[j].current <=> j = i
      BY <1>1, <1>2, <1>3, <1>4, <1>5, <2>2, <3>1, <3>2
    <3> QED
      BY <3>2, <3>3
  <2> QED
    BY <2>1, <2>2
<1>9. y \in GoodIndexes
  BY <1>4, <1>7, <1>8, IndexMake
<1>10. ASSUME x # <<>>, NEW op PROVE SameCurrent(x, y, op)
  <2>1. PICK i \in 1 .. n : x[i].current
    BY <1>1, <1>10
  <2>2. i \in 1 .. Len(y) /\ y[i] = x[i]
    BY <1>1, <1>4
  <2> QED
    BY <1>9, <2>1, <2>2, SameCurrentIf
<1>11. \A f : Names(Index, y, f) => Names(Index, x, f) \/ f = Body(id) \/ f = Script(id, Prune)
  BY <1>1, <1>3, <1>4, <1>5 DEF Names
<1> QED
  BY <1>9, <1>10, <1>11 DEF y, m, b

\* delete, with the successor of a current profile.
LEMMA IndexWithout ==
  ASSUME NEW x \in GoodIndexes, NEW id, Has(x, id)
  PROVE  LET y == Without(x, id)
         IN  /\ y \in GoodIndexes /\ (~x[Slot(x, id)].current => \A op : SameCurrent(x, y, op))
             /\ \A f : Names(Index, y, f) =>
                  Names(Index, x, f) /\ f # Body(id) /\ \A e : f # Script(id, e)
<1> DEFINE s == Slot(x, id)
           n == Len(x)
           S == {p \in ToSet(x) : p.id # id}
           r == Only(x, S)
           m == Len(r)
           y == Without(x, id)
<1>1. s \in 1 .. n /\ x[s].id = id /\ x # <<>> /\ \A i \in 1 .. n : x[i].id = id => i = s
  BY SlotIs
<1>2. /\ x \in Seq(IndexEntry) /\ n \in Nat /\ DOMAIN x = 1 .. n
      /\ \A i \in 1 .. n : x[i] \in IndexEntry /\ x[i].current \in BOOLEAN
      /\ \A i, j \in 1 .. n : x[i].id = x[j].id => i = j
      /\ \E i \in 1 .. n : \A j \in 1 .. n : x[j].current <=> j = i
  BY <1>1, IndexIs
<1>3. \A i \in 1 .. n : x[i] \in S <=> i # s
  <2>1. \A i \in 1 .. n : x[i] \in ToSet(x)
    BY <1>2, ToSetIs
  <2> QED
    BY <1>1, <2>1
<1>4. y = IF x[s].current /\ r # <<>> THEN [r EXCEPT ![1].current = TRUE] ELSE r
  BY DEF Without
<1> HIDE DEF S
<1>5. r \in Seq(IndexEntry) /\ \E h : Picks(h, r, x, S, n)
  BY <1>2, OnlyPicks
<1> HIDE DEF s, r, y
<1>6. m \in Nat /\ DOMAIN r = 1 .. m /\ \A i \in 1 .. m : r[i] \in IndexEntry
  BY <1>5
<1>7. PICK h : /\ h \in [1 .. m -> 1 .. n]
               /\ \A i \in 1 .. m : r[i] = x[h[i]] /\ x[h[i]] \in S
               /\ \A i, j \in 1 .. m : i < j => h[i] < h[j]
               /\ \A k \in 1 .. n : x[k] \in S => \E i \in 1 .. m : h[i] = k
  BY <1>5 DEF Picks
<1>8. \A i \in 1 .. m : h[i] \in 1 .. n /\ h[i] # s /\ r[i] = x[h[i]]
  BY <1>3, <1>7
<1>9. \A i, j \in 1 .. m : h[i] = h[j] => i = j
  <2> SUFFICES ASSUME NEW i \in 1 .. m, NEW j \in 1 .. m, h[i] = h[j], i # j PROVE FALSE
    OBVIOUS
  <2>1. i < j \/ j < i
    BY <1>6
  <2>2. h[i] \in 1 .. n /\ h[j] \in 1 .. n
    BY <1>8
  <2> QED
    BY <1>2, <1>7, <2>1, <2>2
<1>10. \A i, j \in 1 .. m : r[i].id = r[j].id => i = j
  BY <1>2, <1>8, <1>9
<1>11. \A f : Names(Index, r, f) => Names(Index, x, f) /\ f # Body(id) /\ \A e : f # Script(id, e)
  <2> SUFFICES ASSUME NEW f, Names(Index, r, f)
               PROVE  Names(Index, x, f) /\ f # Body(id) /\ \A e : f # Script(id, e)
    OBVIOUS
  <2>1. PICK i \in 1 .. m : f = Body(r[i].id) \/ \E j \in DOMAIN r[i].enhs : f = Script(r[i].id, r[i].enhs[j].eid)
    BY <1>6 DEF Names
  <2>2. h[i] \in 1 .. n /\ x[h[i]].id # id /\ r[i] = x[h[i]]
    BY <1>1, <1>8
  <2>3. Names(Index, x, f)
    BY <1>2, <2>1, <2>2 DEF Names
  <2> QED
    BY <2>1, <2>2, <2>3, FilesDiffer
<1>12. CASE x[s].current /\ r # <<>>
  <2> DEFINE z == [r EXCEPT ![1].current = TRUE]
  <2>1. 1 \in 1 .. m /\ y = z
    BY <1>4, <1>6, <1>12
  <2>2. \A i \in 1 .. m : ~r[i].current
    BY <1>1, <1>2, <1>8, <1>12
  <2>3. /\ \A i \in 1 .. m : i # 1 => z[i] = r[i]
        /\ z[1] = [r[1] EXCEPT !.current = TRUE] /\ DOMAIN z = 1 .. m /\ z = [i \in 1 .. m |-> z[i]]
    BY <1>6, <2>1
  <2> HIDE DEF z
  <2>4. z[1] \in IndexEntry /\ z[1].id = r[1].id /\ z[1].current /\ z[1].enhs = r[1].enhs
    <3>1. r[1] \in IndexEntry
      BY <1>6, <2>1
    <3> QED
      BY <2>3, <3>1 DEF IndexEntry
  <2>5. \A i \in 1 .. m : /\ z[i] \in IndexEntry /\ z[i].id = r[i].id /\ z[i].enhs = r[i].enhs
                          /\ (z[i].current <=> i = 1)
    BY <1>6, <2>2, <2>3, <2>4
  <2>6. z \in Seq(IndexEntry) /\ Len(z) = m
    BY <1>6, <2>3, <2>5
  <2>7. z \in GoodIndexes
    <3>1. \A i, j \in 1 .. Len(z) : z[i].id = z[j].id => i = j
      BY <1>10, <2>5, <2>6
    <3>2. \E i \in 1 .. Len(z) : \A j \in 1 .. Len(z) : z[j].current <=> j = i
      BY <2>1, <2>5, <2>6
    <3> QED
      BY <2>6, <3>1, <3>2, IndexMake
  <2>8. \A f : Names(Index, z, f) => Names(Index, r, f)
    BY <1>6, <2>3, <2>5 DEF Names
  <2> QED
    BY <1>11, <1>12, <2>1, <2>7, <2>8 DEF y, s
<1>13. CASE ~(x[s].current /\ r # <<>>)
  <2>1. y = r
    BY <1>4, <1>13
  <2>2. PICK k \in 1 .. n : \A j \in 1 .. n : x[j].current <=> j = k
    BY <1>2
  <2>3. ASSUME k # s PROVE r \in GoodIndexes /\ \A op : SameCurrent(x, r, op)
    <3>1. PICK i \in 1 .. m : h[i] = k
      BY <1>3, <1>7, <2>3
    <3>2. \A j \in 1 .. m : r[j].current <=> j = i
      BY <1>8, <1>9, <2>2, <3>1
    <3>3. r \in GoodIndexes
      BY <1>5, <1>10, <3>2, IndexMake
    <3>4. r[i] = x[k] /\ x[k].current
      BY <1>8, <2>2, <3>1
    <3> QED
      BY <3>3, <3>4, SameCurrentIf
  <2>4. ASSUME k = s PROVE r \in GoodIndexes /\ x[s].current
    <3>1. r = <<>>
      BY <1>1, <1>13, <2>2, <2>4
    <3> QED
      BY <1>1, <1>5, <1>10, <2>2, <2>4, <3>1, IndexMake
  <2> QED
    BY <1>11, <2>1, <2>3, <2>4 DEF y, s
<1> QED
  BY <1>12, <1>13

(*********************************** plans ***********************************)

LEMMA CapturedAre ==
  /\ Captured \in Seq(Files) /\ Index \in ToSet(Captured) /\ Runtime \in ToSet(Captured)
  /\ CapturedGlobal \in Seq(Files) /\ Untracked \subseteq ToSet(CapturedGlobal)
  /\ <<Index>> \in Seq(Files) /\ Index \in ToSet(<<Index>>)
<1>1. Captured \in Seq(Files) /\ Len(Captured) = 2 /\ Captured[1] = Index /\ Captured[2] = Runtime
  BY FilesAre DEF Captured
<1>2. Index \in ToSet(Captured)
  BY <1>1, ToSetIs
<1>3. Runtime \in ToSet(Captured)
  BY <1>1, ToSetIs
<1>4. /\ CapturedGlobal \in Seq(Files) /\ Len(CapturedGlobal) = 3 /\ CapturedGlobal[1] = Index
      /\ CapturedGlobal[2] = Runtime /\ CapturedGlobal[3] = GlobalIndex
  BY FilesAre DEF CapturedGlobal
<1>5. \A f \in Untracked : f \in ToSet(CapturedGlobal)
  <2>1. \A f \in Untracked : f = Index \/ f = Runtime \/ f = GlobalIndex
    BY DEF Untracked
  <2>2. 1 \in 1 .. 3 /\ 2 \in 1 .. 3 /\ 3 \in 1 .. 3
    OBVIOUS
  <2>3. \A f \in Untracked : \E i \in 1 .. 3 : CapturedGlobal[i] = f
    BY <1>4, <2>1, <2>2
  <2> QED
    BY <1>4, <2>3, ToSetIs
<1> DEFINE one == <<Index>>
<1>6. one \in Seq(Files) /\ Len(one) = 1 /\ one[1] = Index
  BY FilesAre
<1> HIDE DEF one
<1>7. Index \in ToSet(one)
  BY <1>6, ToSetIs
<1> QED
  BY <1>1, <1>2, <1>3, <1>4, <1>5, <1>6, <1>7 DEF one

LEMMA WriteFits ==
  /\ \A id \in Ids, v \in BodyTexts : Write(Body(id), v) \in Steps
  /\ \A pid \in Pids, eid \in Eids, v \in ScriptTexts : Write(Script(pid, eid), v) \in Steps
  /\ \A x \in GoodIndexes : Write(Index, x) \in Steps
  /\ \A s \in Seq(GlobalEntry) : Write(GlobalIndex, s) \in Steps
  /\ \A f, v : Write(f, v).file = f /\ Write(f, v).to = v
<1>1. \A f, v : Write(f, v).file = f /\ Write(f, v).to = v
  BY DEF Write
<1>2. ASSUME NEW f \in Files \ {Runtime}, NEW v \in Values, Fits(f, v) PROVE Write(f, v) \in Steps
  <2>1. Write(f, v) \in [file : Files \ {Runtime}, to : Values]
    BY DEF Write
  <2> QED
    BY <1>1, <1>2, <2>1 DEF Steps
<1>3. \A id \in Ids, v \in BodyTexts : Write(Body(id), v) \in Steps
  BY <1>2, FilesAre, FilesDiffer, KindsDiffer DEF Fits, Values
<1>4. \A pid \in Pids, eid \in Eids, v \in ScriptTexts : Write(Script(pid, eid), v) \in Steps
  BY <1>2, FilesAre, FilesDiffer, KindsDiffer DEF Fits, Values
<1>5. \A x \in GoodIndexes : Write(Index, x) \in Steps
  BY <1>2, FilesAre, FilesDiffer, KindsDiffer DEF Fits, Values
<1>6. \A s \in Seq(GlobalEntry) : Write(GlobalIndex, s) \in Steps
  BY <1>2, FilesAre, FilesDiffer, KindsDiffer DEF Fits, Values
<1> QED
  BY <1>1, <1>3, <1>4, <1>5, <1>6

\* What makes a plan one that may begin.
IsSound(op, id, steps, refused, then) ==
  /\ steps \in Seq(Steps)
  /\ RollbacksEnded => Safe(steps, disk, Bodies)
  /\ torn = {} /\ op # "delete_enhancer" => Safe(steps, disk, Scripts)
  /\ torn = {} /\ op = "delete_enhancer" => InTheEnd(steps, disk, Scripts)
  /\ ~refused /\ then # "runtime" => \A i \in DOMAIN steps : Spares(steps[i], disk, op)
  /\ op = "update" /\ ~refused =>
       LET index == disk[Index]
           url   == index[Slot(index, id)].url
       IN  /\ id \in Ids /\ Has(index, id)
           /\ \A i \in DOMAIN steps : steps[i].file = Index => steps[i].to = index
           /\ \A i \in DOMAIN steps : steps[i].file = Body(id) => steps[i].to[1] = url
           /\ \E i \in DOMAIN steps : steps[i].file = Body(id)

\* A sound plan of any command but the start-up begins.
LEMMA PlanBegins ==
  ASSUME Inv, Idle, NEW op \in OpNames, op # "startup", NEW id \in Pids, NEW steps,
         NEW refused \in BOOLEAN, NEW then \in {"runtime", "nothing", "trial"}, NEW starts \in BOOLEAN,
         NEW captured \in {Captured, CapturedGlobal},
         IsSound(op, id, steps, refused, then),
         captured = Captured => \A i \in DOMAIN steps : steps[i].file # GlobalIndex,
         Begin(Command(op, id, steps, refused, then, starts, captured)),
         fetches' \subseteq fetches, editor' \in {editor, None}
  PROVE  Inv'
<1> DEFINE c == Command(op, id, steps, refused, then, starts, captured)
<1>1. IsDisk(disk)
  BY StoreHolds DEF Inv
<1>2. captured \in Seq(Files) /\ Index \in ToSet(captured) /\ Runtime \in ToSet(captured)
  BY CapturedAre DEF Untracked
<1>3. steps \in Seq(Steps)
  BY DEF IsSound
<1>4. /\ IsCommand(c) /\ c.op = op /\ c.id = id /\ c.phase = "write" /\ c.steps = steps
      /\ c.done = captured /\ c.refused = refused /\ c.then = then /\ c.before = disk
  BY <1>1, <1>2, <1>3, CommandIs
<1>5. /\ cmd' = c /\ cmd = NoCommand /\ alive'
      /\ UNCHANGED <<disk, core, settled, renamed, reported, torn, mishaps>>
  BY DEF Begin, Idle
<1> HIDE DEF c
<1>6. \A i \in DOMAIN steps : steps[i].file \in Untracked => steps[i].file \in ToSet(captured)
  BY <1>2, CapturedAre DEF Untracked
<1>7. Planned(c)
  BY <1>2, <1>4, <1>6 DEF Planned, IsSound
<1>8. alive' = TRUE
  BY <1>5 DEF Inv, Begin, StoreType
<1> QED
  BY <1>5, <1>7, <1>8, BeginKeeps

\* A plan that removes no file of F, and whose lists name what was named or what
\* it has written before them.
LEMMA SafePlan ==
  ASSUME NEW F \in {Bodies, Scripts}, NEW steps \in Seq(Steps), Intact(disk, F),
         \A i \in DOMAIN steps : steps[i].file \in F => steps[i].to # None,
         \A i \in DOMAIN steps : steps[i].file \in Lists =>
           \A f \in F : Names(steps[i].file, steps[i].to, f) =>
             \/ Names(steps[i].file, disk[steps[i].file], f)
             \/ \E k \in DOMAIN steps : k < i /\ steps[k].file = f
  PROVE  Safe(steps, disk, F)
<1>1. \A i \in DOMAIN steps, f \in F : ~Removes(steps[i], f)
  BY DEF Removes
<1>2. ASSUME NEW i \in DOMAIN steps, steps[i].file \in Lists, NEW f \in F,
             Names(steps[i].file, steps[i].to, f)
      PROVE  disk[f] # None \/ \E k \in DOMAIN steps : k < i /\ Puts(steps[k], f)
  <2>1. CASE Names(steps[i].file, disk[steps[i].file], f)
    BY <1>2, <2>1 DEF Intact
  <2>2. CASE \E k \in DOMAIN steps : k < i /\ steps[k].file = f
    BY <1>2, <2>2 DEF Puts
  <2> QED
    BY <1>2, <2>1, <2>2
<1> QED
  BY <1>1, <1>2 DEF Safe

LEMMA IdleFiles ==
  ASSUME Inv, Idle
  PROVE  /\ IsDisk(disk) /\ disk[Index] \in GoodIndexes /\ disk[GlobalIndex] \in Seq(GlobalEntry)
         /\ RollbacksEnded => Intact(disk, Bodies)
         /\ torn = {} => Intact(disk, Scripts)
         /\ \A u \in fetches : u.id \in Ids /\ u.text \in Contents /\ u.text[1] = u.url
         /\ editor # None => editor.id \in Ids
<1>1. StoreType /\ BodiesKept /\ ScriptsKept
  BY DEF Inv
<1>2. cmd.phase = "idle"
  BY IdleIs DEF Idle
<1>3. (RollbacksEnded => Intact(disk, Bodies)) /\ (torn = {} => Intact(disk, Scripts))
  BY <1>1, <1>2 DEF BodiesKept, ScriptsKept, Kept
<1> QED
  BY <1>1, <1>3, DiskHolds DEF StoreType

\* Plans of one and of two steps.
LEMMA OneStep ==
  ASSUME NEW a \in Steps
  PROVE  <<a>> \in Seq(Steps) /\ DOMAIN <<a>> = {1} /\ <<a>>[1] = a
  OBVIOUS

LEMMA TwoSteps ==
  ASSUME NEW a \in Steps, NEW b \in Steps
  PROVE  <<a, b>> \in Seq(Steps) /\ DOMAIN <<a, b>> = {1, 2} /\ <<a, b>>[1] = a /\ <<a, b>>[2] = b
  OBVIOUS

LEMMA ThreeSteps ==
  ASSUME NEW a \in Steps, NEW b \in Steps, NEW c \in Steps
  PROVE  /\ <<a, b, c>> \in Seq(Steps) /\ DOMAIN <<a, b, c>> = {1, 2, 3}
         /\ <<a, b, c>>[1] = a /\ <<a, b, c>>[2] = b /\ <<a, b, c>>[3] = c
  OBVIOUS

LEMMA AffectsIs ==
  /\ \A b : b => Affects(b) = "runtime"
  /\ \A b : ~b => Affects(b) = "nothing"
  /\ \A b : Affects(b) \in {"runtime", "nothing", "trial"}
  BY DEF Affects

(******************************* the commands ********************************)

\* A file, and then a list that may name it.
LEMMA PutThenList ==
  ASSUME Inv, Idle, NEW a \in Steps, NEW b \in Steps, a.file \notin Lists, a.to # None, b.file \in Lists,
         \A f : Names(b.file, b.to, f) => Names(b.file, disk[b.file], f) \/ f = a.file,
         NEW s, s = <<a, b>>
  PROVE  /\ RollbacksEnded => Safe(s, disk, Bodies)
         /\ torn = {} => Safe(s, disk, Scripts)
<1>1. s \in Seq(Steps) /\ DOMAIN s = {1, 2} /\ s[1] = a /\ s[2] = b
  BY TwoSteps
<1>2. ASSUME NEW F \in {Bodies, Scripts}, Intact(disk, F) PROVE Safe(s, disk, F)
  <2>1. b.file \notin F
    BY KindsDiffer DEF Lists
  <2>2. \A i \in DOMAIN s : s[i].file \in F => s[i].to # None
    BY <1>1, <2>1
  <2>3. ASSUME NEW i \in DOMAIN s, s[i].file \in Lists, NEW f \in F, Names(s[i].file, s[i].to, f)
        PROVE  \/ Names(s[i].file, disk[s[i].file], f)
               \/ \E k \in DOMAIN s : k < i /\ s[k].file = f
    <3>1. i = 2 /\ s[i] = b
      BY <1>1, <2>3
    <3>2. 1 \in DOMAIN s /\ 1 < i /\ s[1] = a
      BY <1>1, <3>1
    <3> QED
      BY <2>3, <3>1, <3>2
  <2> QED
    BY <1>1, <1>2, <2>2, <2>3, SafePlan
<1> QED
  BY <1>2, IdleFiles

\* A list that names nothing new.
LEMMA ListOnly ==
  ASSUME Inv, Idle, NEW b \in Steps, b.file \in Lists,
         \A f : Names(b.file, b.to, f) => Names(b.file, disk[b.file], f), NEW s, s = <<b>>
  PROVE  /\ RollbacksEnded => Safe(s, disk, Bodies)
         /\ torn = {} => Safe(s, disk, Scripts)
<1>1. s \in Seq(Steps) /\ DOMAIN s = {1} /\ s[1] = b
  BY OneStep
<1>2. ASSUME NEW F \in {Bodies, Scripts}, Intact(disk, F) PROVE Safe(s, disk, F)
  <2>1. b.file \notin F
    BY KindsDiffer DEF Lists
  <2>2. \A i \in DOMAIN s : s[i].file \in F => s[i].to # None
    BY <1>1, <2>1
  <2> QED
    BY <1>1, <1>2, <2>2, SafePlan
<1> QED
  BY <1>2, IdleFiles

\* A file alone.
LEMMA PutOnly ==
  ASSUME Inv, Idle, NEW a \in Steps, a.file \notin Lists, a.to # None, NEW s, s = <<a>>
  PROVE  /\ RollbacksEnded => Safe(s, disk, Bodies)
         /\ torn = {} => Safe(s, disk, Scripts)
<1>1. s \in Seq(Steps) /\ DOMAIN s = {1} /\ s[1] = a
  BY OneStep
<1>2. ASSUME NEW F \in {Bodies, Scripts}, Intact(disk, F) PROVE Safe(s, disk, F)
  BY <1>1, <1>2, SafePlan
<1> QED
  BY <1>2, IdleFiles

\* A profile that is not the current one feeds nothing to the build.
LEMMA NotFeeding ==
  ASSUME NEW x \in GoodIndexes, NEW id \in Ids, \A i \in 1 .. Len(x) : x[i].current => x[i].id # id
  PROVE  ~Feeds(Body(id), x) /\ \A e : ~Feeds(Script(id, e), x)
<1>1. HasCurrent(x) => CurrentOf(x).id # id
  BY HasCurrentIs
<1>2. Global # id
  BY NamesAreDistinct
<1> QED
  BY <1>1, <1>2, FilesDiffer DEF Feeds

LEMMA NotCurrent ==
  ASSUME NEW x \in GoodIndexes, NEW id, Has(x, id), ~x[Slot(x, id)].current
  PROVE  \A i \in 1 .. Len(x) : x[i].current => x[i].id # id
  BY SlotIs

LEMMA UpdateMetaKeeps ==
  ASSUME Inv, NEW id \in Ids, NEW url \in Urls \cup {Local}, NEW name \in ProfileNames,
         UpdateMeta(id, url, name)
  PROVE  Inv'
<1> DEFINE x == disk[Index]
           y == [x EXCEPT ![Slot(x, id)].url = url, ![Slot(x, id)].name = name]
           w == Write(Index, y)
           s == <<w>>
<1>1. /\ Idle /\ Has(x, id) /\ Begin(Command("update_meta", id, s, FALSE, "nothing", FALSE, Captured))
      /\ fetches' = fetches /\ editor' = editor
  BY DEF UpdateMeta, Take
<1>2. x \in GoodIndexes
  BY <1>1, IdleFiles
<1>3. y \in GoodIndexes /\ SameCurrent(x, y, "update_meta") /\ \A f : Names(Index, y, f) => Names(Index, x, f)
  BY <1>1, <1>2, MetaChanged
<1> HIDE DEF y
<1>4. w \in Steps /\ w.file = Index /\ w.to = y
  BY <1>3, WriteFits
<1> HIDE DEF w
<1>5. s \in Seq(Steps) /\ DOMAIN s = {1} /\ s[1] = w
  BY <1>4, OneStep
<1>6. /\ RollbacksEnded => Safe(s, disk, Bodies)
      /\ torn = {} => Safe(s, disk, Scripts)
  BY <1>1, <1>3, <1>4, ListOnly DEF Lists
<1> HIDE DEF s
<1>7. Spares(w, disk, "update_meta")
  BY <1>3, <1>4, FilesDiffer DEF Spares, Feeds
<1>8. IsSound("update_meta", id, s, FALSE, "nothing")
  BY <1>5, <1>6, <1>7 DEF IsSound
<1>9. \A i \in DOMAIN s : s[i].file # GlobalIndex
  BY <1>4, <1>5, FilesDiffer
<1> QED
  BY <1>1, <1>8, <1>9, PlanBegins DEF OpNames, Pids

LEMMA SelectKeeps == ASSUME Inv, NEW id \in Ids, Select(id) PROVE Inv'
<1> DEFINE x == disk[Index]
           y == [i \in DOMAIN x |-> [x[i] EXCEPT !.current = x[i].id = id]]
           w == Write(Index, y)
           s == <<w>>
<1>1. /\ Idle /\ Has(x, id) /\ Begin(Command("select", id, s, FALSE, "runtime", FALSE, Captured))
      /\ fetches' = fetches /\ editor' = editor
  BY DEF Select, Take
<1>2. x \in GoodIndexes
  BY <1>1, IdleFiles
<1>3. y \in GoodIndexes /\ \A f : Names(Index, y, f) => Names(Index, x, f)
  BY <1>1, <1>2, IndexSelected
<1> HIDE DEF y
<1>4. w \in Steps /\ w.file = Index /\ w.to = y
  BY <1>3, WriteFits
<1> HIDE DEF w
<1>5. s \in Seq(Steps) /\ DOMAIN s = {1} /\ s[1] = w
  BY <1>4, OneStep
<1>6. /\ RollbacksEnded => Safe(s, disk, Bodies)
      /\ torn = {} => Safe(s, disk, Scripts)
  BY <1>1, <1>3, <1>4, ListOnly DEF Lists
<1> HIDE DEF s
<1>8. IsSound("select", id, s, FALSE, "runtime")
  BY <1>5, <1>6 DEF IsSound
<1>9. \A i \in DOMAIN s : s[i].file # GlobalIndex
  BY <1>4, <1>5, FilesDiffer
<1> QED
  BY <1>1, <1>8, <1>9, PlanBegins DEF OpNames, Pids

LEMMA ImportKeeps ==
  ASSUME Inv, NEW id \in Ids, NEW url \in Urls \cup {Local}, NEW name \in ProfileNames,
         NEW q \in Qualities, Import(id, url, name, q)
  PROVE  Inv'
<1> DEFINE x  == disk[Index]
           first == (x = <<>>)
           y  == Append(x, Meta(id, url, name, first))
           w1 == Write(Body(id), <<url, q>>)
           w2 == Write(Script(id, Prune), Builtin)
           w3 == Write(Index, y)
           s  == <<w1, w2, w3>>
           op == IF url = Local THEN "import_file" ELSE "import"
<1>1. /\ Idle /\ Fresh(id) /\ Begin(Command(op, id, s, FALSE, Affects(first), first, Captured))
      /\ fetches' = fetches /\ editor' = editor
  BY DEF Import, Take
<1>2. x \in GoodIndexes /\ ~Has(x, id)
  BY <1>1, IdleFiles DEF Fresh
<1>3. /\ y \in GoodIndexes /\ (x # <<>> => \A o : SameCurrent(x, y, o))
      /\ \A f : Names(Index, y, f) => Names(Index, x, f) \/ f = Body(id) \/ f = Script(id, Prune)
  BY <1>2, IndexAppended
<1> HIDE DEF y
<1>4. w1 \in Steps /\ w1.file = Body(id) /\ w1.to # None
  <2>1. <<url, q>> \in Contents
    BY DEF Contents
  <2> QED
    BY <2>1, WriteFits, NoneIsNoText DEF BodyTexts
<1>5. w2 \in Steps /\ w2.file = Script(id, Prune) /\ w2.to # None
  BY WriteFits, NoneIsNoText DEF ScriptTexts, Pids, Eids
<1>6. w3 \in Steps /\ w3.file = Index /\ w3.to = y
  BY <1>3, WriteFits
<1> HIDE DEF w1, w2, w3
<1>7. s \in Seq(Steps) /\ DOMAIN s = {1, 2, 3} /\ s[1] = w1 /\ s[2] = w2 /\ s[3] = w3
  BY <1>4, <1>5, <1>6, ThreeSteps
<1> HIDE DEF s
<1>8. ASSUME NEW F \in {Bodies, Scripts}, Intact(disk, F) PROVE Safe(s, disk, F)
  <2>1. Index \notin F
    BY KindsDiffer
  <2>2. \A i \in DOMAIN s : s[i].file \in F => s[i].to # None
    BY <1>4, <1>5, <1>6, <1>7, <2>1
  <2>3. ASSUME NEW i \in DOMAIN s, s[i].file \in Lists, NEW f \in F, Names(s[i].file, s[i].to, f)
        PROVE  \/ Names(s[i].file, disk[s[i].file], f)
               \/ \E k \in DOMAIN s : k < i /\ s[k].file = f
    <3>1. i = 3 /\ s[i] = w3
      BY <1>4, <1>5, <1>7, <2>3, FilesDiffer DEF Lists
    <3>2. 1 \in DOMAIN s /\ 2 \in DOMAIN s /\ 1 < i /\ 2 < i
      BY <1>7, <3>1
    <3> QED
      BY <1>3, <1>4, <1>5, <1>6, <1>7, <2>3, <3>1, <3>2
  <2> QED
    BY <1>7, <1>8, <2>2, <2>3, SafePlan
<1>9. ASSUME ~first PROVE \A i \in DOMAIN s : Spares(s[i], disk, op)
  <2>1. \A i \in 1 .. Len(x) : x[i].current => x[i].id # id
    BY <1>2, IndexIs DEF Has
  <2>2. ~Feeds(Body(id), x) /\ \A e : ~Feeds(Script(id, e), x)
    BY <1>2, <2>1, NotFeeding
  <2>3. Spares(w1, disk, op)
    BY <1>4, <2>2, FilesDiffer DEF Spares
  <2>4. Spares(w2, disk, op)
    BY <1>5, <2>2, FilesDiffer DEF Spares
  <2>5. Spares(w3, disk, op)
    BY <1>3, <1>6, <1>9, FilesDiffer DEF Spares, Feeds
  <2> QED
    BY <1>7, <2>3, <2>4, <2>5
<1>10. first \in BOOLEAN /\ op \in OpNames /\ op # "startup" /\ op # "delete_enhancer" /\ op # "update"
  BY DEF OpNames
<1>11. Affects(first) \in {"runtime", "nothing", "trial"} /\ (first => Affects(first) = "runtime")
  BY AffectsIs
<1> HIDE DEF op, first
<1>12. IsSound(op, id, s, FALSE, Affects(first))
  BY <1>1, <1>7, <1>8, <1>9, <1>10, <1>11, IdleFiles DEF IsSound
<1>13. \A i \in DOMAIN s : s[i].file # GlobalIndex
  BY <1>4, <1>5, <1>6, <1>7, FilesDiffer
<1> QED
  BY <1>1, <1>10, <1>11, <1>12, <1>13, PlanBegins DEF Pids

\* Sequences are equal when their elements are.
LEMMA SameSequence ==
  ASSUME NEW X, NEW s \in Seq(X), NEW t \in Seq(X), Len(s) = Len(t), \A i \in 1 .. Len(s) : s[i] = t[i]
  PROVE  s = t
  OBVIOUS

Joined(X, r, s, t) ==
  /\ r \in Seq(X) /\ Len(r) = Len(s) + Len(t)
  /\ \A i \in 1 .. Len(s) : r[i] = s[i]
  /\ \A i \in 1 .. Len(r) : i \in 1 .. Len(s) \/ (i - Len(s)) \in 1 .. Len(t)
  /\ \A i \in 1 .. Len(r) : i \notin 1 .. Len(s) => r[i] = t[i - Len(s)]

LEMMA JoinedIs == ASSUME NEW X, NEW s \in Seq(X), NEW t \in Seq(X) PROVE Joined(X, s \o t, s, t)
  BY ConcatIs DEF Joined

LEMMA PairIs == ASSUME NEW a \in Steps, NEW b \in Steps PROVE <<a>> \o <<b>> = <<a, b>>
<1> DEFINE p == <<a>>
           q == <<b>>
           t == <<a, b>>
<1>1. p \in Seq(Steps) /\ Len(p) = 1 /\ p[1] = a /\ q \in Seq(Steps) /\ Len(q) = 1 /\ q[1] = b
  OBVIOUS
<1>2. t \in Seq(Steps) /\ Len(t) = 2 /\ t[1] = a /\ t[2] = b
  OBVIOUS
<1> HIDE DEF p, q, t
<1>3. PICK r : r = p \o q
  OBVIOUS
<1>4. Joined(Steps, r, p, q)
  BY <1>1, <1>3, JoinedIs
<1>5. r \in Seq(Steps) /\ Len(r) = 2 /\ r[1] = a /\ r[2] = b
  BY <1>1, <1>4 DEF Joined
<1>6. r = t
  BY <1>2, <1>5, SameSequence
<1> QED
  BY <1>3, <1>6 DEF p, q, t

LEMMA UpdateKeeps == ASSUME Inv, NEW u \in fetches, Update(u) PROVE Inv'
<1> DEFINE x  == disk[Index]
           known == Has(x, u.id) /\ x[Slot(x, u.id)].url = u.url
           w1 == Write(Body(u.id), u.text)
           w2 == Write(Index, x)
           s  == <<w1>> \o (IF known THEN <<w2>> ELSE <<>>)
           b  == known /\ x[Slot(x, u.id)].current
           r  == ~known
<1>1. /\ Idle /\ fetches' \subseteq fetches /\ editor' = editor
      /\ Begin(Command("update", u.id, s, r, Affects(b), FALSE, Captured))
  BY DEF Update, Take
<1>2. x \in GoodIndexes /\ u.id \in Ids /\ u.text \in Contents /\ u.text[1] = u.url
  BY <1>1, IdleFiles
<1>3. w1 \in Steps /\ w1.file = Body(u.id) /\ w1.to = u.text /\ w1.to # None
  BY <1>2, WriteFits, NoneIsNoText DEF BodyTexts
<1>4. w2 \in Steps /\ w2.file = Index /\ w2.to = x
  BY <1>2, WriteFits
<1>5. r \in BOOLEAN /\ Affects(b) \in {"runtime", "nothing", "trial"}
      /\ (b => Affects(b) = "runtime")
  BY AffectsIs
<1> HIDE DEF w1, w2
<1>6. CASE known
  <2>1. s = <<w1, w2>>
    <3>1. s = <<w1>> \o <<w2>>
      BY <1>6
    <3> HIDE DEF s
    <3> QED
      BY <1>3, <1>4, <3>1, PairIs
  <2> HIDE DEF s
  <2>2. s \in Seq(Steps) /\ DOMAIN s = {1, 2} /\ s[1] = w1 /\ s[2] = w2
    BY <1>3, <1>4, <2>1, TwoSteps
  <2>3. /\ RollbacksEnded => Safe(s, disk, Bodies)
        /\ torn = {} => Safe(s, disk, Scripts)
    <3>1. w1.file \notin Lists /\ w2.file \in Lists
      BY <1>3, <1>4, FilesDiffer DEF Lists
    <3> QED
      BY <1>1, <1>3, <1>4, <2>1, <3>1, PutThenList
  <2>4. ASSUME ~b PROVE \A i \in DOMAIN s : Spares(s[i], disk, "update")
    <3>1. \A i \in 1 .. Len(x) : x[i].current => x[i].id # u.id
      BY <1>2, <1>6, <2>4, NotCurrent
    <3>2. ~Feeds(Body(u.id), x)
      BY <1>2, <3>1, NotFeeding
    <3>3. Spares(w1, disk, "update")
      BY <1>3, <3>2, FilesDiffer DEF Spares
    <3>4. Spares(w2, disk, "update")
      BY <1>4, FilesDiffer, SameCurrentItself DEF Spares, Feeds
    <3> QED
      BY <2>2, <3>3, <3>4
  <2>5. \A i \in DOMAIN s : s[i].file = Index => s[i].to = x
    BY <1>3, <1>4, <2>2, FilesDiffer
  <2>6. \A i \in DOMAIN s : s[i].file = Body(u.id) => s[i].to[1] = x[Slot(x, u.id)].url
    BY <1>2, <1>3, <1>4, <1>6, <2>2, FilesDiffer
  <2>7. \E i \in DOMAIN s : s[i].file = Body(u.id)
    BY <1>3, <2>2
  <2>8. IsSound("update", u.id, s, r, Affects(b))
    BY <1>2, <1>5, <1>6, <2>2, <2>3, <2>4, <2>5, <2>6, <2>7 DEF IsSound
  <2>9. \A i \in DOMAIN s : s[i].file # GlobalIndex
    BY <1>3, <1>4, <2>2, FilesDiffer
  <2> HIDE DEF r, b
  <2> QED
    BY <1>1, <1>2, <1>5, <2>8, <2>9, PlanBegins DEF OpNames, Pids
<1>7. CASE ~known
  <2>1. s = <<w1>>
    <3>1. s = <<w1>> \o <<>>
      BY <1>7
    <3> QED
      BY <1>3, <3>1
  <2>2. s \in Seq(Steps) /\ DOMAIN s = {1} /\ s[1] = w1
    BY <1>3, <2>1, OneStep
  <2> HIDE DEF s
  <2>3. /\ RollbacksEnded => Safe(s, disk, Bodies)
        /\ torn = {} => Safe(s, disk, Scripts)
    <3>1. w1.file \notin Lists
      BY <1>3, FilesDiffer DEF Lists
    <3> QED
      BY <1>1, <1>3, <2>1, <3>1, PutOnly
  <2>4. IsSound("update", u.id, s, r, Affects(b))
    BY <1>7, <2>2, <2>3 DEF IsSound
  <2>5. \A i \in DOMAIN s : s[i].file # GlobalIndex
    BY <1>3, <2>2, FilesDiffer
  <2> HIDE DEF r, b
  <2> QED
    BY <1>1, <1>2, <1>5, <2>4, <2>5, PlanBegins DEF OpNames, Pids
<1> QED
  BY <1>6, <1>7

\* save_content_checked, for both of its callers.
LEMMA SaveBodyKeeps ==
  ASSUME Inv, Idle, NEW op \in {"save_content", "edit"}, NEW id \in Ids, NEW q \in Qualities,
         NEW checked \in BOOLEAN, Has(disk[Index], id), Begin(SaveBody(op, id, q, checked)),
         fetches' = fetches, editor' \in {editor, None}
  PROVE  Inv'
<1> DEFINE x  == disk[Index]
           w1 == Write(Body(id), <<Local, q>>)
           w2 == Write(Index, x)
           s  == <<w1, w2>>
           current == x[Slot(x, id)].current
           then == IF current THEN "runtime" ELSE IF checked THEN "trial" ELSE "nothing"
<1>1. x \in GoodIndexes
  BY IdleFiles
<1>2. w1 \in Steps /\ w1.file = Body(id) /\ w1.to # None
  <2>1. <<Local, q>> \in Contents
    BY DEF Contents
  <2> QED
    BY <2>1, WriteFits, NoneIsNoText DEF BodyTexts
<1>3. w2 \in Steps /\ w2.file = Index /\ w2.to = x
  BY <1>1, WriteFits
<1>4. /\ then \in {"runtime", "nothing", "trial"} /\ (current => then = "runtime")
      /\ Begin(Command(op, id, s, FALSE, then, FALSE, Captured))
  BY DEF SaveBody
<1> HIDE DEF w1, w2, then
<1>5. s \in Seq(Steps) /\ DOMAIN s = {1, 2} /\ s[1] = w1 /\ s[2] = w2
  BY <1>2, <1>3, TwoSteps
<1>6. /\ RollbacksEnded => Safe(s, disk, Bodies)
      /\ torn = {} => Safe(s, disk, Scripts)
  <2>1. w1.file \notin Lists /\ w2.file \in Lists
    BY <1>2, <1>3, FilesDiffer DEF Lists
  <2> QED
    BY <1>2, <1>3, <2>1, PutThenList
<1> HIDE DEF s
<1>7. ASSUME ~current PROVE \A i \in DOMAIN s : Spares(s[i], disk, op)
  <2>1. \A i \in 1 .. Len(x) : x[i].current => x[i].id # id
    BY <1>1, <1>7, NotCurrent
  <2>2. ~Feeds(Body(id), x)
    BY <1>1, <2>1, NotFeeding
  <2>3. Spares(w1, disk, op)
    BY <1>2, <2>2, FilesDiffer DEF Spares
  <2>4. Spares(w2, disk, op)
    BY <1>3, FilesDiffer, SameCurrentItself DEF Spares, Feeds
  <2> QED
    BY <1>5, <2>3, <2>4
<1>8. IsSound(op, id, s, FALSE, then)
  BY <1>4, <1>5, <1>6, <1>7 DEF IsSound
<1>9. \A i \in DOMAIN s : s[i].file # GlobalIndex
  BY <1>2, <1>3, <1>5, FilesDiffer
<1> QED
  BY <1>4, <1>8, <1>9, PlanBegins DEF OpNames, Pids

LEMMA SaveContentKeeps ==
  ASSUME Inv, NEW id \in Ids, NEW q \in Qualities, SaveContent(id, q) PROVE Inv'
  BY SaveBodyKeeps DEF SaveContent, Take

LEMMA SaveTopologyKeeps == ASSUME Inv, NEW q \in Qualities, SaveTopology(q) PROVE Inv'
<1>1. Idle /\ editor # None /\ editor' = None /\ fetches' = fetches
  BY DEF SaveTopology, Take
<1>2. editor.id \in Ids
  BY <1>1, IdleFiles
<1>3. \/ Has(disk[Index], editor.id) /\ Begin(SaveBody("edit", editor.id, q, TRUE))
      \/ UNCHANGED <<disk, cmd, core, alive, settled, renamed, reported, torn, mishaps>>
  BY DEF SaveTopology
<1>4. CASE UNCHANGED <<disk, cmd, core, alive, settled, renamed, reported, torn, mishaps>>
  <2>1. StoreType /\ CommandType
    BY DEF Inv
  <2>2. StoreType'
    BY <1>1, <1>4, <2>1 DEF StoreType
  <2> QED
    BY <1>4, <2>1, <2>2, BesideKeeps DEF CommandType
<1> QED
  BY <1>1, <1>2, <1>3, <1>4, SaveBodyKeeps

LEMMA DeleteKeeps == ASSUME Inv, NEW id \in Ids, Delete(id) PROVE Inv'
<1> DEFINE x  == disk[Index]
           old == x[Slot(x, id)]
           y  == Without(x, id)
           w1 == Write(Index, y)
           w2 == Write(Body(id), None)
           es == old.enhs
           m  == Len(es)
           t  == [i \in DOMAIN es |-> Write(Script(id, es[i].eid), None)]
           s  == <<w1, w2>> \o t
           b  == old.current
<1>1. /\ Idle /\ Has(x, id) /\ Begin(Command("delete", id, s, FALSE, Affects(b), FALSE, Captured))
      /\ fetches' = fetches /\ editor' = editor
  BY DEF Delete, Take
<1>2. x \in GoodIndexes
  BY <1>1, IdleFiles
<1>3. /\ y \in GoodIndexes /\ (~b => \A op : SameCurrent(x, y, op))
      /\ \A f : Names(Index, y, f) => Names(Index, x, f) /\ f # Body(id) /\ \A e : f # Script(id, e)
  BY <1>1, <1>2, IndexWithout
<1>4. es \in Seq(Entry) /\ m \in Nat /\ DOMAIN es = 1 .. m /\ \A i \in 1 .. m : es[i].eid \in Eids
  <2>1. es \in Seq(Entry)
    BY <1>1, <1>2, SlotIs, IndexIs DEF Entry
  <2> HIDE DEF es
  <2>2. m \in Nat /\ DOMAIN es = 1 .. m /\ \A i \in 1 .. m : es[i] \in Entry
    BY <2>1
  <2> QED
    BY <2>1, <2>2 DEF Entry
<1> HIDE DEF y, old, es, m
<1>5. w1 \in Steps /\ w1.file = Index /\ w1.to = y
  BY <1>3, WriteFits
<1>6. w2 \in Steps /\ w2.file = Body(id) /\ w2.to = None
  BY WriteFits DEF BodyTexts
<1>7. /\ t \in Seq(Steps) /\ Len(t) = m
      /\ \A i \in 1 .. m : t[i].to = None /\ \E e \in Eids : t[i].file = Script(id, e)
  <2>1. \A i \in 1 .. m : /\ t[i] \in Steps /\ t[i].to = None /\ t[i].file = Script(id, es[i].eid)
    BY <1>4, WriteFits DEF ScriptTexts, Pids
  <2>2. t = [i \in 1 .. m |-> t[i]]
    BY <1>4
  <2> HIDE DEF t
  <2>3. t \in Seq(Steps) /\ Len(t) = m
    BY <1>4, <2>1, <2>2
  <2> QED
    BY <1>4, <2>1, <2>3
<1> HIDE DEF w1, w2, t
<1>8. /\ s \in Seq(Steps) /\ DOMAIN s = 1 .. m + 2 /\ s[1] = w1 /\ s[2] = w2
      /\ \A i \in 1 .. m + 2 : i = 1 \/ i = 2 \/ (i - 2 \in 1 .. m /\ s[i] = t[i - 2])
  <2> DEFINE p == <<w1, w2>>
  <2>1. p \in Seq(Steps) /\ Len(p) = 2 /\ p[1] = w1 /\ p[2] = w2
    BY <1>5, <1>6
  <2>2. s = p \o t
    OBVIOUS
  <2> HIDE DEF p, s
  <2>3. Joined(Steps, s, p, t)
    BY <1>7, <2>1, <2>2, JoinedIs
  <2>4. /\ s \in Seq(Steps) /\ Len(s) = 2 + m
        /\ \A i \in 1 .. 2 : s[i] = p[i]
        /\ \A i \in 1 .. Len(s) : i \in 1 .. 2 \/ (i - 2) \in 1 .. m
        /\ \A i \in 1 .. Len(s) : i \notin 1 .. 2 => s[i] = t[i - 2]
    BY <1>7, <2>1, <2>3 DEF Joined
  <2>5. s[1] = w1 /\ s[2] = w2 /\ DOMAIN s = 1 .. m + 2
    BY <1>4, <2>1, <2>4
  <2> QED
    BY <1>4, <2>4, <2>5
<1> HIDE DEF s
<1>9. ASSUME NEW i \in DOMAIN s
      PROVE  \/ i = 1 /\ s[i] = w1
             \/ /\ i \in Nat /\ i > 1 /\ s[i].to = None
                /\ s[i].file = Body(id) \/ \E e \in Eids : s[i].file = Script(id, e)
  <2>1. i \in 1 .. m + 2 /\ (i = 1 \/ i = 2 \/ (i - 2 \in 1 .. m /\ s[i] = t[i - 2]))
    BY <1>8
  <2>2. i \in Nat /\ (i = 1 \/ i > 1)
    BY <1>4, <2>1
  <2>3. CASE i = 1 \/ i = 2
    BY <1>6, <1>8, <2>2, <2>3
  <2>4. CASE i - 2 \in 1 .. m /\ s[i] = t[i - 2]
    BY <1>4, <1>7, <2>2, <2>4
  <2> QED
    BY <2>1, <2>3, <2>4
<1>10. \A i \in DOMAIN s : s[i].file \in Lists => i = 1 /\ s[i] = w1
  BY <1>9, FilesDiffer DEF Lists
<1>11. 1 \in DOMAIN s /\ s[1] = w1
  BY <1>4, <1>8
<1>12. ASSUME NEW F \in {Bodies, Scripts}, Intact(disk, F) PROVE Safe(s, disk, F)
  <2>1. ASSUME NEW i \in DOMAIN s, s[i].file \in Lists, NEW f \in F, Names(s[i].file, s[i].to, f)
        PROVE  disk[f] # None
    <3>1. Names(Index, x, f)
      BY <1>3, <1>5, <1>10, <2>1
    <3> QED
      BY <1>12, <3>1 DEF Intact, Lists
  <2>2. ASSUME NEW i \in DOMAIN s, NEW f \in F, Removes(s[i], f), NEW l \in Lists
        PROVE  /\ \A k \in DOMAIN s : s[k].file = l => k < i /\ ~Names(l, s[k].to, f)
               /\ (\A k \in DOMAIN s : s[k].file # l) => ~Names(l, disk[l], f)
    <3>1. i # 1
      BY <1>5, <1>11, <2>2, KindsDiffer DEF Removes
    <3>2. i \in Nat /\ i > 1 /\ (f = Body(id) \/ \E e \in Eids : f = Script(id, e))
      BY <1>9, <2>2, <3>1 DEF Removes
    <3>3. ASSUME NEW k \in DOMAIN s, s[k].file = l PROVE k < i /\ ~Names(l, s[k].to, f)
      BY <1>3, <1>5, <1>10, <3>2, <3>3
    <3>4. ASSUME \A k \in DOMAIN s : s[k].file # l PROVE ~Names(l, disk[l], f)
      <4>1. l = GlobalIndex
        BY <1>5, <1>11, <3>4 DEF Lists
      <4>2. id # Global
        BY NamesAreDistinct
      <4> QED
        BY <3>2, <4>1, <4>2, NamesAre
    <3> QED
      BY <3>3, <3>4
  <2> QED
    BY <2>1, <2>2 DEF Safe
<1>13. ASSUME ~b PROVE \A i \in DOMAIN s : Spares(s[i], disk, "delete")
  <2>1. \A i \in 1 .. Len(x) : x[i].current => x[i].id # id
    BY <1>1, <1>2, <1>13, NotCurrent DEF old
  <2>2. ~Feeds(Body(id), x) /\ \A e : ~Feeds(Script(id, e), x)
    BY <1>2, <2>1, NotFeeding
  <2>3. Spares(w1, disk, "delete")
    BY <1>3, <1>5, <1>13, FilesDiffer DEF Spares, Feeds
  <2>4. \A i \in DOMAIN s : s[i] # w1 => Spares(s[i], disk, "delete")
    BY <1>9, <2>2, FilesDiffer DEF Spares
  <2> QED
    BY <2>3, <2>4
<1>14. Affects(b) \in {"runtime", "nothing", "trial"} /\ (b => Affects(b) = "runtime")
  BY AffectsIs
<1> HIDE DEF b
<1>15. IsSound("delete", id, s, FALSE, Affects(b))
  BY <1>1, <1>8, <1>12, <1>13, <1>14, IdleFiles DEF IsSound
<1>16. \A i \in DOMAIN s : s[i].file # GlobalIndex
  BY <1>5, <1>10, FilesDiffer DEF Lists
<1> QED
  BY <1>1, <1>14, <1>15, <1>16, PlanBegins DEF OpNames, Pids

(*************************** the enhancer commands ***************************)

List(pid)    == IF pid = Global THEN GlobalIndex ELSE Index
EntryOf(pid) == IF pid = Global THEN GlobalEntry ELSE Entry

LEMMA EntriesOf == ASSUME NEW pid, NEW es \in Seq(EntryOf(pid)) PROVE es \in Seq(Entry)
<1>1. EntryOf(pid) \subseteq Entry
  BY DEF EntryOf, GlobalEntry, Entry, Eids
<1>2. Len(es) \in Nat /\ es = [i \in 1 .. Len(es) |-> es[i]] /\ \A i \in 1 .. Len(es) : es[i] \in EntryOf(pid)
  OBVIOUS
<1> DEFINE m == Len(es)
<1>3. m \in Nat /\ es = [i \in 1 .. m |-> es[i]] /\ \A i \in 1 .. m : es[i] \in Entry
  BY <1>1, <1>2
<1> HIDE DEF m
<1> QED
  BY <1>3

LEMMA EntriesAre ==
  ASSUME IsDisk(disk), NEW pid \in Pids, InScope(pid)
  PROVE  /\ Entries(pid) \in Seq(EntryOf(pid)) /\ Entries(pid) \in Seq(Entry)
         /\ \A i \in DOMAIN Entries(pid) : Names(List(pid), disk[List(pid)], Script(pid, Entries(pid)[i].eid))
         /\ ~AffectsRuntime(pid) => pid \in Ids /\ Has(disk[Index], pid)
                                      /\ ~disk[Index][Slot(disk[Index], pid)].current
<1> DEFINE x == disk[Index]
<1>1. x \in GoodIndexes /\ disk[GlobalIndex] \in Seq(GlobalEntry)
  BY DiskHolds
<1>2. CASE pid = Global
  <2>1. Entries(pid) = disk[GlobalIndex] /\ List(pid) = GlobalIndex /\ EntryOf(pid) = GlobalEntry
    BY <1>2 DEF Entries, List, EntryOf
  <2> QED
    BY <1>1, <1>2, <2>1, EntriesOf, NamesAre DEF AffectsRuntime
<1>3. CASE pid # Global
  <2>1. /\ Entries(pid) = x[Slot(x, pid)].enhs /\ List(pid) = Index /\ EntryOf(pid) = Entry
        /\ Has(x, pid) /\ pid \in Ids
    BY <1>3 DEF Entries, List, EntryOf, InScope, Pids
  <2>2. Slot(x, pid) \in 1 .. Len(x) /\ x[Slot(x, pid)].id = pid
    BY <1>1, <2>1, SlotIs
  <2>3. Entries(pid) \in Seq(Entry) /\ Slot(x, pid) \in DOMAIN x
    <3>1. /\ DOMAIN x = 1 .. Len(x)
          /\ \A i \in 1 .. Len(x) : x[i].enhs \in Seq([eid : Eids, on : BOOLEAN])
      BY <1>1, IndexIs
    <3>2. Entry = [eid : Eids, on : BOOLEAN]
      BY DEF Entry
    <3> HIDE DEF x
    <3> QED
      BY <2>1, <2>2, <3>1, <3>2
  <2>4. \A i \in DOMAIN Entries(pid) : Names(Index, x, Script(pid, Entries(pid)[i].eid))
    BY <2>1, <2>2, <2>3, NamesAre
  <2>5. ~AffectsRuntime(pid) => ~x[Slot(x, pid)].current
    BY DEF AffectsRuntime
  <2>6. \A i \in DOMAIN Entries(pid) : Names(List(pid), disk[List(pid)], Script(pid, Entries(pid)[i].eid))
    BY <2>1, <2>4
  <2> QED
    BY <2>1, <2>3, <2>5, <2>6
<1> QED
  BY <1>2, <1>3

\* The items of a scope, and the list that names them.
LEMMA ScopeIs ==
  ASSUME Inv, Idle, NEW pid \in Pids, InScope(pid)
  PROVE  /\ Entries(pid) \in Seq(EntryOf(pid)) /\ Entries(pid) \in Seq(Entry)
         /\ \A i \in DOMAIN Entries(pid) : Names(List(pid), disk[List(pid)], Script(pid, Entries(pid)[i].eid))
         /\ ~AffectsRuntime(pid) => pid \in Ids /\ Has(disk[Index], pid)
                                      /\ ~disk[Index][Slot(disk[Index], pid)].current
<1>1. IsDisk(disk)
  BY IdleFiles
<1> QED
  BY <1>1, EntriesAre

IsScopeWrite(w, pid, es) ==
  /\ w \in Steps /\ w.file = List(pid) /\ w.file \in Lists
  /\ \A f : Names(w.file, w.to, f) =>
       \/ Names(w.file, disk[w.file], f) /\ \A e : f # Script(pid, e)
       \/ \E j \in DOMAIN es : f = Script(pid, es[j].eid)
  /\ ~AffectsRuntime(pid) => \A op : Spares(w, disk, op)

\* A scope is saved with other items.
LEMMA SaveScopeIs ==
  ASSUME Inv, Idle, NEW pid \in Pids, InScope(pid), NEW es \in Seq(EntryOf(pid))
  PROVE  IsScopeWrite(SaveScope(pid, es), pid, es)
<1> DEFINE x == disk[Index]
           w == SaveScope(pid, es)
<1>1. x \in GoodIndexes /\ disk[GlobalIndex] \in Seq(GlobalEntry)
  BY IdleFiles
<1>2. CASE pid = Global
  <2>1. w = Write(GlobalIndex, es) /\ es \in Seq(GlobalEntry) /\ List(pid) = GlobalIndex
    BY <1>2 DEF SaveScope, List, EntryOf
  <2>2. w \in Steps /\ w.file = GlobalIndex /\ w.to = es
    BY <2>1, WriteFits
  <2> HIDE DEF w
  <2>3. ASSUME NEW f, Names(GlobalIndex, es, f) PROVE \E j \in DOMAIN es : f = Script(pid, es[j].eid)
    BY <1>2, <2>3, FilesDiffer DEF Names
  <2>4. AffectsRuntime(pid)
    BY <1>2 DEF AffectsRuntime
  <2>5. IsScopeWrite(w, pid, es)
    BY <2>1, <2>2, <2>3, <2>4 DEF IsScopeWrite, Lists
  <2> QED
    BY <2>5 DEF w
<1>3. CASE pid # Global
  <2> DEFINE y == [x EXCEPT ![Slot(x, pid)].enhs = es]
  <2>1. w = Write(Index, y) /\ es \in Seq(Entry) /\ List(pid) = Index /\ Has(x, pid) /\ pid \in Ids
    BY <1>3 DEF SaveScope, List, EntryOf, InScope, Pids
  <2>2. /\ y \in GoodIndexes /\ (~x[Slot(x, pid)].current => \A op : SameCurrent(x, y, op))
        /\ \A f : Names(Index, y, f) =>
             \/ Names(Index, x, f) /\ \A e : f # Script(pid, e)
             \/ \E j \in DOMAIN es : f = Script(pid, es[j].eid)
    <3>1. es \in Seq([eid : Eids, on : BOOLEAN])
      BY <2>1 DEF Entry
    <3>2. x \in GoodIndexes /\ Has(x, pid)
      BY <1>1, <2>1
    <3> HIDE DEF x
    <3>3. TakesEnhs(x, y, pid, es)
      BY <3>1, <3>2, EnhsChanged
    <3> HIDE DEF y
    <3> QED
      BY <3>3 DEF TakesEnhs
  <2> HIDE DEF y
  <2>3. w \in Steps /\ w.file = Index /\ w.to = y
    BY <2>1, <2>2, WriteFits
  <2> HIDE DEF w
  <2>4. ~AffectsRuntime(pid) => \A op : Spares(w, disk, op)
    BY <2>1, <2>2, <2>3, FilesDiffer DEF AffectsRuntime, Spares, Feeds
  <2>5. IsScopeWrite(w, pid, es)
    BY <2>1, <2>2, <2>3, <2>4 DEF IsScopeWrite, Lists
  <2> QED
    BY <2>5 DEF w
<1> QED
  BY <1>2, <1>3

\* A script of a profile that is not current feeds nothing.
LEMMA ScriptSpared ==
  ASSUME Inv, Idle, NEW pid \in Pids, InScope(pid), ~AffectsRuntime(pid), NEW w, NEW eid,
         w.file = Script(pid, eid), NEW op
  PROVE  Spares(w, disk, op)
<1> DEFINE x == disk[Index]
<1>1. pid \in Ids /\ Has(x, pid) /\ ~x[Slot(x, pid)].current /\ x \in GoodIndexes
  BY ScopeIs, IdleFiles
<1>2. \A i \in 1 .. Len(x) : x[i].current => x[i].id # pid
  BY <1>1, NotCurrent
<1>3. ~Feeds(Script(pid, eid), x)
  BY <1>1, <1>2, NotFeeding
<1> QED
  BY <1>3, FilesDiffer DEF Spares

\* Any of the enhancer commands, with a sound plan.
LEMMA EnhanceKeeps ==
  ASSUME Inv, NEW op \in {"save_enhancer", "delete_enhancer", "toggle_enhancer", "reorder_enhancers"},
         NEW pid \in Pids, InScope(pid), NEW s \in Seq(Steps), Enhance(op, pid, s),
         RollbacksEnded => Safe(s, disk, Bodies),
         torn = {} /\ op # "delete_enhancer" => Safe(s, disk, Scripts),
         torn = {} /\ op = "delete_enhancer" => InTheEnd(s, disk, Scripts),
         ~AffectsRuntime(pid) => \A i \in DOMAIN s : Spares(s[i], disk, op)
  PROVE  Inv'
<1> DEFINE b == AffectsRuntime(pid)
<1>1. /\ Idle /\ fetches' = fetches /\ editor' = editor
      /\ Begin(Command(op, pid, s, FALSE, Affects(b), FALSE, CapturedGlobal))
  BY DEF Enhance, Take
<1>2. Affects(b) \in {"runtime", "nothing", "trial"} /\ (b => Affects(b) = "runtime")
  BY AffectsIs
<1>3. op \in OpNames /\ op # "startup" /\ op # "update"
  BY DEF OpNames
<1> DEFINE then == Affects(b)
<1>4. then \in {"runtime", "nothing", "trial"} /\ (then # "runtime" => \A i \in DOMAIN s : Spares(s[i], disk, op))
  BY <1>2
<1>5. Begin(Command(op, pid, s, FALSE, then, FALSE, CapturedGlobal))
  BY <1>1
<1> HIDE DEF then, b
<1>6. IsSound(op, pid, s, FALSE, then)
  BY <1>3, <1>4 DEF IsSound
<1>7. CapturedGlobal # Captured
  <2>1. Len(CapturedGlobal) = 3 /\ Len(Captured) = 2
    BY DEF CapturedGlobal, Captured
  <2> QED
    BY <2>1
<1> QED
  BY <1>1, <1>3, <1>4, <1>5, <1>6, <1>7, PlanBegins

\* The list is written with some of its own items, in any order.
LEMMA ListChanges ==
  ASSUME Inv, NEW op \in {"toggle_enhancer", "reorder_enhancers"}, NEW pid \in Pids, InScope(pid),
         NEW es \in Seq(EntryOf(pid)), Enhance(op, pid, <<SaveScope(pid, es)>>),
         \A j \in DOMAIN es : \E i \in DOMAIN Entries(pid) : es[j].eid = Entries(pid)[i].eid
  PROVE  Inv'
<1> DEFINE w == SaveScope(pid, es)
           s == <<w>>
<1>1. Idle
  BY DEF Enhance, Take
<1>2. IsScopeWrite(w, pid, es)
  BY <1>1, SaveScopeIs
<1>3. Enhance(op, pid, s)
  OBVIOUS
<1> HIDE DEF w
<1>4. w \in Steps /\ w.file = List(pid) /\ w.file \in Lists
  BY <1>2 DEF IsScopeWrite
<1>5. s \in Seq(Steps) /\ DOMAIN s = {1} /\ s[1] = w
  BY <1>4, OneStep
<1>6. \A f : Names(w.file, w.to, f) => Names(w.file, disk[w.file], f)
  BY <1>1, <1>2, <1>4, ScopeIs DEF IsScopeWrite
<1>7. (RollbacksEnded => Safe(s, disk, Bodies)) /\ (torn = {} => Safe(s, disk, Scripts))
  BY <1>1, <1>4, <1>6, ListOnly
<1> HIDE DEF s
<1>8. ~AffectsRuntime(pid) => \A i \in DOMAIN s : Spares(s[i], disk, op)
  BY <1>2, <1>5 DEF IsScopeWrite
<1> QED
  BY <1>3, <1>5, <1>7, <1>8, EnhanceKeeps

LEMMA ToggleKeeps == ASSUME Inv, NEW pid \in Pids, NEW eid \in Eids, ToggleEnhancer(pid, eid) PROVE Inv'
<1> DEFINE old == Entries(pid)
           m   == Len(old)
           es  == [i \in DOMAIN old |-> IF old[i].eid = eid THEN [old[i] EXCEPT !.on = ~@] ELSE old[i]]
<1>1. Idle /\ InScope(pid) /\ Enhance("toggle_enhancer", pid, <<SaveScope(pid, es)>>)
  BY DEF ToggleEnhancer, Enhance, Take
<1>2. old \in Seq(EntryOf(pid)) /\ old \in Seq(Entry)
  BY <1>1, ScopeIs
<1> HIDE DEF old
<1>3. m \in Nat /\ DOMAIN old = 1 .. m /\ \A i \in 1 .. m : old[i] \in EntryOf(pid)
  BY <1>2
<1>4. \A e \in EntryOf(pid) : [e EXCEPT !.on = ~@] \in EntryOf(pid) /\ [e EXCEPT !.on = ~@].eid = e.eid
  BY DEF EntryOf, GlobalEntry, Entry
<1>5. \A i \in 1 .. m : es[i] \in EntryOf(pid) /\ es[i].eid = old[i].eid
  BY <1>3, <1>4
<1>6. es = [i \in 1 .. m |-> es[i]]
  BY <1>3
<1> HIDE DEF es, m
<1>7. es \in Seq(EntryOf(pid)) /\ DOMAIN es = 1 .. m
  BY <1>3, <1>5, <1>6
<1> QED
  BY <1>1, <1>3, <1>5, <1>7, ListChanges DEF old

LEMMA ReorderKeeps == ASSUME Inv, NEW pid \in Pids, ReorderEnhancers(pid) PROVE Inv'
<1> DEFINE old == Entries(pid)
           m   == Len(old)
<1>1. PICK order \in Orders(DOMAIN old) :
        Enhance("reorder_enhancers", pid, <<SaveScope(pid, [i \in DOMAIN order |-> old[order[i]]])>>)
  BY DEF ReorderEnhancers
<1> DEFINE es == [i \in DOMAIN order |-> old[order[i]]]
<1>2. Idle /\ InScope(pid) /\ Enhance("reorder_enhancers", pid, <<SaveScope(pid, es)>>)
  BY <1>1 DEF ReorderEnhancers, Enhance, Take
<1>3. old \in Seq(EntryOf(pid)) /\ old \in Seq(Entry)
  BY <1>2, ScopeIs
<1> HIDE DEF old
<1>4. m \in Nat /\ DOMAIN old = 1 .. m /\ \A i \in 1 .. m : old[i] \in EntryOf(pid)
  BY <1>3
<1>5. DOMAIN order = 1 .. m /\ \A i \in 1 .. m : order[i] \in 1 .. m
  BY <1>4 DEF Orders
<1>6. \A i \in 1 .. m : es[i] = old[order[i]] /\ es[i] \in EntryOf(pid)
  BY <1>4, <1>5
<1>7. es = [i \in 1 .. m |-> es[i]]
  BY <1>5
<1> HIDE DEF es, m
<1>8. es \in Seq(EntryOf(pid)) /\ DOMAIN es = 1 .. m
  BY <1>4, <1>6, <1>7
<1> QED
  BY <1>2, <1>4, <1>5, <1>6, <1>8, ListChanges DEF old

LEMMA SaveEnhancerKeeps ==
  ASSUME Inv, NEW pid \in Pids, NEW eid \in Eids, NEW q \in Qualities, SaveEnhancer(pid, eid, q)
  PROVE  Inv'
<1> DEFINE old == Entries(pid)
           es  == IF Listed(pid, eid) THEN old ELSE Append(old, [eid |-> eid, on |-> TRUE])
           w1  == Write(Script(pid, eid), Text(q))
           w2  == SaveScope(pid, es)
           s   == <<w1, w2>>
<1>1. Idle /\ InScope(pid) /\ Enhance("save_enhancer", pid, s) /\ (Listed(pid, eid) \/ eid \in Enhs)
  BY DEF SaveEnhancer, Enhance, Take
<1>2. old \in Seq(EntryOf(pid)) /\ old \in Seq(Entry)
  BY <1>1, ScopeIs
<1>3. /\ es \in Seq(EntryOf(pid))
      /\ \A j \in DOMAIN es : (\E i \in DOMAIN old : es[j].eid = old[i].eid) \/ es[j].eid = eid
  <2>1. CASE Listed(pid, eid)
    BY <1>2, <2>1
  <2>2. CASE ~Listed(pid, eid)
    <3> DEFINE new == [eid |-> eid, on |-> TRUE]
               app == Append(old, new)
    <3>1. new \in EntryOf(pid) /\ new.eid = eid
      BY <1>1, <2>2 DEF EntryOf, GlobalEntry, Entry
    <3> HIDE DEF new, old
    <3>2. /\ app \in Seq(EntryOf(pid))
          /\ \A j \in DOMAIN app : (j \in DOMAIN old /\ app[j] = old[j]) \/ app[j] = new
      BY <1>2, <3>1
    <3>3. es = app
      BY <2>2 DEF new
    <3> HIDE DEF app, es
    <3> QED
      BY <3>1, <3>2, <3>3
  <2> QED
    BY <2>1, <2>2
<1> HIDE DEF es
<1>4. w1 \in Steps /\ w1.file = Script(pid, eid) /\ w1.to # None
  BY WriteFits, NoneIsNoText DEF ScriptTexts
<1>5. IsScopeWrite(w2, pid, es)
  BY <1>1, <1>3, SaveScopeIs
<1> HIDE DEF w1, w2
<1>6. w2 \in Steps /\ w2.file = List(pid) /\ w2.file \in Lists
  BY <1>5 DEF IsScopeWrite
<1>7. s \in Seq(Steps) /\ DOMAIN s = {1, 2} /\ s[1] = w1 /\ s[2] = w2
  BY <1>4, <1>6, TwoSteps
<1>8. \A f : Names(w2.file, w2.to, f) => Names(w2.file, disk[w2.file], f) \/ f = w1.file
  BY <1>1, <1>3, <1>4, <1>5, <1>6, ScopeIs DEF IsScopeWrite
<1>9. (RollbacksEnded => Safe(s, disk, Bodies)) /\ (torn = {} => Safe(s, disk, Scripts))
  <2>1. w1.file \notin Lists
    BY <1>4, FilesDiffer DEF Lists
  <2> QED
    BY <1>1, <1>4, <1>6, <1>8, <2>1, PutThenList
<1> HIDE DEF s
<1>10. ~AffectsRuntime(pid) => \A i \in DOMAIN s : Spares(s[i], disk, "save_enhancer")
  BY <1>1, <1>4, <1>5, <1>7, ScriptSpared DEF IsScopeWrite
<1> QED
  BY <1>1, <1>7, <1>9, <1>10, EnhanceKeeps

LEMMA DeleteEnhancerKeeps ==
  ASSUME Inv, NEW pid \in Pids, NEW eid \in Eids, DeleteEnhancer(pid, eid) PROVE Inv'
<1> DEFINE old == Entries(pid)
           S   == {e \in ToSet(old) : e.eid # eid}
           es  == Only(old, S)
           w1  == Write(Script(pid, eid), None)
           w2  == SaveScope(pid, es)
           s   == <<w1, w2>>
<1>1. Idle /\ InScope(pid) /\ Enhance("delete_enhancer", pid, s)
  BY DEF DeleteEnhancer, Enhance, Take
<1>2. old \in Seq(EntryOf(pid)) /\ old \in Seq(Entry)
  BY <1>1, ScopeIs
<1>3. /\ es \in Seq(EntryOf(pid))
      /\ \A j \in DOMAIN es : es[j].eid # eid /\ \E i \in DOMAIN old : es[j].eid = old[i].eid
  <2> HIDE DEF old
  <2>1. \A e \in S : e.eid # eid
    OBVIOUS
  <2> HIDE DEF S
  <2>2. es \in Seq(EntryOf(pid)) /\ \E h : Picks(h, es, old, S, Len(old))
    BY <1>2, OnlyPicks
  <2> HIDE DEF es
  <2>3. PICK h : Picks(h, es, old, S, Len(old))
    BY <2>2
  <2>4. DOMAIN es = 1 .. Len(es) /\ DOMAIN old = 1 .. Len(old)
    BY <1>2, <2>2
  <2> QED
    BY <2>1, <2>2, <2>3, <2>4 DEF Picks
<1> HIDE DEF es
<1>4. w1 \in Steps /\ w1.file = Script(pid, eid) /\ w1.to = None
  BY WriteFits DEF ScriptTexts
<1>5. IsScopeWrite(w2, pid, es)
  BY <1>1, <1>3, SaveScopeIs
<1> HIDE DEF w1, w2
<1>6. w2 \in Steps /\ w2.file = List(pid) /\ w2.file \in Lists
  BY <1>5 DEF IsScopeWrite
<1>7. s \in Seq(Steps) /\ DOMAIN s = {1, 2} /\ s[1] = w1 /\ s[2] = w2
  BY <1>4, <1>6, TwoSteps
<1> HIDE DEF s
<1>8. \A f : Names(w2.file, w2.to, f) => Names(w2.file, disk[w2.file], f) /\ f # Script(pid, eid)
  BY <1>1, <1>3, <1>5, <1>6, FilesDiffer, ScopeIs DEF IsScopeWrite
<1>9. w1.file \notin Lists /\ w1.file \notin Bodies /\ \A F \in {Bodies, Scripts} : w2.file \notin F
  <2>1. w1.file \notin Lists
    BY <1>4, FilesDiffer DEF Lists
  <2>2. w1.file \notin Bodies
    BY <1>4, FilesDiffer DEF Bodies
  <2> QED
    BY <1>6, <2>1, <2>2, KindsDiffer DEF Lists
<1>10. RollbacksEnded => Safe(s, disk, Bodies)
  <2> SUFFICES ASSUME RollbacksEnded PROVE Safe(s, disk, Bodies)
    OBVIOUS
  <2>1. Intact(disk, Bodies)
    BY <1>1, IdleFiles
  <2>2. \A i \in DOMAIN s : s[i].file \in Bodies => s[i].to # None
    BY <1>7, <1>9
  <2>3. \A i \in DOMAIN s : s[i].file \in Lists =>
           \A f \in Bodies : Names(s[i].file, s[i].to, f) => Names(s[i].file, disk[s[i].file], f)
    BY <1>7, <1>8, <1>9
  <2> QED
    BY <1>7, <2>1, <2>2, <2>3, SafePlan
<1>11. torn = {} => InTheEnd(s, disk, Scripts)
  <2> SUFFICES ASSUME torn = {} PROVE InTheEnd(s, disk, Scripts)
    OBVIOUS
  <2>1. Intact(disk, Scripts)
    BY <1>1, IdleFiles
  <2>2. ASSUME NEW l \in Lists, NEW f \in Scripts, Ends(l, s, disk, f)
        PROVE  Names(l, disk[l], f) /\ f # Script(pid, eid)
    <3>1. CASE l = w2.file
      <4>1. 2 \in DOMAIN s /\ s[2].file = l /\ \A k \in DOMAIN s : s[k].file = l => s[k] = w2
        BY <1>7, <1>9, <3>1
      <4>2. Names(l, w2.to, f)
        BY <2>2, <4>1 DEF Ends
      <4> QED
        BY <1>8, <3>1, <4>2
    <3>2. CASE l # w2.file
      <4>1. \A k \in DOMAIN s : s[k].file # l
        BY <1>7, <1>9, <3>2
      <4>2. Names(l, disk[l], f)
        BY <2>2, <4>1 DEF Ends
      <4>3. f # Script(pid, eid)
        <5> SUFFICES ASSUME f = Script(pid, eid) PROVE FALSE
          OBVIOUS
        <5>1. CASE l = GlobalIndex
          <6>1. pid = Global
            BY <4>2, <5>1, NamesAre
          <6> QED
            BY <1>6, <3>2, <5>1, <6>1 DEF List
        <5>2. CASE l = Index
          <6>1. PICK i \in DOMAIN disk[Index] : disk[Index][i].id = pid
            BY <4>2, <5>2, NamesAre
          <6>2. disk[Index] \in GoodIndexes
            BY <1>1, IdleFiles
          <6>3. pid \in Ids
            BY <6>1, <6>2, IndexIs
          <6>4. pid # Global
            BY <6>3, NamesAreDistinct
          <6> QED
            BY <1>6, <3>2, <5>2, <6>4 DEF List
        <5> QED
          BY <5>1, <5>2 DEF Lists
      <4> QED
        BY <4>2, <4>3
    <3> QED
      BY <3>1, <3>2
  <2>3. \A k \in DOMAIN s, f \in Scripts : Removes(s[k], f) => f = Script(pid, eid)
    BY <1>4, <1>7, <1>9 DEF Removes
  <2>4. \A l \in Lists, f \in Scripts : Ends(l, s, disk, f) =>
           disk[f] # None /\ \A k \in DOMAIN s : ~Removes(s[k], f)
    BY <2>1, <2>2, <2>3 DEF Intact
  <2> QED
    BY <2>4, EndIs
<1>12. ~AffectsRuntime(pid) => \A i \in DOMAIN s : Spares(s[i], disk, "delete_enhancer")
  BY <1>1, <1>4, <1>5, <1>7, ScriptSpared DEF IsScopeWrite
<1> QED
  BY <1>1, <1>7, <1>10, <1>11, <1>12, EnhanceKeeps

(******************** start-up, initial states, all steps ********************)

\* The plan of the start-up writes built-in scripts and nothing else.
LEMMA BuiltinsMissing ==
  ASSUME NEW x \in GoodIndexes, x = disk[Index]
  PROVE  /\ MissingBuiltins \in Seq(Steps)
         /\ \A i \in DOMAIN MissingBuiltins :
              MissingBuiltins[i].to # None /\ \E id \in Ids : MissingBuiltins[i].file = Script(id, Prune)
<1> DEFINE lost(p) == disk[Script(p.id, Prune)] = None /\ \E j \in DOMAIN p.enhs : p.enhs[j].eid = Prune
           S    == {p \in ToSet(x) : lost(p)}
           need == Only(x, S)
           m    == Len(need)
           s    == [i \in DOMAIN need |-> Write(Script(need[i].id, Prune), Builtin)]
<1>1. s = MissingBuiltins
  BY DEF MissingBuiltins
<1>2. x \in Seq(IndexEntry)
  BY IndexIs
<1> HIDE DEF S
<1>3. need \in Seq(IndexEntry)
  BY <1>2, OnlyPicks
<1> HIDE DEF need
<1>4. m \in Nat /\ DOMAIN need = 1 .. m /\ \A i \in 1 .. m : need[i] \in IndexEntry
  BY <1>3
<1>5. \A i \in 1 .. m : need[i].id \in Ids
  BY <1>4 DEF IndexEntry
<1>6. \A i \in 1 .. m : s[i] = Write(Script(need[i].id, Prune), Builtin)
  BY <1>4
<1>7. s = [i \in 1 .. m |-> s[i]]
  BY <1>4
<1> HIDE DEF s, m
<1>8. ASSUME NEW i \in 1 .. m
      PROVE  s[i] \in Steps /\ s[i].to # None /\ s[i].file = Script(need[i].id, Prune)
  BY <1>5, <1>6, WriteFits, NoneIsNoText DEF ScriptTexts, Pids, Eids
<1>9. s \in Seq(Steps) /\ DOMAIN s = 1 .. m
  BY <1>4, <1>7, <1>8
<1> QED
  BY <1>1, <1>5, <1>8, <1>9

\* The app starts.
LEMMA LaunchKeeps == ASSUME Inv, Launch PROVE Inv'
<1> DEFINE s == MissingBuiltins
           c == Command("startup", None, s, FALSE, "runtime", TRUE, <<Index>>)
<1>1. /\ ~alive /\ alive' = TRUE /\ cmd' = c
      /\ UNCHANGED <<disk, core, fetches, editor, settled, renamed, reported, torn, mishaps>>
  BY DEF Launch
<1>2. cmd = NoCommand /\ core.state = "off" /\ ~settled
  BY <1>1 DEF Inv, CommandType
<1>3. IsDisk(disk)
  BY DEF Inv, StoreType
<1>4. disk[Index] \in GoodIndexes
  BY <1>3, DiskHolds
<1>5. /\ s \in Seq(Steps)
      /\ \A i \in DOMAIN s : s[i].to # None /\ \E id \in Ids : s[i].file = Script(id, Prune)
  BY <1>4, BuiltinsMissing
<1> HIDE DEF s
<1>6. \A i \in DOMAIN s : s[i].file \notin Untracked /\ s[i].file \notin Lists
  BY <1>5, FilesDiffer DEF Untracked, Lists
<1>7. /\ IsCommand(c) /\ c.op = "startup" /\ c.phase = "write" /\ c.steps = s /\ ~c.refused
      /\ c.then = "runtime" /\ c.before = disk
  <2> DEFINE captured == <<Index>>
             then == "runtime"
             op   == "startup"
             no   == FALSE
             yes  == TRUE
             id   == None
  <2>1. captured \in Seq(Files) /\ op \in OpNames /\ then \in {"runtime", "nothing", "trial"}
        /\ no \in BOOLEAN /\ yes \in BOOLEAN /\ id \in Pids \cup {None} /\ s \in Seq(Steps)
    BY <1>5, CapturedAre DEF OpNames
  <2> HIDE DEF captured, then, op, no, yes, id
  <2>2. LET n == Command(op, id, s, no, then, yes, captured)
        IN  /\ IsCommand(n) /\ n.op = op /\ n.id = id /\ n.phase = "write" /\ n.steps = s
            /\ n.done = captured /\ n.refused = no /\ n.then = then /\ n.before = disk
    BY <1>3, <2>1, CommandIs
  <2> QED
    BY <2>2 DEF captured, then, op, no, yes, id
<1> HIDE DEF c
<1>8. (RollbacksEnded => Intact(disk, Bodies)) /\ (torn = {} => Intact(disk, Scripts))
  BY <1>2, IdleIs DEF Inv, BodiesKept, ScriptsKept, Kept
<1>9. ASSUME NEW F \in {Bodies, Scripts}, Intact(disk, F) PROVE Safe(s, disk, F)
  BY <1>5, <1>6, <1>9, SafePlan
<1>10. Planned(c)
  BY <1>2, <1>6, <1>7, <1>8, <1>9 DEF Planned
<1> QED
  BY <1>1, <1>2, <1>10, BeginKeeps

\* The empty directory.
LEMMA InitHolds == Init => Inv
<1> SUFFICES ASSUME Init PROVE Inv
  OBVIOUS
<1>1. /\ cmd = NoCommand /\ core = Down("off") /\ fetches = {} /\ editor = None
      /\ alive = FALSE /\ settled = FALSE /\ renamed = FALSE /\ reported = FALSE /\ torn = {}
      /\ mishaps = 0
  BY DEF Init
<1>2. disk = [f \in Files |-> disk[f]]
  BY DEF Init
<1>3. disk[Index] = <<>> /\ disk[GlobalIndex] = <<>>
      /\ \A f \in Files \ {Index, GlobalIndex} : disk[f] = None
  BY FilesAre, FilesDiffer DEF Init
<1>4. IsDisk(disk)
  <2>1. <<>> \in GoodIndexes
    BY DEF GoodIndexes, OneIsCurrent
  <2>2. <<>> \in Seq(GlobalEntry)
    OBVIOUS
  <2>3. \A f \in Files : Fits(f, disk[f])
    BY <1>3, <2>1, <2>2, KindsDiffer, FilesDiffer DEF Fits, BodyTexts, ScriptTexts
  <2> QED
    BY <1>2, <2>3 DEF IsDisk
<1>5. core \in [state : {"off", "up", "relaunch"}, config : {core.config}] /\ core.state = "off"
  BY <1>1, DownIs
<1>6. MaxMishaps \in Nat
  BY BoundsAreNaturals
<1>7. StoreType
  <2>1. alive \in BOOLEAN /\ settled \in BOOLEAN /\ renamed \in BOOLEAN /\ reported \in BOOLEAN
    BY <1>1, Zenon
  <2>2. mishaps \in 0 .. MaxMishaps
    BY <1>1, <1>6
  <2> QED
    BY <1>1, <1>4, <1>5, <2>1, <2>2 DEF StoreType
<1>8. CommandType
  BY <1>1, <1>5, IdleIs DEF CommandType
<1>9. Tracked
  BY <1>1, IdleIs DEF Tracked
<1>10. ASSUME NEW F PROVE Intact(disk, F)
  BY <1>3 DEF Intact, Names, Lists
<1>11. BodiesKept /\ ScriptsKept
  BY <1>1, <1>10, IdleIs DEF BodiesKept, ScriptsKept, Kept
<1>12. CoreFollows /\ BuildFollows /\ UpdateFollows
  BY <1>1, <1>5, IdleIs DEF CoreFollows, BuildFollows, UpdateFollows
<1> QED
  BY <1>7, <1>8, <1>9, <1>11, <1>12 DEF Inv

\* Every step of the store keeps the invariant.
LEMMA NextKeeps == Inv /\ [Next]_vars => Inv'
<1> SUFFICES ASSUME Inv, [Next]_vars PROVE Inv'
  OBVIOUS
<1>1. CASE UserCommand
  BY <1>1, ImportKeeps, SaveContentKeeps, UpdateKeeps, UpdateMetaKeeps, SelectKeeps, DeleteKeeps,
     SaveTopologyKeeps DEF UserCommand
<1>2. CASE EnhancerCommand
  BY <1>2, SaveEnhancerKeeps, DeleteEnhancerKeeps, ToggleKeeps, ReorderKeeps DEF EnhancerCommand
<1>3. CASE CommandStep
  BY <1>3, WriteStepKeeps, AfterWritesKeeps, RegenerateKeeps, ApplyRuntimeKeeps, ApplyFailsKeeps,
     UndoStepKeeps, UndoDoneKeeps, RestoreRuntimeKeeps DEF CommandStep
<1>4. CASE Environment
  BY <1>4, DownloadKeeps, OpenEditorKeeps, CoreCrashKeeps, CoreRelaunchKeeps, CoreStopKeeps,
     CoreStartKeeps, AppDiesKeeps, LaunchKeeps DEF Environment
<1>5. CASE UNCHANGED vars
  BY <1>5, StutterKeeps
<1> QED
  BY <1>1, <1>2, <1>3, <1>4, <1>5 DEF Next

\* The invariant implies the type invariant.
LEMMA InvIsTyped == Inv => TypeOK
<1> SUFFICES ASSUME Inv PROVE TypeOK
  OBVIOUS
<1> DEFINE x == disk[Index]
<1>1. IsDisk(disk)
  BY DEF Inv, StoreType
<1>2. /\ x \in GoodIndexes /\ disk[GlobalIndex] \in Seq(GlobalEntry)
      /\ \A f \in Bodies : disk[f] \in BodyTexts
      /\ \A f \in Scripts : disk[f] \in ScriptTexts
  BY <1>1, DiskHolds
<1>3. x \in Seq(IndexEntry) /\ \A i, j \in DOMAIN x : x[i].id = x[j].id => i = j
  BY <1>2 DEF GoodIndexes
<1>4. IsInjective([i \in DOMAIN x |-> x[i].id])
  BY <1>3 DEF IsInjective
<1>5. disk[GlobalIndex] \in Seq([eid : Enhs, on : BOOLEAN])
  BY <1>2 DEF GlobalEntry
<1>6. \A id \in Ids : disk[Body(id)] \in Contents \cup {None}
  BY <1>2, FilesAre DEF BodyTexts
<1>7. \A pid \in Pids, eid \in Eids :
        disk[Script(pid, eid)] \in {Builtin, None} \cup {Text(q) : q \in Qualities}
  BY <1>2, FilesAre DEF ScriptTexts
<1>8. cmd.phase \in {"idle", "write", "build", "apply", "undo", "restore"}
  BY CommandHolds, IdleIs DEF Inv, CommandType
<1>9. /\ core.state \in {"off", "up", "relaunch"}
      /\ alive \in BOOLEAN /\ settled \in BOOLEAN /\ renamed \in BOOLEAN /\ reported \in BOOLEAN
      /\ mishaps \in 0 .. MaxMishaps
  <2>1. core \in [state : {"off", "up", "relaunch"}, config : {core.config}]
    BY DEF Inv, StoreType
  <2> QED
    BY <2>1, StoreHolds DEF Inv
<1> QED
  BY <1>3, <1>4, <1>5, <1>6, <1>7, <1>8, <1>9 DEF TypeOK

LEMMA InvIsOneCurrent == Inv => OneCurrent
  BY DiskHolds DEF Inv, StoreType, GoodIndexes, OneIsCurrent, OneCurrent

\* A list's own files, between commands.
LEMMA InvKeepsFiles == Inv => ProfilesHaveFiles /\ EnhancersHaveFiles
<1> SUFFICES ASSUME Inv, Resting PROVE ProfilesHaveFiles /\ EnhancersHaveFiles
  BY DEF ProfilesHaveFiles, EnhancersHaveFiles
<1> DEFINE x == disk[Index]
<1>1. IsDisk(disk)
  BY DEF Inv, StoreType
<1>2. x \in GoodIndexes
  BY <1>1, DiskHolds
<1>3. (RollbacksEnded => Intact(disk, Bodies)) /\ (torn = {} => Intact(disk, Scripts))
  BY IdleIs DEF Resting, Inv, BodiesKept, ScriptsKept, Kept
<1>4. ASSUME RollbacksEnded, NEW i \in DOMAIN x PROVE disk[Body(x[i].id)] # None
  <2>1. x[i].id \in Ids
    BY <1>2, IndexIs
  <2>2. Names(Index, x, Body(x[i].id)) /\ Body(x[i].id) \in Bodies
    BY <2>1, NamesAre, FilesAre
  <2> QED
    BY <1>3, <1>4, <2>2 DEF Intact, Lists
<1>5. ASSUME torn = {}, NEW pid \in Pids, InScope(pid), NEW i \in DOMAIN Entries(pid)
      PROVE  disk[Script(pid, Entries(pid)[i].eid)] # None
  <2>1. /\ Entries(pid) \in Seq(Entry)
        /\ \A k \in DOMAIN Entries(pid) : Names(List(pid), disk[List(pid)], Script(pid, Entries(pid)[k].eid))
    BY <1>1, <1>5, EntriesAre
  <2>2. List(pid) \in Lists
    BY DEF List, Lists
  <2>3. PICK es : es = Entries(pid)
    OBVIOUS
  <2>4. es[i] \in Entry
    BY <1>5, <2>1, <2>3
  <2>5. Script(pid, es[i].eid) \in Scripts
    BY <2>4, FilesAre DEF Entry
  <2> QED
    BY <1>3, <1>5, <2>1, <2>2, <2>3, <2>5 DEF Intact
<1> QED
  BY <1>4, <1>5 DEF ProfilesHaveFiles, EnhancersHaveFiles

\* What the invariant says of the runtime configuration.
LEMMA InvFollows == Inv => RollbackRestores /\ CoreRunsRuntime /\ RuntimeFollowsIndex
<1> SUFFICES ASSUME Inv PROVE RollbackRestores /\ CoreRunsRuntime /\ RuntimeFollowsIndex
  OBVIOUS
<1>1. ASSUME cmd.phase = "undo", cmd.left = <<>>, ~cmd.errors PROVE disk = cmd.before
  <2>1. IsCommand(cmd)
    BY <1>1, IdleIs DEF Inv, CommandType
  <2>2. IsDisk(disk) /\ IsDisk(cmd.before)
    BY <2>1, CommandHolds DEF Inv, StoreType
  <2>3. ToSet(cmd.left) = {}
    BY <1>1 DEF ToSet
  <2>4. \A f \in Files : disk[f] = cmd.before[f]
    BY <1>1, <2>3 DEF Inv, Tracked
  <2> QED
    BY <2>2, <2>4, SameDisk
<1>2. CoreRunsRuntime
  BY IdleIs DEF Inv, CoreFollows, CoreRunsRuntime, Idle
<1>3. RuntimeFollowsIndex
  BY IdleIs DEF Inv, BuildFollows, MadeOf, IsBuilt, RuntimeFollowsIndex, Idle
<1> QED
  BY <1>1, <1>2, <1>3 DEF RollbackRestores

UpdateMatches ==
  (cmd.op = "update" /\ cmd.phase \in {"write", "apply"} /\ Resting' /\ alive') =>
    /\ Has(disk'[Index], cmd.id)
    /\ disk'[Body(cmd.id)][1] = disk'[Index][Slot(disk'[Index], cmd.id)].url

\* Only a commit ends an update, and it changes nothing any more.
LEMMA StepMatches == Inv /\ [Next]_vars => UpdateMatches
<1> SUFFICES ASSUME Inv, [Next]_vars, cmd.op = "update", cmd.phase \in {"write", "apply"}, Resting', alive'
             PROVE  /\ Has(disk'[Index], cmd.id)
                    /\ disk'[Body(cmd.id)][1] = disk'[Index][Slot(disk'[Index], cmd.id)].url
  BY DEF UpdateMatches
<1>1. cmd # NoCommand /\ IsCommand(cmd) /\ alive /\ cmd' = NoCommand
  BY IdleIs DEF Inv, CommandType, Resting
<1>2. ~UserCommand /\ ~EnhancerCommand
  BY <1>1 DEF UserCommand, EnhancerCommand, Import, SaveContent, Update, UpdateMeta, Select, Delete,
     SaveTopology, SaveEnhancer, DeleteEnhancer, ToggleEnhancer, ReorderEnhancers, Enhance, Take, Idle
<1>3. ~Environment
  BY <1>1 DEF Environment, Download, OpenEditor, CoreCrash, CoreRelaunch, CoreStop, CoreStart, AppDies,
     Launch, Take, Idle
<1>4. ~UNCHANGED vars
  BY <1>1 DEF vars
<1>5. \A c : IsCommand(c) => Undo(c, disk) # NoCommand
  BY UndoIs, CommandHolds DEF IsUndo
<1>6. ~WriteStep
  <2> SUFFICES ASSUME WriteStep PROVE FALSE
    OBVIOUS
  <2> DEFINE w == Head(cmd.steps)
             t == Tail(cmd.steps)
             l == IF w.file \in Untracked \cup ToSet(cmd.done) THEN cmd.done ELSE Append(cmd.done, w.file)
             c == [cmd EXCEPT !.steps = t, !.done = l]
  <2>1. cmd.steps \in Seq(Steps) /\ cmd.done \in Seq(Files) /\ cmd.steps # <<>>
    BY <1>1, CommandHolds DEF WriteStep
  <2>2. t \in Seq(Steps) /\ w \in Steps
    BY <2>1, TailSteps
  <2>3. l \in Seq(Files)
    <3>1. w.file \in Files
      BY <2>2 DEF Steps
    <3> HIDE DEF w
    <3> QED
      BY <2>1, <3>1, ToSetOfAppend
  <2>4. cmd' = c \/ cmd' = Undo(c, disk)
    BY DEF WriteStep
  <2> HIDE DEF t, l
  <2>5. IsCommand(c)
    BY <1>1, <2>2, <2>3, StepTaken DEF IsStepped
  <2> QED
    BY <1>1, <1>5, <2>4, <2>5, CommandHolds
<1>7. ~Regenerate /\ ~UndoStep /\ ~UndoDone /\ ~RestoreRuntime
  BY DEF Regenerate, UndoStep, UndoDone, RestoreRuntime
<1>8. ~ApplyFails
  BY <1>1, <1>5 DEF ApplyFails, Fail
<1>9. UNCHANGED disk /\ ~cmd.refused /\ (cmd.phase = "write" => cmd.steps = <<>>)
  <2>1. CASE AfterWrites
    <3>1. [cmd EXCEPT !.phase = "build"] # NoCommand
      BY <1>1, PhaseTaken, CommandHolds DEF IsPhased
    <3> QED
      BY <1>1, <1>5, <2>1, <3>1 DEF AfterWrites, Commit
  <2>2. CASE ApplyRuntime
    BY <2>2 DEF ApplyRuntime, Inv, CommandType
  <2> QED
    BY <1>2, <1>3, <1>4, <1>6, <1>7, <1>8, <2>1, <2>2 DEF Next, CommandStep
<1> QED
  BY <1>9 DEF Inv, UpdateFollows

(********************************* theorems **********************************)

\* The inductive invariant holds in every reachable state.
THEOREM StoreKeepsInvariant == Spec => []Inv
<1>1. Init => Inv
  BY InitHolds
<1>2. Inv /\ [Next]_vars => Inv'
  BY NextKeeps
<1> QED
  BY <1>1, <1>2, PTL DEF Spec

\* The files hold what the code writes to them, no id occurs twice in a list and
\* the counters stay in range, whatever was begun, failed or cut short.
THEOREM StoreIsTyped == Spec => []TypeOK
  BY StoreKeepsInvariant, InvIsTyped, PTL

\* An index that is not empty has exactly one current profile at every moment, in
\* the middle of any command and of any rollback and after any death (select,
\* delete with its successor, import, finish_transaction).
THEOREM OneProfileIsCurrent == Spec => []OneCurrent
  BY StoreKeepsInvariant, InvIsOneCurrent, PTL

\* Between commands every profile of the index has its body, unless a death or an
\* error cut a rollback short: import writes the body before the index names it,
\* delete removes it after the index forgot it.
THEOREM ListedProfilesHaveFiles == Spec => []ProfilesHaveFiles
  BY StoreKeepsInvariant, InvKeepsFiles, PTL

\* The same for the items of the profiles' lists and of the global list, but for a
\* death in the middle of delete_enhancer too.
THEOREM ListedEnhancersHaveFiles == Spec => []EnhancersHaveFiles
  BY StoreKeepsInvariant, InvKeepsFiles, PTL

\* A rollback that met no error gives back the whole store, also the files that
\* the command wrote without telling the transaction (FileTransaction::rollback).
THEOREM RollbackGivesAllBack == Spec => []RollbackRestores
  BY StoreKeepsInvariant, InvFollows, PTL

\* Between commands a running core has the runtime.yaml on disk, wherever its crash
\* and relaunch fell into the command that changed it, unless the user was told
\* that it may not (finish_transaction).
THEOREM CoreHasTheRuntime == Spec => []CoreRunsRuntime
  BY StoreKeepsInvariant, InvFollows, PTL

\* Between commands runtime.yaml is made of the texts that a build of the index,
\* lists and files of that moment reads, and is all that such a build gives but for
\* the name after update_meta renamed the current profile: a command that leaves the
\* build out has changed nothing else that a build reads (regenerate_runtime).
THEOREM RuntimeIsBuiltFromStore == Spec => []RuntimeFollowsIndex
  BY StoreKeepsInvariant, InvFollows, PTL

\* An update that commits leaves a text that was downloaded from the url the
\* profile has at that moment, however long the download took and whatever was
\* done meanwhile (the second look-up of update).
THEOREM CommittedUpdatesMatch == Spec => UpdatesMatchTheirUrl
<1>1. Inv /\ [Next]_vars => [UpdateMatches]_vars
  BY StepMatches
<1>2. Spec => [][UpdateMatches]_vars
  BY <1>1, StoreKeepsInvariant, PTL DEF Spec
<1> QED
  BY <1>2 DEF UpdatesMatchTheirUrl, UpdateMatches

=============================================================================
