-------------------------- MODULE ConfigurationProofs --------------------------
(* Proofs about what a configuration is made of, from its import and its         *)
(* scheduled updates to the file the core reads: PendingImports, ProfileUpdater  *)
(* and RuntimeBuild, for every number of links, windows and subscriptions, every *)
(* interval, every profile, every chain of enhancers and every override; and     *)
(* about what its backups keep: BackupRestore and WebDavSync, for every number   *)
(* of profiles, backups, ports, calls and mishaps.                               *)
EXTENDS RuntimeBuild, PendingImports, ProfileUpdater, BackupRestore, WebDavSync,
        SequenceTheorems, WellFoundedInduction, TLAPS

(*************************** the queue of imports ****************************)

Item == [id : Nat \ {0}, source : Sources, importing : BOOLEAN]

ItemsAreTyped == sequence \in Nat /\ items \subseteq Item

\* No two requests share an id or a source, and no id is given out twice.
ItemsDiffer ==
  /\ \A i \in items : i.id <= sequence
  /\ \A i, j \in items : i.id = j.id \/ i.source = j.source => i = j

\* A window works on a request that is in the queue and marked, and on its own.
WorkIsMarked ==
  /\ importing \in [Windows -> Item \cup {Idle}]
  /\ \A w \in Windows : importing[w] # Idle =>
       /\ [importing[w] EXCEPT !.importing = TRUE] \in items
       /\ \A v \in Windows \ {w} : importing[v] # Idle => importing[v].id # importing[w].id

ImportsInv == ItemsAreTyped /\ ItemsDiffer /\ WorkIsMarked

LEMMA IdleIsNoItem == Idle \notin Item
  BY DEF Idle, Item

LEMMA ImportsBegin == ImportsStart => ImportsInv
  BY DEF ImportsStart, ImportsInv, ItemsAreTyped, ItemsDiffer, WorkIsMarked, Idle

\* Push keeps what there is and adds at most one request of a new source.
LEMMA PushAdds ==
  ASSUME NEW q, NEW link \in Links,
         q.sequence \in Nat, q.items \subseteq Item,
         \A i \in q.items : i.id <= q.sequence,
         \A i, j \in q.items : i.id = j.id \/ i.source = j.source => i = j
  PROVE  /\ Push(q, link).sequence \in Nat
         /\ Push(q, link).items \subseteq Item
         /\ q.items \subseteq Push(q, link).items
         /\ \A i \in Push(q, link).items : i.id <= Push(q, link).sequence
         /\ \A i, j \in Push(q, link).items : i.id = j.id \/ i.source = j.source => i = j
<1> DEFINE new == [id |-> q.sequence + 1, source |-> link, importing |-> FALSE]
<1>1. CASE Push(q, link) = q
  BY <1>1
<1>2. CASE Push(q, link) # q
  <2>1. /\ Push(q, link).sequence = q.sequence + 1
        /\ Push(q, link).items = q.items \cup {new}
        /\ link \in Sources /\ \A i \in q.items : i.source # link
    BY <1>2 DEF Push, Links
  <2>2. new \in Item /\ \A i \in q.items : i.id # new.id
    BY <2>1 DEF Item
  <2>3. new.id = q.sequence + 1 /\ new.source = link
    OBVIOUS
  <2> HIDE DEF new
  <2>4. \A i \in q.items \cup {new} : i.id \in Nat /\ i.id <= q.sequence + 1
    <3>1. \A i \in q.items : i.id \in Nat
      BY DEF Item
    <3>2. QED
      BY <2>3, <3>1
  <2>5. ASSUME NEW i \in q.items \cup {new}, NEW j \in q.items \cup {new},
               i.id = j.id \/ i.source = j.source
        PROVE  i = j
    BY <2>1, <2>2, <2>3, <2>5
  <2>6. q.items \cup {new} \subseteq Item
    BY <2>2
  <2>7. QED
    BY <2>1, <2>4, <2>5, <2>6
<1>3. QED
  BY <1>1, <1>2

LEMMA EnqueueStep ==
  ASSUME ImportsInv, NEW first \in Links, NEW second \in Links, EnqueueArgs(first, second)
  PROVE  ImportsInv'
<1> DEFINE once  == Push(Queue, first)
           twice == Push(once, second)
<1>1. sequence' = twice.sequence /\ items' = twice.items /\ importing' = importing
  BY DEF EnqueueArgs, Becomes
<1>2. Queue.sequence = sequence /\ Queue.items = items
  BY DEF Queue
<1>3. /\ once.sequence \in Nat /\ once.items \subseteq Item /\ items \subseteq once.items
      /\ \A i \in once.items : i.id <= once.sequence
      /\ \A i, j \in once.items : i.id = j.id \/ i.source = j.source => i = j
  BY <1>2, PushAdds DEF ImportsInv, ItemsAreTyped, ItemsDiffer
<1> HIDE DEF once
<1>4. /\ twice.sequence \in Nat /\ twice.items \subseteq Item /\ once.items \subseteq twice.items
      /\ \A i \in twice.items : i.id <= twice.sequence
      /\ \A i, j \in twice.items : i.id = j.id \/ i.source = j.source => i = j
  BY <1>3, PushAdds
<1>5. QED
  BY <1>1, <1>3, <1>4 DEF ImportsInv, ItemsAreTyped, ItemsDiffer, WorkIsMarked

LEMMA DismissStep ==
  ASSUME ImportsInv, NEW id, Dismiss(id)
  PROVE  ImportsInv'
<1>1. sequence' = sequence /\ importing' = importing /\ items' = Without(id)
  BY DEF Dismiss
<1>2. ItemsAreTyped' /\ ItemsDiffer'
  BY <1>1 DEF ImportsInv, ItemsAreTyped, ItemsDiffer, Without
<1>3. WorkIsMarked'
  <2> SUFFICES ASSUME NEW w \in Windows, importing[w] # Idle
               PROVE  [importing[w] EXCEPT !.importing = TRUE] \in items'
    BY <1>1 DEF ImportsInv, WorkIsMarked
  <2> DEFINE marked == [importing[w] EXCEPT !.importing = TRUE]
  <2>1. marked \in items /\ marked.importing
    BY DEF ImportsInv, WorkIsMarked, Item
  <2>2. QED
    BY <1>1, <2>1 DEF Dismiss, Without
<1>4. QED
  BY <1>2, <1>3 DEF ImportsInv

\* Marking keeps ids and sources.
LEMMA MarkedKeeps ==
  ASSUME ImportsInv, NEW id, NEW b \in BOOLEAN, items' = Marked(id, b), sequence' = sequence
  PROVE  /\ ItemsAreTyped' /\ ItemsDiffer'
         /\ \A i \in items : i.id # id => i \in items'
         /\ \A i \in items : i.id = id => [i EXCEPT !.importing = b] \in items'
<1>1. \A i \in items : [i EXCEPT !.importing = IF i.id = id THEN b ELSE @] \in Item
  BY DEF ImportsInv, ItemsAreTyped, Item
<1>2. \A i \in items : [i EXCEPT !.importing = IF i.id = id THEN b ELSE @]
                         = IF i.id = id THEN [i EXCEPT !.importing = b] ELSE i
  BY DEF ImportsInv, ItemsAreTyped, Item
<1>3. items' = {IF i.id = id THEN [i EXCEPT !.importing = b] ELSE i : i \in items}
  BY <1>2 DEF Marked
<1>4. \A i \in items : /\ [i EXCEPT !.importing = b].id = i.id
                       /\ [i EXCEPT !.importing = b].source = i.source
                       /\ [i EXCEPT !.importing = b] \in Item
  BY DEF ImportsInv, ItemsAreTyped, Item
<1> DEFINE after(i) == IF i.id = id THEN [i EXCEPT !.importing = b] ELSE i
<1>5. \A i \in items : after(i) \in Item /\ after(i).id = i.id /\ after(i).source = i.source
  BY <1>4 DEF ImportsInv, ItemsAreTyped
<1>6. items' = {after(i) : i \in items}
  BY <1>3
<1>7. ItemsAreTyped'
  BY <1>5, <1>6 DEF ImportsInv, ItemsAreTyped
<1>8. ASSUME NEW x \in items', NEW y \in items', x.id = y.id \/ x.source = y.source
      PROVE  x = y
  <2>1. PICK i \in items, j \in items : x = after(i) /\ y = after(j)
    BY <1>6
  <2>2. i = j
    BY <1>5, <1>8, <2>1 DEF ImportsInv, ItemsDiffer
  <2>3. QED
    BY <2>1, <2>2
<1>9. \A x \in items' : x.id <= sequence'
  BY <1>5, <1>6 DEF ImportsInv, ItemsDiffer
<1>10. \A i \in items : after(i) \in items'
  BY <1>6
<1>11. QED
  BY <1>7, <1>8, <1>9, <1>10 DEF ItemsDiffer

LEMMA ConfirmStep ==
  ASSUME ImportsInv, NEW w \in Windows, NEW id, Confirm(w, id)
  PROVE  ImportsInv'
<1>1. PICK item \in items :
        /\ item.id = id /\ ~item.importing /\ items' = Marked(id, TRUE)
        /\ importing' = [importing EXCEPT ![w] = item]
        /\ importing[w] = Idle /\ sequence' = sequence
  BY DEF Confirm
<1>2. /\ ItemsAreTyped' /\ ItemsDiffer'
      /\ \A i \in items : i.id # id => i \in items'
      /\ [item EXCEPT !.importing = TRUE] \in items'
  BY <1>1, MarkedKeeps
<1>3. ASSUME NEW v \in Windows \ {w}, importing[v] # Idle PROVE importing[v].id # id
  <2> DEFINE marked == [importing[v] EXCEPT !.importing = TRUE]
  <2>1. marked \in items /\ marked.importing /\ marked.id = importing[v].id
    BY <1>3 DEF ImportsInv, WorkIsMarked, Item
  <2>2. QED
    BY <1>1, <2>1 DEF ImportsInv, ItemsDiffer
<1>4. ASSUME NEW v \in Windows, importing'[v] # Idle
      PROVE  [importing'[v] EXCEPT !.importing = TRUE] \in items'
  <2>1. CASE v = w
    BY <1>1, <1>2, <2>1 DEF ImportsInv, WorkIsMarked
  <2>2. CASE v # w
    <3>1. importing'[v] = importing[v]
      BY <1>1, <2>2 DEF ImportsInv, WorkIsMarked
    <3>2. /\ [importing[v] EXCEPT !.importing = TRUE] \in items
          /\ [importing[v] EXCEPT !.importing = TRUE].id # id
      BY <1>3, <1>4, <2>2, <3>1 DEF ImportsInv, WorkIsMarked, Item
    <3>3. QED
      BY <1>2, <3>1, <3>2
  <2>3. QED
    BY <2>1, <2>2
<1>5. WorkIsMarked'
  BY <1>1, <1>3, <1>4 DEF ImportsInv, WorkIsMarked, ItemsAreTyped
<1>6. QED
  BY <1>2, <1>5 DEF ImportsInv

LEMMA EndStep ==
  ASSUME ImportsInv, NEW w \in Windows, NEW success \in BOOLEAN, ImportEnds(w, success)
  PROVE  ImportsInv'
<1> DEFINE id == importing[w].id
<1>1. /\ importing[w] # Idle /\ sequence' = sequence
      /\ importing' = [importing EXCEPT ![w] = Idle]
      /\ items' = Without(id) \/ items' = Marked(id, FALSE)
  BY DEF ImportEnds
<1>2. ItemsAreTyped' /\ ItemsDiffer' /\ \A i \in items : i.id # id => i \in items'
  <2>1. CASE items' = Without(id)
    BY <1>1, <2>1 DEF Without, ImportsInv, ItemsAreTyped, ItemsDiffer
  <2>2. CASE items' = Marked(id, FALSE)
    BY <1>1, <2>2, MarkedKeeps
  <2>3. QED
    BY <1>1, <2>1, <2>2
<1>3. ASSUME NEW v \in Windows, importing'[v] # Idle
      PROVE  /\ importing'[v] = importing[v] /\ v # w
             /\ [importing'[v] EXCEPT !.importing = TRUE] \in items'
  <2>1. v # w /\ importing'[v] = importing[v]
    BY <1>1, <1>3 DEF ImportsInv, WorkIsMarked
  <2>2. /\ [importing[v] EXCEPT !.importing = TRUE] \in items
        /\ [importing[v] EXCEPT !.importing = TRUE].id # id
    BY <1>1, <1>3, <2>1 DEF ImportsInv, WorkIsMarked, Item
  <2>3. QED
    BY <1>2, <2>1, <2>2
<1>4. WorkIsMarked'
  BY <1>1, <1>3 DEF ImportsInv, WorkIsMarked
<1>5. QED
  BY <1>2, <1>4 DEF ImportsInv

LEMMA ImportsKeepInvariant == ImportsSpec => []ImportsInv
<1>1. ASSUME ImportsInv, [ImportsNext]_importVars PROVE ImportsInv'
  <2>1. CASE UNCHANGED importVars
    BY <1>1, <2>1 DEF importVars, ImportsInv, ItemsAreTyped, ItemsDiffer, WorkIsMarked
  <2>2. CASE ImportsNext
    BY <1>1, <2>2, EnqueueStep, DismissStep, ConfirmStep, EndStep DEF ImportsNext
  <2>3. QED
    BY <1>1, <2>1, <2>2
<1>2. QED
  BY <1>1, ImportsBegin, PTL DEF ImportsSpec

\* A source is imported by one window at a time and stays queued meanwhile, whatever
\* links, confirmations and dismissals come in between (protocol.rs:52-110).
THEOREM ImportsExclude == ImportsSpec => []OneImportAtATime
<1>1. ImportsInv => OneImportAtATime
  <2> SUFFICES ASSUME ImportsInv, NEW w \in Windows, importing[w] # Idle,
                      NEW v \in Windows \ {w}, importing[v] # Idle
               PROVE  importing[v].source # importing[w].source
    BY DEF ImportsInv, WorkIsMarked, OneImportAtATime
  <2> DEFINE mine   == [importing[w] EXCEPT !.importing = TRUE]
             theirs == [importing[v] EXCEPT !.importing = TRUE]
  <2>1. /\ mine \in items /\ theirs \in items
        /\ mine.id = importing[w].id /\ mine.source = importing[w].source
        /\ theirs.id = importing[v].id /\ theirs.source = importing[v].source
        /\ importing[v].id # importing[w].id
    BY DEF ImportsInv, WorkIsMarked, Item
  <2>2. QED
    BY <2>1 DEF ImportsInv, ItemsDiffer
<1>2. QED
  BY <1>1, ImportsKeepInvariant, PTL

(********************************* the build *********************************)

LEMMA WithIn ==
  ASSUME NEW m, NEW f, NEW k
  PROVE  /\ IsMap(With(m, f))
         /\ k \in DOMAIN f => In(With(m, f), k) = f[k] /\ k \in DOMAIN With(m, f).entries
         /\ k \notin DOMAIN f /\ IsMap(m) => In(With(m, f), k) = In(m, k)
  BY DEF IsMap, With, Map, In, Over

LEMMA LackingIn ==
  ASSUME NEW m, NEW f, NEW k, IsMap(m)
  PROVE  /\ IsMap(Lacking(m, f))
         /\ k \in DOMAIN m.entries => In(Lacking(m, f), k) = In(m, k)
         /\ k \notin DOMAIN m.entries /\ k \in DOMAIN f => In(Lacking(m, f), k) = f[k]
  BY DEF IsMap, Lacking, Map, In, Over

LEMMA EntryIs ==
  ASSUME NEW k, NEW x
  PROVE  DOMAIN Entry(k, x) = {k} /\ Entry(k, x)[k] = x
  BY DEF Entry

LEMMA OverIs ==
  ASSUME NEW f, NEW g
  PROVE  /\ DOMAIN Over(f, g) = DOMAIN f \cup DOMAIN g
         /\ \A k \in DOMAIN f : Over(f, g)[k] = f[k]
         /\ \A k \in DOMAIN g \ DOMAIN f : Over(f, g)[k] = g[k]
  BY DEF Over

LEMMA SwitchesDiffer == On # Off /\ On # Null
  BY DEF On, Off, Null, Scalar

LEMMA NullIsEmpty == ~IsMap(Null) /\ \A k : In(Null, k) = Null
  BY DEF IsMap, Null, In

\* Inserting under one key leaves the others.
LEMMA InsertOne ==
  ASSUME NEW m, NEW k, NEW x, IsMap(m)
  PROVE  /\ IsMap(With(m, Entry(k, x)))
         /\ In(With(m, Entry(k, x)), k) = x
         /\ \A j : j # k => In(With(m, Entry(k, x)), j) = In(m, j)
<1>1. \A j : /\ IsMap(With(m, Entry(k, x)))
             /\ j = k => In(With(m, Entry(k, x)), j) = Entry(k, x)[j]
             /\ j # k => In(With(m, Entry(k, x)), j) = In(m, j)
  <2> TAKE j
  <2>1. j \in DOMAIN Entry(k, x) <=> j = k
    BY EntryIs
  <2>2. QED
    BY <2>1, WithIn
<1>2. QED
  BY <1>1, EntryIs

(********************************* the merge *********************************)

\* A set of natural numbers that is not empty has a least element.
LEMMA LeastNumber ==
  ASSUME NEW T, T \subseteq Nat, T # {}
  PROVE  \E x \in T : \A y \in T : x <= y
<1>1. PICK x \in T : \A y \in T : ~ (<<y, x>> \in OpToRel(<,Nat))
  BY WFMin, NatLessThanWellFounded
<1>2. \A y \in T : ~ (y < x)
  BY <1>1 DEF OpToRel
<1> HIDE DEF OpToRel
<1>3. \A y \in T : x <= y
  BY <1>2
<1> QED
  BY <1>3

\* Induction over the natural numbers, on a set.
LEMMA CountUp ==
  ASSUME NEW T, 0 \in T, \A n \in Nat : n \in T => n + 1 \in T
  PROVE  Nat \subseteq T
<1> SUFFICES ASSUME Nat \ T # {} PROVE FALSE
  OBVIOUS
<1>1. PICK x \in Nat \ T : \A y \in Nat \ T : x <= y
  BY LeastNumber
<1>2. x # 0 /\ x - 1 \in Nat /\ x - 1 \in T
  BY <1>1
<1> QED
  BY <1>1, <1>2

\* What one key of a patch does to a mapping, whatever is merged below it.
MergeStep(m, m2, patch, k) ==
  \/ k \notin DOMAIN patch.entries /\ m2 = m
  \/ /\ k \in DOMAIN patch.entries /\ k \in DOMAIN Splicing /\ IsList(In(m, Splicing[k].list))
     /\ m2 = With(m, Entry(Splicing[k].list,
                           Spliced(In(m, Splicing[k].list), patch.entries[k], Splicing[k].front)))
  \/ /\ k \in DOMAIN patch.entries
     /\ ~ (k \in DOMAIN Splicing /\ IsList(In(m, Splicing[k].list)))
     /\ \E x : m2 = With(m, Entry(k, x)) /\ (~IsMap(patch.entries[k]) => x = patch.entries[k])

\* The keys outside the order, which come first; what is no mapping is taken as it is.
MergeFirst(f, patch) ==
  /\ DOMAIN f = DOMAIN patch.entries \ Range(KeyOrder)
  /\ \A k \in DOMAIN f : ~IsMap(patch.entries[k]) => f[k] = patch.entries[k]

\* The merge of two mappings, key after key.
Merging(g, base, patch) ==
  /\ \E f : MergeFirst(f, patch) /\ g[0] = With(base, f)
  /\ \A n \in 1 .. Len(KeyOrder) : MergeStep(g[n - 1], g[n], patch, KeyOrder[n])

LEMMA LeavesReplace ==
  ASSUME NEW base, NEW patch, ~IsMap(patch)
  PROVE  Merge2(base, patch) = patch /\ Merge3(base, patch) = patch
  BY DEF Merge2, Merge3, MergeMaps

\* DeepMerge, with Merge3 below a key.
DeepEnters(m, k, new) == Entered(Merge3, m, k, new)
DeepFirst(base, patch) ==
  With(base, [k \in DOMAIN patch.entries \ Range(KeyOrder) |->
                Merge3(In(base, k), patch.entries[k])])
IsDeepMerge(g, base, patch, N) ==
  g = [n \in 0 .. N |->
         IF n = 0 THEN DeepFirst(base, patch)
         ELSE IF KeyOrder[n] \in DOMAIN patch.entries
         THEN DeepEnters(g[n - 1], KeyOrder[n], patch.entries[KeyOrder[n]])
         ELSE g[n - 1]]

LEMMA DeepMergeIs ==
  ASSUME NEW base, NEW patch, IsMap(base), IsMap(patch)
  PROVE  DeepMerge(base, patch) =
           (CHOOSE g : IsDeepMerge(g, base, patch, Len(KeyOrder)))[Len(KeyOrder)]
  BY DEF DeepMerge, MergeMaps, IsDeepMerge, DeepEnters, DeepFirst

LEMMA DeepMergeExists ==
  ASSUME NEW base, NEW patch, NEW N \in Nat
  PROVE  \E g : IsDeepMerge(g, base, patch, N)
<1> DEFINE Is(g, n) == IsDeepMerge(g, base, patch, n)
           T == {n \in Nat : \E g : Is(g, n)}
<1>1. 0 \in T
  <2>1. Is([n \in 0 .. 0 |-> DeepFirst(base, patch)], 0)
    BY DEF IsDeepMerge
  <2> QED
    BY <2>1
<1>2. ASSUME NEW n \in T PROVE n + 1 \in T
  <2>1. PICK g : Is(g, n)
    OBVIOUS
  <2> DEFINE last == IF KeyOrder[n + 1] \in DOMAIN patch.entries
                     THEN DeepEnters(g[n], KeyOrder[n + 1], patch.entries[KeyOrder[n + 1]])
                     ELSE g[n]
             h == [k \in 0 .. n + 1 |-> IF k = n + 1 THEN last ELSE g[k]]
             At0(f, k) == IF k = 0 THEN DeepFirst(base, patch)
                          ELSE IF KeyOrder[k] \in DOMAIN patch.entries
                          THEN DeepEnters(f[k - 1], KeyOrder[k], patch.entries[KeyOrder[k]])
                          ELSE f[k - 1]
  <2>2. \A k \in 0 .. n : h[k] = g[k]
    OBVIOUS
  <2>3. h[n + 1] = last
    OBVIOUS
  <2>4. \A k \in 0 .. n : h[k] = At0(h, k)
    <3>1. \A k \in 0 .. n : g[k] = At0(g, k)
      BY <2>1 DEF IsDeepMerge
    <3>2. \A k \in 0 .. n : k # 0 => k - 1 \in 0 .. n
      OBVIOUS
    <3> HIDE DEF h
    <3> QED
      BY <2>2, <3>1, <3>2
  <2>5. h[n + 1] = At0(h, n + 1)
    BY <2>2, <2>3
  <2>6. h = [k \in 0 .. n + 1 |-> h[k]]
    OBVIOUS
  <2>7. \A k \in 0 .. n + 1 : k \in 0 .. n \/ k = n + 1
    OBVIOUS
  <2> HIDE DEF h, At0
  <2>8. h = [k \in 0 .. n + 1 |-> At0(h, k)]
    BY <2>4, <2>5, <2>6, <2>7
  <2>9. Is(h, n + 1)
    BY <2>8 DEF IsDeepMerge, At0
  <2> HIDE DEF Is
  <2> QED
    BY <2>9
<1> HIDE DEF Is
<1>3. Nat \subseteq T
  <2>1. \A n \in Nat : n \in T => n + 1 \in T
    BY <1>2
  <2> HIDE DEF T
  <2> QED
    BY <1>1, <2>1, CountUp
<1> QED
  BY <1>3 DEF Is

LEMMA DeepMergeRuns ==
  ASSUME NEW base, NEW patch, IsMap(base), IsMap(patch)
  PROVE  \E g : Merging(g, base, patch) /\ DeepMerge(base, patch) = g[Len(KeyOrder)]
<1> DEFINE N == Len(KeyOrder)
           g == CHOOSE f : IsDeepMerge(f, base, patch, N)
<1>1. N \in Nat
  BY PrefixesAreOrdered DEF IsSequence
<1>2. IsDeepMerge(g, base, patch, N)
  BY <1>1, DeepMergeExists
<1>3. DeepMerge(base, patch) = g[N]
  BY DeepMergeIs
<1> HIDE DEF g
<1>4. g[0] = DeepFirst(base, patch)
  BY <1>1, <1>2 DEF IsDeepMerge
<1>5. \E f : MergeFirst(f, patch) /\ g[0] = With(base, f)
  <2> DEFINE f == [k \in DOMAIN patch.entries \ Range(KeyOrder) |->
                     Merge3(In(base, k), patch.entries[k])]
  <2>1. MergeFirst(f, patch)
    BY LeavesReplace DEF MergeFirst
  <2>2. g[0] = With(base, f)
    BY <1>4 DEF DeepFirst
  <2> HIDE DEF f
  <2> QED
    BY <2>1, <2>2
<1>6. ASSUME NEW n \in 1 .. N PROVE MergeStep(g[n - 1], g[n], patch, KeyOrder[n])
  <2> DEFINE k == KeyOrder[n]
             m == g[n - 1]
  <2>1. g[n] = IF k \in DOMAIN patch.entries THEN DeepEnters(m, k, patch.entries[k]) ELSE m
    BY <1>1, <1>2 DEF IsDeepMerge
  <2> HIDE DEF k, m
  <2>2. CASE k \notin DOMAIN patch.entries
    BY <2>1, <2>2 DEF MergeStep, k, m
  <2>3. CASE k \in DOMAIN patch.entries /\ k \in DOMAIN Splicing /\ IsList(In(m, Splicing[k].list))
    <3>1. g[n] = With(m, Entry(Splicing[k].list,
                           Spliced(In(m, Splicing[k].list), patch.entries[k], Splicing[k].front)))
      BY <2>1, <2>3 DEF DeepEnters, Entered
    <3> QED
      BY <2>3, <3>1 DEF MergeStep, k, m
  <2>4. CASE /\ k \in DOMAIN patch.entries
             /\ ~ (k \in DOMAIN Splicing /\ IsList(In(m, Splicing[k].list)))
    <3> DEFINE x == Merge3(In(m, k), patch.entries[k])
    <3>1. g[n] = With(m, Entry(k, x))
      BY <2>1, <2>4 DEF DeepEnters, Entered
    <3>2. ~IsMap(patch.entries[k]) => x = patch.entries[k]
      BY LeavesReplace
    <3> HIDE DEF x
    <3> QED
      BY <2>4, <3>1, <3>2 DEF MergeStep, k, m
  <2> QED
    BY <2>2, <2>3, <2>4
<1> QED
  BY <1>3, <1>5, <1>6 DEF Merging

\* Merge3, with Merge2 below a key.
Enters3(m, k, new) == Entered(Merge2, m, k, new)
First3(base, patch) ==
  With(base, [k \in DOMAIN patch.entries \ Range(KeyOrder) |->
                Merge2(In(base, k), patch.entries[k])])
IsMerge3(g, base, patch, N) ==
  g = [n \in 0 .. N |->
         IF n = 0 THEN First3(base, patch)
         ELSE IF KeyOrder[n] \in DOMAIN patch.entries
         THEN Enters3(g[n - 1], KeyOrder[n], patch.entries[KeyOrder[n]])
         ELSE g[n - 1]]

LEMMA Merge3Is ==
  ASSUME NEW base, NEW patch, IsMap(base), IsMap(patch)
  PROVE  Merge3(base, patch) = (CHOOSE g : IsMerge3(g, base, patch, Len(KeyOrder)))[Len(KeyOrder)]
  BY DEF Merge3, MergeMaps, IsMerge3, Enters3, First3

LEMMA Merge3Exists ==
  ASSUME NEW base, NEW patch, NEW N \in Nat
  PROVE  \E g : IsMerge3(g, base, patch, N)
<1> DEFINE Is(g, n) == IsMerge3(g, base, patch, n)
           T == {n \in Nat : \E g : Is(g, n)}
<1>1. 0 \in T
  <2>1. Is([n \in 0 .. 0 |-> First3(base, patch)], 0)
    BY DEF IsMerge3
  <2> QED
    BY <2>1
<1>2. ASSUME NEW n \in T PROVE n + 1 \in T
  <2>1. PICK g : Is(g, n)
    OBVIOUS
  <2> DEFINE last == IF KeyOrder[n + 1] \in DOMAIN patch.entries
                     THEN Enters3(g[n], KeyOrder[n + 1], patch.entries[KeyOrder[n + 1]])
                     ELSE g[n]
             h == [k \in 0 .. n + 1 |-> IF k = n + 1 THEN last ELSE g[k]]
             At0(f, k) == IF k = 0 THEN First3(base, patch)
                          ELSE IF KeyOrder[k] \in DOMAIN patch.entries
                          THEN Enters3(f[k - 1], KeyOrder[k], patch.entries[KeyOrder[k]])
                          ELSE f[k - 1]
  <2>2. \A k \in 0 .. n : h[k] = g[k]
    OBVIOUS
  <2>3. h[n + 1] = last
    OBVIOUS
  <2>4. \A k \in 0 .. n : h[k] = At0(h, k)
    <3>1. \A k \in 0 .. n : g[k] = At0(g, k)
      BY <2>1 DEF IsMerge3
    <3>2. \A k \in 0 .. n : k # 0 => k - 1 \in 0 .. n
      OBVIOUS
    <3> HIDE DEF h
    <3> QED
      BY <2>2, <3>1, <3>2
  <2>5. h[n + 1] = At0(h, n + 1)
    BY <2>2, <2>3
  <2>6. h = [k \in 0 .. n + 1 |-> h[k]]
    OBVIOUS
  <2>7. \A k \in 0 .. n + 1 : k \in 0 .. n \/ k = n + 1
    OBVIOUS
  <2> HIDE DEF h, At0
  <2>8. h = [k \in 0 .. n + 1 |-> At0(h, k)]
    BY <2>4, <2>5, <2>6, <2>7
  <2>9. Is(h, n + 1)
    BY <2>8 DEF IsMerge3, At0
  <2> HIDE DEF Is
  <2> QED
    BY <2>9
<1> HIDE DEF Is
<1>3. Nat \subseteq T
  <2>1. \A n \in Nat : n \in T => n + 1 \in T
    BY <1>2
  <2> HIDE DEF T
  <2> QED
    BY <1>1, <2>1, CountUp
<1> QED
  BY <1>3 DEF Is

LEMMA Merge3Runs ==
  ASSUME NEW base, NEW patch, IsMap(base), IsMap(patch)
  PROVE  \E g : Merging(g, base, patch) /\ Merge3(base, patch) = g[Len(KeyOrder)]
<1> DEFINE N == Len(KeyOrder)
           g == CHOOSE f : IsMerge3(f, base, patch, N)
<1>1. N \in Nat
  BY PrefixesAreOrdered DEF IsSequence
<1>2. IsMerge3(g, base, patch, N)
  BY <1>1, Merge3Exists
<1>3. Merge3(base, patch) = g[N]
  BY Merge3Is
<1> HIDE DEF g
<1>4. g[0] = First3(base, patch)
  BY <1>1, <1>2 DEF IsMerge3
<1>5. \E f : MergeFirst(f, patch) /\ g[0] = With(base, f)
  <2> DEFINE f == [k \in DOMAIN patch.entries \ Range(KeyOrder) |->
                     Merge2(In(base, k), patch.entries[k])]
  <2>1. MergeFirst(f, patch)
    BY LeavesReplace DEF MergeFirst
  <2>2. g[0] = With(base, f)
    BY <1>4 DEF First3
  <2> HIDE DEF f
  <2> QED
    BY <2>1, <2>2
<1>6. ASSUME NEW n \in 1 .. N PROVE MergeStep(g[n - 1], g[n], patch, KeyOrder[n])
  <2> DEFINE k == KeyOrder[n]
             m == g[n - 1]
  <2>1. g[n] = IF k \in DOMAIN patch.entries THEN Enters3(m, k, patch.entries[k]) ELSE m
    BY <1>1, <1>2 DEF IsMerge3
  <2> HIDE DEF k, m
  <2>2. CASE k \notin DOMAIN patch.entries
    BY <2>1, <2>2 DEF MergeStep, k, m
  <2>3. CASE k \in DOMAIN patch.entries /\ k \in DOMAIN Splicing /\ IsList(In(m, Splicing[k].list))
    <3>1. g[n] = With(m, Entry(Splicing[k].list,
                           Spliced(In(m, Splicing[k].list), patch.entries[k], Splicing[k].front)))
      BY <2>1, <2>3 DEF Enters3, Entered
    <3> QED
      BY <2>3, <3>1 DEF MergeStep, k, m
  <2>4. CASE /\ k \in DOMAIN patch.entries
             /\ ~ (k \in DOMAIN Splicing /\ IsList(In(m, Splicing[k].list)))
    <3> DEFINE x == Merge2(In(m, k), patch.entries[k])
    <3>1. g[n] = With(m, Entry(k, x))
      BY <2>1, <2>4 DEF Enters3, Entered
    <3>2. ~IsMap(patch.entries[k]) => x = patch.entries[k]
      BY LeavesReplace
    <3> HIDE DEF x
    <3> QED
      BY <2>4, <3>1, <3>2 DEF MergeStep, k, m
  <2> QED
    BY <2>2, <2>3, <2>4
<1> QED
  BY <1>3, <1>5, <1>6 DEF Merging

(******************************* parts of lists ******************************)

LEMMA SequenceIn ==
  ASSUME NEW s, IsSequence(s) PROVE \E S : s \in Seq(S)
<1> DEFINE S == {s[i] : i \in 1 .. Len(s)}
<1>1. s \in [1 .. Len(s) -> S]
  BY DEF IsSequence
<1> HIDE DEF S
<1>2. s \in Seq(S)
  BY <1>1, SeqDef DEF IsSequence
<1> QED
  BY <1>2

LEMMA SequenceOf ==
  ASSUME NEW S, NEW s \in Seq(S) PROVE IsSequence(s)
  BY LenProperties DEF IsSequence

LEMMA SequencesIn ==
  ASSUME NEW a, NEW b, NEW c, IsSequence(a), IsSequence(b), IsSequence(c)
  PROVE  \E S : a \in Seq(S) /\ b \in Seq(S) /\ c \in Seq(S)
<1>1. PICK A : a \in Seq(A)
  BY SequenceIn
<1>2. PICK B : b \in Seq(B)
  BY SequenceIn
<1>3. PICK C : c \in Seq(C)
  BY SequenceIn
<1> DEFINE S == A \cup B \cup C
<1>4. A \subseteq S /\ B \subseteq S /\ C \subseteq S
  OBVIOUS
<1> HIDE DEF S
<1>5. a \in Seq(S) /\ b \in Seq(S) /\ c \in Seq(S)
  BY <1>1, <1>2, <1>3, <1>4, SeqMonotonic
<1> QED
  BY <1>5

\* As s \o t, of which the provers would look at the elements.
Join(s, t) == s \o t

LEMMA EmptyIsSequence ==
  ASSUME NEW a, IsSequence(a)
  PROVE  IsSequence(<<>>) /\ Join(<<>>, a) = a /\ Join(a, <<>>) = a
<1>1. PICK S : a \in Seq(S)
  BY SequenceIn
<1>2. <<>> \in Seq(S)
  BY EmptySeq
<1>3. <<>> \o a = a /\ a \o <<>> = a
  BY <1>1, <1>2, ConcatEmptySeq
<1> QED
  BY <1>2, <1>3, SequenceOf DEF Join

LEMMA JoinIs ==
  ASSUME NEW a, NEW b, IsSequence(a), IsSequence(b)
  PROVE  /\ IsSequence(Join(a, b)) /\ Len(Join(a, b)) = Len(a) + Len(b)
         /\ Len(a) \in Nat /\ Len(b) \in Nat
<1>1. PICK S : a \in Seq(S) /\ b \in Seq(S)
  BY SequencesIn
<1>2. a \o b \in Seq(S) /\ Len(a \o b) = Len(a) + Len(b)
  BY <1>1, ConcatProperties
<1> QED
  BY <1>2, SequenceOf DEF IsSequence, Join

LEMMA JoinAssociates ==
  ASSUME NEW a, NEW b, NEW c, IsSequence(a), IsSequence(b), IsSequence(c)
  PROVE  Join(Join(a, b), c) = Join(a, Join(b, c))
<1>1. PICK S : a \in Seq(S) /\ b \in Seq(S) /\ c \in Seq(S)
  BY SequencesIn
<1>2. (a \o b) \o c = a \o (b \o c)
  BY <1>1, ConcatAssociative
<1> QED
  BY <1>2 DEF Join

LEMMA Beginning ==
  ASSUME NEW a, NEW b, IsSequence(a), IsSequence(b)
  PROVE  SubSeq(Join(a, b), 1, Len(a)) = a
<1> SUFFICES SubSeq(a \o b, 1, Len(a)) = a
  BY DEF Join
<1>1. PICK S : a \in Seq(S) /\ b \in Seq(S)
  BY SequencesIn
<1>2. CASE a = <<>>
  <2>1. Len(a) = 0
    BY <1>2
  <2> QED
    BY <1>2, <2>1, SubSeqEmpty
<1>3. CASE a # <<>>
  <2>1. Len(a) \in Nat \ {0}
    BY <1>1, <1>3, EmptySeq
  <2>2. SubSeq(a \o b, 1, Len(a)) = SubSeq(a, 1, Len(a))
    BY <1>1, <2>1, SubSeqOfConcat1
  <2> QED
    BY <1>1, <2>2, SubSeqFull
<1> QED
  BY <1>2, <1>3

LEMMA Ending ==
  ASSUME NEW a, NEW b, IsSequence(a), IsSequence(b)
  PROVE  SubSeq(Join(a, b), Len(a) + 1, Len(a) + Len(b)) = b
<1> SUFFICES SubSeq(a \o b, Len(a) + 1, Len(a) + Len(b)) = b
  BY DEF Join
<1>1. PICK S : a \in Seq(S) /\ b \in Seq(S)
  BY SequencesIn
<1>2. Len(a) \in Nat /\ Len(b) \in Nat
  BY DEF IsSequence
<1>3. CASE b = <<>>
  <2>1. Len(b) = 0
    BY <1>3
  <2> QED
    BY <1>2, <1>3, <2>1, SubSeqEmpty
<1>4. CASE b # <<>>
  <2>1. Len(b) \in Nat \ {0}
    BY <1>1, <1>4, EmptySeq
  <2>2. SubSeq(a \o b, Len(a) + 1, Len(a) + Len(b))
          = SubSeq(b, (Len(a) + 1) - Len(a), (Len(a) + Len(b)) - Len(a))
    BY <1>1, <1>2, <2>1, SubSeqOfConcat2
  <2>3. (Len(a) + 1) - Len(a) = 1 /\ (Len(a) + Len(b)) - Len(a) = Len(b)
    BY <1>2
  <2> QED
    BY <1>1, <2>2, <2>3, SubSeqFull
<1> QED
  BY <1>3, <1>4

LEMMA Middle ==
  ASSUME NEW a, NEW b, NEW c, IsSequence(a), IsSequence(b), IsSequence(c)
  PROVE  /\ SubSeq(Join(Join(a, b), c), 1, Len(a)) = a
         /\ SubSeq(Join(Join(a, b), c), Len(a) + 1, Len(a) + Len(b)) = b
<1> DEFINE ab == Join(a, b)
           abc == Join(ab, c)
<1>1. /\ abc = Join(a, Join(b, c)) /\ IsSequence(Join(b, c)) /\ IsSequence(ab)
      /\ Len(ab) = Len(a) + Len(b) /\ Len(a) \in Nat /\ Len(b) \in Nat
  BY JoinIs, JoinAssociates
<1>2. SubSeq(abc, 1, Len(a)) = a
  BY <1>1, Beginning
<1>3. SubSeq(ab, Len(a) + 1, Len(a) + Len(b)) = b
  BY Ending
<1> HIDE DEF ab
<1>4. CASE b = <<>>
  <2>1. Len(b) = 0
    BY <1>4
  <2> QED
    BY <1>1, <1>2, <1>4, <2>1, SubSeqEmpty DEF ab
<1>5. CASE b # <<>>
  <2>1. PICK S : ab \in Seq(S) /\ b \in Seq(S) /\ c \in Seq(S)
    BY <1>1, SequencesIn
  <2>2. Len(b) \in Nat \ {0}
    BY <2>1, <1>5, EmptySeq
  <2>3. Len(a) + 1 \in 1 .. Len(ab) /\ Len(a) + Len(b) \in 1 .. Len(ab)
    BY <1>1, <2>2
  <2>4. SubSeq(ab \o c, Len(a) + 1, Len(a) + Len(b)) = SubSeq(ab, Len(a) + 1, Len(a) + Len(b))
    BY <2>1, <2>3, SubSeqOfConcat1
  <2> QED
    BY <1>2, <1>3, <2>4 DEF Join, ab
<1> QED
  BY <1>4, <1>5

\* part is in all, in one piece.
Contains(part, all) ==
  \E a, b : IsSequence(a) /\ IsSequence(b) /\ all = Join(Join(a, part), b)

LEMMA ContainsMore ==
  ASSUME NEW part, NEW all, NEW more, IsSequence(part), IsSequence(more), Contains(part, all)
  PROVE  Contains(part, Join(more, all))
<1>1. PICK a, b : IsSequence(a) /\ IsSequence(b) /\ all = Join(Join(a, part), b)
  BY DEF Contains
<1>2. IsSequence(Join(a, part)) /\ IsSequence(Join(more, a))
  BY <1>1, JoinIs
<1>3. Join(more, all) = Join(Join(more, Join(a, part)), b)
  BY <1>1, <1>2, JoinAssociates
<1>4. Join(more, Join(a, part)) = Join(Join(more, a), part)
  BY <1>1, JoinAssociates
<1> QED
  BY <1>1, <1>2, <1>3, <1>4 DEF Contains

LEMMA ContainsFirst ==
  ASSUME NEW part, NEW more, IsSequence(part), IsSequence(more)
  PROVE  Contains(part, Join(part, more))
  BY EmptyIsSequence DEF Contains

LEMMA ContainsBefore ==
  ASSUME NEW part, NEW all, NEW more, IsSequence(part), IsSequence(more), Contains(part, all)
  PROVE  Contains(part, Join(all, more))
<1>1. PICK a, b : IsSequence(a) /\ IsSequence(b) /\ all = Join(Join(a, part), b)
  BY DEF Contains
<1>2. IsSequence(Join(a, part)) /\ IsSequence(Join(b, more))
  BY <1>1, JoinIs
<1>3. Join(all, more) = Join(Join(a, part), Join(b, more))
  BY <1>1, <1>2, JoinAssociates
<1> QED
  BY <1>1, <1>2, <1>3 DEF Contains

LEMMA ContainsOccurs ==
  ASSUME NEW part, NEW all, IsSequence(part), Contains(part, all)
  PROVE  Occurs(part, all)
<1>1. PICK a, b : IsSequence(a) /\ IsSequence(b) /\ all = Join(Join(a, part), b)
  BY DEF Contains
<1>2. IsSequence(Join(a, part))
  BY <1>1, JoinIs
<1>3. /\ Len(all) = Len(a) + Len(part) + Len(b)
      /\ Len(a) \in Nat /\ Len(b) \in Nat /\ Len(part) \in Nat
  BY <1>1, <1>2, JoinIs
<1>4. SubSeq(all, Len(a) + 1, Len(a) + Len(part)) = part
  BY <1>1, Middle
<1>5. Len(a) \in 0 .. Len(all) - Len(part)
  BY <1>3
<1> QED
  BY <1>4, <1>5 DEF Occurs

(************************* what a merge leaves alone *************************)

\* A merge changes what the patch names, and what a key with a prefix extends.
Extends(patch, k) == \E x \in DOMAIN patch.entries \cap DOMAIN Splicing : Splicing[x].list = k

LEMMA StepLeaves ==
  ASSUME NEW m, NEW m2, NEW patch, NEW x, MergeStep(m, m2, patch, x), IsMap(m)
  PROVE  /\ IsMap(m2)
         /\ \A k : k \notin DOMAIN patch.entries /\ ~Extends(patch, k) => In(m2, k) = In(m, k)
<1>1. CASE x \notin DOMAIN patch.entries /\ m2 = m
  BY <1>1
<1>2. CASE /\ x \in DOMAIN patch.entries /\ x \in DOMAIN Splicing
           /\ m2 = With(m, Entry(Splicing[x].list,
                          Spliced(In(m, Splicing[x].list), patch.entries[x], Splicing[x].front)))
  <2>1. \A k : ~Extends(patch, k) => k # Splicing[x].list
    BY <1>2 DEF Extends
  <2> QED
    BY <1>2, <2>1, InsertOne
<1>3. CASE x \in DOMAIN patch.entries /\ \E v : m2 = With(m, Entry(x, v))
  BY <1>3, InsertOne
<1> QED
  BY <1>1, <1>2, <1>3 DEF MergeStep

LEMMA FirstLeaves ==
  ASSUME NEW g, NEW base, NEW patch, IsMap(base), Merging(g, base, patch)
  PROVE  IsMap(g[0]) /\ \A k : k \notin DOMAIN patch.entries => In(g[0], k) = In(base, k)
<1>1. PICK f : DOMAIN f \subseteq DOMAIN patch.entries /\ g[0] = With(base, f)
  BY DEF Merging, MergeFirst
<1> QED
  BY <1>1, WithIn

LEMMA MergeLeaves ==
  ASSUME NEW g, NEW base, NEW patch, IsMap(base), Merging(g, base, patch)
  PROVE  /\ IsMap(g[Len(KeyOrder)])
         /\ \A k : k \notin DOMAIN patch.entries /\ ~Extends(patch, k) =>
              In(g[Len(KeyOrder)], k) = In(base, k)
<1> DEFINE N == Len(KeyOrder)
           Good(n) == /\ IsMap(g[n])
                      /\ \A k : k \notin DOMAIN patch.entries /\ ~Extends(patch, k) =>
                           In(g[n], k) = In(base, k)
           T == {n \in Nat : n <= N => Good(n)}
<1>1. N \in Nat
  BY PrefixesAreOrdered DEF IsSequence
<1>2. Good(0)
  BY FirstLeaves
<1>3. ASSUME NEW n \in Nat, n + 1 <= N, Good(n) PROVE Good(n + 1)
  <2>1. n + 1 \in 1 .. N /\ (n + 1) - 1 = n
    BY <1>1, <1>3
  <2>2. MergeStep(g[n], g[n + 1], patch, KeyOrder[n + 1])
    BY <2>1 DEF Merging
  <2> QED
    BY <1>3, <2>2, StepLeaves
<1> HIDE DEF Good
<1>4. N \in T
  <2>1. 0 \in T
    BY <1>2
  <2>2. \A n \in Nat : n \in T => n + 1 \in T
    BY <1>1, <1>3
  <2> HIDE DEF T
  <2> QED
    BY <1>1, <2>1, <2>2, CountUp
<1>5. Good(N)
  BY <1>1, <1>4
<1> QED
  BY <1>5 DEF Good

(******************************** a switch ***********************************)

LEMMA SwitchesAreLeaves ==
  \A w \in {On, Off} : ~IsMap(w) /\ ~IsList(w) /\ w # Null
  BY DEF On, Off, Scalar, IsMap, IsList, Null

\* Once a switch has its position, nothing else in the patch changes it.
LEMMA StepSwitches ==
  ASSUME NEW m, NEW m2, NEW patch, NEW x, MergeStep(m, m2, patch, x), IsMap(m),
         NEW k, k \notin DOMAIN Splicing, NEW w \in {On, Off},
         k \in DOMAIN patch.entries => patch.entries[k] = w,
         In(m, k) = w \/ (x = k /\ k \in DOMAIN patch.entries)
  PROVE  In(m2, k) = w
<1>1. CASE x \notin DOMAIN patch.entries /\ m2 = m
  BY <1>1
<1>2. CASE /\ x \in DOMAIN patch.entries /\ x \in DOMAIN Splicing
           /\ IsList(In(m, Splicing[x].list))
           /\ m2 = With(m, Entry(Splicing[x].list,
                          Spliced(In(m, Splicing[x].list), patch.entries[x], Splicing[x].front)))
  <2>1. In(m, k) = w /\ k # Splicing[x].list
    BY <1>2, SwitchesAreLeaves
  <2> QED
    BY <1>2, <2>1, InsertOne
<1>3. CASE /\ x \in DOMAIN patch.entries
           /\ \E v : /\ m2 = With(m, Entry(x, v))
                     /\ ~IsMap(patch.entries[x]) => v = patch.entries[x]
  <2>1. PICK v : /\ m2 = With(m, Entry(x, v))
                 /\ ~IsMap(patch.entries[x]) => v = patch.entries[x]
    BY <1>3
  <2>2. CASE x = k
    BY <1>3, <2>1, <2>2, InsertOne, SwitchesAreLeaves
  <2>3. CASE x # k
    BY <2>1, <2>3, InsertOne
  <2> QED
    BY <2>2, <2>3
<1> QED
  BY <1>1, <1>2, <1>3 DEF MergeStep

\* A switch has the position of the patch, or of the base if the patch is silent.
LEMMA MergeSwitches ==
  ASSUME NEW base, NEW patch, IsMap(base), IsMap(patch),
         NEW k, k \notin DOMAIN Splicing, NEW w \in {On, Off},
         w = IF k \in DOMAIN patch.entries THEN patch.entries[k] ELSE In(base, k)
  PROVE  IsMap(Merge3(base, patch)) /\ In(Merge3(base, patch), k) = w
<1>1. PICK g : Merging(g, base, patch) /\ Merge3(base, patch) = g[Len(KeyOrder)]
  BY Merge3Runs
<1> DEFINE N == Len(KeyOrder)
           Met(n) == k \in DOMAIN patch.entries /\ k \in Range(KeyOrder)
                       => \E i \in 1 .. n : KeyOrder[i] = k
           Good(n) == IsMap(g[n]) /\ (Met(n) => In(g[n], k) = w)
           T == {n \in Nat : n <= N => Good(n)}
<1>2. N \in Nat
  BY PrefixesAreOrdered DEF IsSequence
<1>3. Good(0)
  <2>1. PICK f : MergeFirst(f, patch) /\ g[0] = With(base, f)
    BY <1>1 DEF Merging
  <2>2. CASE k \in DOMAIN patch.entries \ Range(KeyOrder)
    BY <2>1, <2>2, WithIn, SwitchesAreLeaves DEF MergeFirst
  <2>3. CASE k \notin DOMAIN patch.entries
    BY <2>1, <2>3, WithIn DEF MergeFirst
  <2>4. CASE k \in DOMAIN patch.entries /\ k \in Range(KeyOrder)
    <3>1. ~Met(0)
      BY <2>4
    <3>2. IsMap(g[0])
      BY <2>1, WithIn
    <3> HIDE DEF Met
    <3> QED
      BY <3>1, <3>2
  <2> QED
    BY <2>2, <2>3, <2>4
<1>4. ASSUME NEW n \in Nat, n + 1 <= N, Good(n) PROVE Good(n + 1)
  <2>1. n + 1 \in 1 .. N /\ (n + 1) - 1 = n
    BY <1>2, <1>4
  <2>2. MergeStep(g[n], g[n + 1], patch, KeyOrder[n + 1])
    BY <1>1, <2>1 DEF Merging
  <2>3. IsMap(g[n]) /\ IsMap(g[n + 1])
    BY <1>4, <2>2, StepLeaves
  <2>4. k \in DOMAIN patch.entries => patch.entries[k] = w
    OBVIOUS
  <2>5. ASSUME Met(n + 1) PROVE In(g[n + 1], k) = w
    <3>1. Met(n) \/ (KeyOrder[n + 1] = k /\ k \in DOMAIN patch.entries)
      BY <2>5
    <3>2. In(g[n], k) = w \/ (KeyOrder[n + 1] = k /\ k \in DOMAIN patch.entries)
      BY <1>4, <3>1
    <3> HIDE DEF Met
    <3> QED
      BY <2>2, <2>3, <2>4, <3>2, StepSwitches
  <2> QED
    BY <2>3, <2>5
<1>5. Met(N)
  BY <1>2, PrefixesAreOrdered DEF Range, IsSequence
<1> HIDE DEF Good, Met
<1>6. N \in T
  <2>1. 0 \in T
    BY <1>3
  <2>2. \A n \in Nat : n \in T => n + 1 \in T
    BY <1>2, <1>4
  <2> HIDE DEF T
  <2> QED
    BY <1>2, <2>1, <2>2, CountUp
<1>7. Good(N)
  BY <1>2, <1>6
<1> QED
  BY <1>1, <1>5, <1>7 DEF Good

(************************** a list and its additions *************************)

\* The items that m has under k are the piece, with something before and after
\* them; what the first n keys of the patch put in front of k is in what comes before.
Grown(m, piece, k, patch, n) ==
  \E pre, post :
    /\ IsSequence(pre) /\ IsSequence(post)
    /\ IsList(In(m, k)) /\ In(m, k).items = Join(Join(pre, piece), post)
    /\ \A i \in 1 .. n :
         /\ KeyOrder[i] \in DOMAIN patch.entries \cap DOMAIN Splicing
         /\ Splicing[KeyOrder[i]].list = k /\ Splicing[KeyOrder[i]].front
         => Contains(Items(patch.entries[KeyOrder[i]]), pre)

LEMMA ItemsAre ==
  ASSUME NEW patch, IsMap(patch), HasLists(patch), NEW x \in DOMAIN patch.entries
  PROVE  IsSequence(Items(patch.entries[x]))
<1> DEFINE v == patch.entries[x]
<1>1. IsSequence(<<v>>)
  BY DEF IsSequence
<1> QED
  BY <1>1 DEF Items, HasLists

LEMMA StepGrows ==
  ASSUME NEW m, NEW m2, NEW patch, NEW n \in Nat, NEW k, NEW piece, IsMap(m), IsMap(patch),
         HasLists(patch), IsSequence(piece), k \notin DOMAIN patch.entries,
         n + 1 \in 1 .. Len(KeyOrder), Grown(m, piece, k, patch, n),
         MergeStep(m, m2, patch, KeyOrder[n + 1])
  PROVE  Grown(m2, piece, k, patch, n + 1)
<1> DEFINE x == KeyOrder[n + 1]
           Front(i) == /\ KeyOrder[i] \in DOMAIN patch.entries \cap DOMAIN Splicing
                       /\ Splicing[KeyOrder[i]].list = k /\ Splicing[KeyOrder[i]].front
           Part(i) == Items(patch.entries[KeyOrder[i]])
<1>1. PICK pre, post :
        /\ IsSequence(pre) /\ IsSequence(post)
        /\ IsList(In(m, k)) /\ In(m, k).items = Join(Join(pre, piece), post)
        /\ \A i \in 1 .. n : Front(i) => Contains(Part(i), pre)
  BY DEF Grown
<1>2. \A i \in 1 .. n + 1 : i \in 1 .. n \/ i = n + 1
  OBVIOUS
<1>3. \A i : Front(i) => IsSequence(Part(i))
  BY ItemsAre
<1> HIDE DEF Front, Part
<1>4. ASSUME In(m2, k) = In(m, k), ~Front(n + 1) PROVE Grown(m2, piece, k, patch, n + 1)
  <2>1. \A i \in 1 .. n + 1 : Front(i) => Contains(Part(i), pre)
    BY <1>1, <1>2, <1>4
  <2> QED
    BY <1>1, <1>4, <2>1 DEF Grown, Front, Part
<1>5. CASE x \notin DOMAIN patch.entries /\ m2 = m
  BY <1>4, <1>5 DEF Front
<1>6. CASE /\ x \in DOMAIN patch.entries
           /\ ~ (x \in DOMAIN Splicing /\ IsList(In(m, Splicing[x].list)))
           /\ \E v : m2 = With(m, Entry(x, v))
  <2>1. In(m2, k) = In(m, k)
    BY <1>6, InsertOne
  <2>2. ~Front(n + 1)
    BY <1>1, <1>6 DEF Front
  <2> QED
    BY <1>4, <2>1, <2>2
<1>7. CASE /\ x \in DOMAIN patch.entries /\ x \in DOMAIN Splicing
           /\ m2 = With(m, Entry(Splicing[x].list,
                          Spliced(In(m, Splicing[x].list), patch.entries[x], Splicing[x].front)))
  <2>1. CASE Splicing[x].list # k
    <3>1. In(m2, k) = In(m, k)
      BY <1>7, <2>1, InsertOne
    <3>2. ~Front(n + 1)
      BY <2>1 DEF Front
    <3> QED
      BY <1>4, <3>1, <3>2
  <2>2. CASE Splicing[x].list = k
    <3> DEFINE new == Items(patch.entries[x])
               front == Splicing[x].front
    <3>1. In(m2, k) = Spliced(In(m, k), patch.entries[x], front)
      BY <1>7, <2>2, InsertOne
    <3>2. IsSequence(new) /\ front \in BOOLEAN
      BY <1>7, ItemsAre, PrefixesAreOrdered
    <3>3. new = Part(n + 1)
      BY DEF Part
    <3>4. IsList(In(m2, k))
            /\ In(m2, k).items = IF front THEN Join(new, In(m, k).items)
                                  ELSE Join(In(m, k).items, new)
      BY <3>1 DEF Spliced, List, IsList, Join
    <3>5. IsSequence(Join(pre, piece)) /\ IsSequence(Join(post, new)) /\ IsSequence(Join(new, pre))
      BY <1>1, <3>2, JoinIs
    <3>6. Front(n + 1) => front
      BY DEF Front
    <3> HIDE DEF new, front, x
    <3>7. CASE front
      <4> DEFINE p == Join(new, pre)
      <4>1. In(m2, k).items = Join(Join(p, piece), post)
        <5>1. In(m2, k).items = Join(new, Join(Join(pre, piece), post))
          BY <1>1, <3>4, <3>7
        <5>2. IsSequence(pre) /\ IsSequence(post) /\ IsSequence(new) /\ IsSequence(Join(pre, piece))
          BY <1>1, <3>2, <3>5
        <5>3. Join(new, Join(Join(pre, piece), post)) = Join(Join(new, Join(pre, piece)), post)
          BY <5>2, JoinAssociates
        <5>4. Join(new, Join(pre, piece)) = Join(p, piece)
          BY <5>2, JoinAssociates
        <5> QED
          BY <5>1, <5>3, <5>4
      <4>2. Contains(new, p)
        BY <1>1, <3>2, ContainsFirst
      <4>3. \A i \in 1 .. n : Front(i) => Contains(Part(i), p)
        BY <1>1, <1>3, <3>2, ContainsMore
      <4>4. \A i \in 1 .. n + 1 : Front(i) => Contains(Part(i), p)
        BY <1>2, <3>3, <4>2, <4>3
      <4>5. IsSequence(p) /\ In(m2, k).items = Join(Join(p, piece), post)
        BY <3>5, <4>1
      <4> HIDE DEF p
      <4> QED
        BY <1>1, <3>4, <4>4, <4>5 DEF Grown, Front, Part
    <3>8. CASE ~front
      <4> DEFINE q == Join(post, new)
      <4>1. In(m2, k).items = Join(Join(pre, piece), q)
        <5>1. In(m2, k).items = Join(Join(Join(pre, piece), post), new)
          BY <1>1, <3>4, <3>8
        <5>2. IsSequence(post) /\ IsSequence(new) /\ IsSequence(Join(pre, piece))
          BY <1>1, <3>2, <3>5
        <5> QED
          BY <5>1, <5>2, JoinAssociates
      <4>2. \A i \in 1 .. n + 1 : Front(i) => Contains(Part(i), pre)
        BY <1>1, <1>2, <3>6, <3>8
      <4>3. IsSequence(q)
        BY <3>5
      <4> HIDE DEF q
      <4> QED
        BY <1>1, <3>4, <4>1, <4>2, <4>3 DEF Grown, Front, Part
    <3> QED
      BY <3>2, <3>7, <3>8
  <2> QED
    BY <2>1, <2>2
<1> QED
  BY <1>5, <1>6, <1>7 DEF MergeStep

LEMMA MergeGrows ==
  ASSUME NEW g, NEW base, NEW patch, NEW k, IsMap(base), IsMap(patch), HasLists(patch),
         IsList(In(base, k)), IsSequence(In(base, k).items), k \notin DOMAIN patch.entries,
         Merging(g, base, patch)
  PROVE  Grown(g[Len(KeyOrder)], In(base, k).items, k, patch, Len(KeyOrder))
<1> DEFINE N == Len(KeyOrder)
           piece == In(base, k).items
           Good(n) == IsMap(g[n]) /\ Grown(g[n], piece, k, patch, n)
           T == {n \in Nat : n <= N => Good(n)}
<1>1. N \in Nat
  BY PrefixesAreOrdered DEF IsSequence
<1>2. Good(0)
  <2>1. IsMap(g[0]) /\ In(g[0], k) = In(base, k)
    BY FirstLeaves
  <2>2. IsSequence(<<>>) /\ Join(<<>>, piece) = piece /\ Join(piece, <<>>) = piece
    BY EmptyIsSequence
  <2>3. Join(Join(<<>>, piece), <<>>) = piece
    BY <2>2
  <2>4. 1 .. 0 = {}
    OBVIOUS
  <2>5. \E pre, post :
          /\ IsSequence(pre) /\ IsSequence(post)
          /\ IsList(In(g[0], k)) /\ In(g[0], k).items = Join(Join(pre, piece), post)
    BY <2>1, <2>2, <2>3
  <2> HIDE DEF piece
  <2> QED
    BY <2>1, <2>4, <2>5 DEF Grown
<1>3. ASSUME NEW n \in Nat, n + 1 <= N, Good(n) PROVE Good(n + 1)
  <2>1. n + 1 \in 1 .. N /\ (n + 1) - 1 = n
    BY <1>1, <1>3
  <2>2. MergeStep(g[n], g[n + 1], patch, KeyOrder[n + 1])
    BY <2>1 DEF Merging
  <2>3. IsMap(g[n + 1])
    BY <1>3, <2>2, StepLeaves
  <2>4. IsMap(g[n]) /\ Grown(g[n], piece, k, patch, n) /\ IsSequence(piece)
    BY <1>3
  <2> HIDE DEF piece
  <2>5. Grown(g[n + 1], piece, k, patch, n + 1)
    BY <2>1, <2>2, <2>4, StepGrows
  <2> QED
    BY <2>3, <2>5
<1> HIDE DEF Good
<1>4. N \in T
  <2>1. 0 \in T
    BY <1>2
  <2>2. \A n \in Nat : n \in T => n + 1 \in T
    BY <1>1, <1>3
  <2> HIDE DEF T
  <2> QED
    BY <1>1, <2>1, <2>2, CountUp
<1>5. Good(N)
  BY <1>1, <1>4
<1> QED
  BY <1>5 DEF Good

(******************************** the invariant ******************************)

AfterControl == {"sniffer", "tun", "dns", "override", "force", "servers", "hosts", "done"}
AfterSniffer == AfterControl \ {"sniffer"}
AfterTun     == AfterSniffer \ {"tun"}
AfterForce   == {"servers", "hosts", "done"}
AfterServers == {"hosts", "done"}

ControlHolds == \A k \in ControlKeys : In(doc, k) = settings.control[k]
SnifferHolds == settings.sniffer => In(In(doc, "sniffer"), "enable") = On
TunHolds ==
  IF settings.tun THEN In(In(doc, "tun"), "enable") = On ELSE In(In(doc, "tun"), "enable") # On
DnsHolds ==
  LET d == In(doc, "dns") IN
  /\ settings.tun =>
       /\ In(d, "enable") = On
       /\ In(d, "enhanced-mode") \notin {Null, Scalar("")}
       /\ In(d, "enhanced-mode") = Scalar("fake-ip") => "fake-ip-range" \in DOMAIN d.entries
  /\ ~settings.tun /\ ~settings.enableDns => In(d, "enable") # On
  /\ ~settings.tun /\ settings.enableDns /\ LastWord \in {On, Off} => In(d, "enable") = LastWord
\* With the switch, the settings turn the resolver on and the override has its say.
SwitchHolds == settings.enableDns => In(In(doc, "dns"), "enable") = On
WordHolds ==
  settings.enableDns /\ LastWord \in {On, Off} => In(In(doc, "dns"), "enable") = LastWord
ServersHold ==
  In(In(doc, "dns"), "enable") = On => \A k \in ServerLists : Filled(In(doc, "dns"), k)

\* What each stage established survives the later ones.
BuildInv ==
  /\ settings \in SettingsValues
  /\ stage \in AfterControl \cup {"control"} => IsMap(doc)
  /\ stage \in AfterControl => ControlHolds
  /\ stage \in AfterSniffer => SnifferHolds
  /\ stage \in AfterTun => TunHolds
  /\ stage = "override" => SwitchHolds
  /\ stage = "force" => WordHolds
  /\ stage \in AfterForce => DnsHolds
  /\ stage \in AfterServers => ServersHold

LEMMA BuildBegins == BuildInit => BuildInv
  BY DEF BuildInit, BuildStarts, BuildInv, AfterControl, AfterSniffer, AfterTun, AfterForce, AfterServers

(******************************* stage by stage ******************************)

\* What a stage leaves alone stays as it was.
OnlyAt(k) == IsMap(doc') /\ \A j : j # k => In(doc', j) = In(doc, j)

LEMMA OnlyOne ==
  ASSUME NEW k, NEW x, IsMap(doc), doc' = With(doc, Entry(k, x))
  PROVE  OnlyAt(k) /\ In(doc', k) = x
  BY InsertOne DEF OnlyAt

LEMMA IsSet ==
  ASSUME NEW m, NEW k, NEW x
  PROVE  IsMap(With(m, Entry(k, x))) /\ In(With(m, Entry(k, x)), k) = x
<1>1. k \in DOMAIN Entry(k, x) /\ Entry(k, x)[k] = x
  BY EntryIs
<1>2. QED
  BY <1>1, WithIn

LEMMA EarlierHold ==
  ASSUME UNCHANGED settings,
         \/ doc' = doc
         \/ \E k \in {"sniffer", "tun", "dns", "hosts"} : OnlyAt(k)
  PROVE  ControlHolds => ControlHolds'
  BY DEF OnlyAt, ControlHolds, ControlKeys

LEMMA SnifferStays ==
  ASSUME UNCHANGED settings,
         \/ doc' = doc
         \/ \E k \in {"tun", "dns", "hosts"} : OnlyAt(k)
  PROVE  SnifferHolds => SnifferHolds'
  BY DEF OnlyAt, SnifferHolds

LEMMA TunStays ==
  ASSUME UNCHANGED settings,
         \/ doc' = doc
         \/ \E k \in {"dns", "hosts"} : OnlyAt(k)
  PROVE  TunHolds => TunHolds'
  BY DEF OnlyAt, TunHolds

USE DEF AfterControl, AfterSniffer, AfterTun, AfterForce, AfterServers

LEMMA EnhanceStep == BuildInv /\ Enhance => BuildInv'
  BY DEF BuildInv, Enhance, RunScript, BuildFails

LEMMA CheckStep == BuildInv /\ Check => BuildInv'
  BY DEF BuildInv, Check, BuildFails

LEMMA ControlStep == BuildInv /\ Control => BuildInv'
<1> SUFFICES ASSUME BuildInv, Control PROVE BuildInv'
  OBVIOUS
<1>1. PICK chosen, absent :
        doc' = Lacking(With(doc, Over(settings.control, chosen)), absent)
  BY DEF Control
<1>2. stage' = "sniffer" /\ settings' = settings /\ settings \in SettingsValues
  BY DEF Control, Step, BuildInv
<1>3. IsMap(doc')
  BY <1>1, WithIn, LackingIn
<1>4. ASSUME NEW k \in ControlKeys PROVE In(doc', k) = settings.control[k]
  <2>1. k \in DOMAIN settings.control
    BY <1>2, SettingsAreShaped
  <2>2. k \in DOMAIN Over(settings.control, chosen)
        /\ Over(settings.control, chosen)[k] = settings.control[k]
    BY <2>1 DEF Over
  <2>3. QED
    BY <1>1, <2>2, WithIn, LackingIn
<1>5. QED
  BY <1>2, <1>3, <1>4 DEF BuildInv, ControlHolds

LEMMA SnifferStep == BuildInv /\ Sniffer => BuildInv'
<1> SUFFICES ASSUME BuildInv, Sniffer PROVE BuildInv'
  OBVIOUS
<1>1. stage' = "tun" /\ settings' = settings /\ IsMap(doc) /\ ControlHolds
  BY DEF Sniffer, Step, BuildInv
<1>2. \/ ~settings.sniffer /\ doc' = doc
      \/ settings.sniffer /\ OnlyAt("sniffer") /\ In(In(doc', "sniffer"), "enable") = On
  <2>1. CASE ~settings.sniffer
    BY <2>1 DEF Sniffer
  <2>2. CASE settings.sniffer
    <3>1. PICK merged : doc' = With(doc, Entry("sniffer", With(merged, Entry("enable", On))))
      BY <2>2 DEF Sniffer
    <3>2. QED
      BY <1>1, <2>2, <3>1, OnlyOne, IsSet
  <2>3. QED
    BY <2>1, <2>2
<1>3. ControlHolds' /\ SnifferHolds' /\ IsMap(doc')
  BY <1>1, <1>2, EarlierHold DEF SnifferHolds, OnlyAt
<1>4. QED
  BY <1>1, <1>3 DEF BuildInv

LEMMA PresentIfNotNull ==
  ASSUME NEW m, NEW k, In(m, k) # Null
  PROVE  IsMap(m) /\ k \in DOMAIN m.entries
  BY DEF In

LEMMA TunStep == BuildInv /\ Tun => BuildInv'
<1> SUFFICES ASSUME BuildInv, Tun PROVE BuildInv'
  OBVIOUS
<1>1. /\ stage' = "dns" /\ settings' = settings /\ settings \in SettingsValues
      /\ IsMap(doc) /\ ControlHolds /\ SnifferHolds
  BY DEF Tun, Step, BuildInv
<1>2. /\ IsMap(doc')
      /\ \A j \in ControlKeys \cup {"sniffer"} : In(doc', j) = In(doc, j)
      /\ TunHolds'
  <2>1. CASE settings.tun
    <3>1. PICK own, new :
            /\ new = Lacking(With(own, Over(Entry("enable", On), settings.tunOptions)),
                             Entry("stack", Scalar("gvisor")))
            /\ doc' = With(doc, Over(Entry("tun", new), settings.interface))
      BY <2>1 DEF Tun
    <3> DEFINE set == With(own, Over(Entry("enable", On), settings.tunOptions))
    <3>2. /\ "enable" \in DOMAIN Over(Entry("enable", On), settings.tunOptions)
          /\ Over(Entry("enable", On), settings.tunOptions)["enable"] = On
      BY DEF Over, Entry
    <3>3. IsMap(set) /\ In(set, "enable") = On /\ "enable" \in DOMAIN set.entries
      BY <3>2, WithIn
    <3>4. In(new, "enable") = On
      BY <3>1, <3>3, LackingIn
    <3>5. /\ "tun" \in DOMAIN Over(Entry("tun", new), settings.interface)
          /\ Over(Entry("tun", new), settings.interface)["tun"] = new
      BY DEF Over, Entry
    <3>6. In(doc', "tun") = new /\ IsMap(doc')
      BY <3>1, <3>5, WithIn
    <3>7. ASSUME NEW j \in ControlKeys \cup {"sniffer"} PROVE In(doc', j) = In(doc, j)
      <4>1. DOMAIN Over(Entry("tun", new), settings.interface)
              = {"tun"} \cup DOMAIN settings.interface
        BY DEF Over, Entry
      <4>2. DOMAIN settings.interface \subseteq {"interface-name"}
        BY <1>1, SettingsAreShaped
      <4>3. j \notin {"tun", "interface-name"}
        BY DEF ControlKeys
      <4>4. QED
        BY <1>1, <3>1, <4>1, <4>2, <4>3, WithIn
    <3>8. QED
      BY <1>1, <2>1, <3>4, <3>6, <3>7 DEF TunHolds
  <2>2. CASE ~settings.tun /\ IsMap(In(doc, "tun"))
    <3>1. doc' = With(doc, Entry("tun", With(In(doc, "tun"), Entry("enable", Off))))
      BY <2>2 DEF Tun
    <3>2. OnlyAt("tun") /\ In(doc', "tun") = With(In(doc, "tun"), Entry("enable", Off))
      BY <1>1, <3>1, OnlyOne
    <3>3. In(In(doc', "tun"), "enable") = Off
      BY <3>2, IsSet
    <3>4. QED
      BY <1>1, <2>2, <3>2, <3>3, SwitchesDiffer DEF OnlyAt, TunHolds, ControlKeys
  <2>3. CASE ~settings.tun /\ ~IsMap(In(doc, "tun"))
    <3>1. doc' = doc
      BY <2>3 DEF Tun
    <3>2. In(In(doc', "tun"), "enable") = Null
      BY <2>3, <3>1 DEF In
    <3>3. QED
      BY <1>1, <2>3, <3>1, <3>2, SwitchesDiffer DEF TunHolds
  <2>4. QED
    BY <2>1, <2>2, <2>3
<1>3. ControlHolds' /\ SnifferHolds'
  BY <1>1, <1>2 DEF ControlHolds, SnifferHolds
<1>4. QED
  BY <1>1, <1>2, <1>3 DEF BuildInv

LEMMA SwitchIsPlain ==
  ASSUME settings \in SettingsValues PROVE "enable" \notin DOMAIN Splicing
  BY SettingsAreShaped

LEMMA SettingsTurnOn ==
  /\ IsMap(DnsOfSettings) /\ "enable" \in DOMAIN DnsOfSettings.entries
  /\ DnsOfSettings.entries["enable"] = On
<1>1. PICK f : DnsOfSettings = Map(Over(Entry("enable", On), f))
  BY DEF DnsOfSettings
<1> QED
  BY <1>1 DEF Map, IsMap, Over, Entry

\* An override without a word on the switch turns the resolver on; one with a word
\* has it.
LEMMA OverrideSwitches ==
  ASSUME NEW d, In(d, "enable") = On, NEW patch, IsMap(patch),
         "enable" \notin DOMAIN Splicing, NEW w \in {On, Off},
         w = IF "enable" \in DOMAIN patch.entries THEN patch.entries["enable"] ELSE On
  PROVE  In(Lacking(Merge3(d, patch), Entry("enable", On)), "enable") = w
<1>1. IsMap(d)
  BY SwitchesDiffer, PresentIfNotNull
<1>2. IsMap(Merge3(d, patch)) /\ In(Merge3(d, patch), "enable") = w
  BY <1>1, MergeSwitches
<1>3. "enable" \in DOMAIN Merge3(d, patch).entries
  BY <1>2, SwitchesAreLeaves, PresentIfNotNull
<1> QED
  BY <1>2, <1>3, LackingIn

\* The stages between TUN and the last word on dns touch nothing but dns.
LEMMA DnsStep == BuildInv /\ Dns => BuildInv'
<1> SUFFICES ASSUME BuildInv, Dns PROVE BuildInv'
  OBVIOUS
<1>1. /\ stage' = "override" /\ settings' = settings
      /\ IsMap(doc) /\ ControlHolds /\ SnifferHolds /\ TunHolds
  BY DEF Dns, Step, BuildInv
<1> DEFINE own == In(doc, "dns")
           asked == IF settings.enableDns THEN DnsOfSettings ELSE Map(Entry("enable", Off))
<1>2. doc' = With(doc, Entry("dns", Merge3(own, asked)))
  BY DEF Dns, IntoDns
<1>3. OnlyAt("dns") /\ In(doc', "dns") = Merge3(own, asked)
  BY <1>1, <1>2, OnlyOne
<1>4. IsMap(doc') /\ ControlHolds' /\ SnifferHolds' /\ TunHolds'
  BY <1>1, <1>3, EarlierHold, SnifferStays, TunStays DEF OnlyAt
<1>5. ASSUME settings.enableDns PROVE In(In(doc', "dns"), "enable") = On
  <2>1. asked = DnsOfSettings /\ settings \in SettingsValues
    BY <1>5 DEF BuildInv
  <2>2. IsMap(asked) /\ "enable" \in DOMAIN asked.entries /\ asked.entries["enable"] = On
    BY <2>1, SettingsTurnOn
  <2>3. "enable" \notin DOMAIN Splicing
    BY <2>1, SwitchIsPlain
  <2> HIDE DEF asked
  <2>4. CASE IsMap(own)
    BY <1>3, <2>2, <2>3, <2>4, MergeSwitches
  <2>5. CASE ~IsMap(own)
    <3>1. Merge3(own, asked) = asked
      BY <2>5 DEF Merge3, MergeMaps
    <3> QED
      BY <1>3, <2>2, <3>1 DEF In
  <2> QED
    BY <2>4, <2>5
<1>6. QED
  BY <1>1, <1>4, <1>5 DEF BuildInv, SwitchHolds

LEMMA DnsOverrideStep == BuildInv /\ DnsOverride => BuildInv'
<1> SUFFICES ASSUME BuildInv, DnsOverride PROVE BuildInv'
  OBVIOUS
<1>1. /\ settings' = settings /\ stage' \in {"force", "failed"}
      /\ IsMap(doc) /\ ControlHolds /\ SnifferHolds /\ TunHolds
  BY DEF DnsOverride, BuildFails, BuildInv
<1>2. doc' = doc \/ OnlyAt("dns")
  <2>1. \/ doc' = doc
        \/ \E x : doc' = With(doc, Entry("dns", x))
    BY DEF DnsOverride, BuildFails
  <2>2. QED
    BY <1>1, <2>1, OnlyOne
<1>3. IsMap(doc') /\ ControlHolds' /\ SnifferHolds' /\ TunHolds'
  BY <1>1, <1>2, EarlierHold, SnifferStays, TunStays DEF OnlyAt
<1>4. ASSUME stage' = "force", settings.enableDns, LastWord \in {On, Off}
      PROVE  In(In(doc', "dns"), "enable") = LastWord
  <2> DEFINE o == settings.dnsOverride
             d == In(doc, "dns")
  <2>1. In(d, "enable") = On
    BY <1>4 DEF DnsOverride, BuildInv, SwitchHolds
  <2>2. CASE o = Null
    <3>1. LastWord = On
      BY <2>2, NullIsEmpty DEF LastWord, Overridden
    <3>2. doc' = doc
      BY <2>2 DEF DnsOverride
    <3> QED
      BY <2>1, <3>1, <3>2
  <2>3. CASE o # Null
    <3> DEFINE patch == Normal(o)
    <3>1. /\ IsMap(o) /\ IsMap(patch)
          /\ doc' = With(doc, Entry("dns", Lacking(Merge3(d, patch), Entry("enable", On))))
      BY <1>4, <2>3 DEF DnsOverride, BuildFails
    <3>2. LastWord = IF "enable" \in DOMAIN patch.entries THEN patch.entries["enable"] ELSE On
      BY <3>1 DEF LastWord, Overridden
    <3>3. "enable" \notin DOMAIN Splicing
      BY SwitchIsPlain DEF BuildInv
    <3>4. In(doc', "dns") = Lacking(Merge3(d, patch), Entry("enable", On))
      BY <1>1, <3>1, OnlyOne
    <3> HIDE DEF patch, d
    <3> QED
      BY <1>4, <2>1, <3>1, <3>2, <3>3, <3>4, OverrideSwitches
  <2> QED
    BY <2>2, <2>3
<1>5. WordHolds' \/ stage' # "force"
  BY <1>1, <1>4 DEF WordHolds, LastWord, Overridden
<1>6. QED
  BY <1>1, <1>3, <1>5 DEF BuildInv

LEMMA TunDnsIs ==
  ASSUME NEW d, settings \in SettingsValues
  PROVE  LET r == TunDns(d) IN
         /\ In(r, "enable") = On
         /\ In(r, "enhanced-mode") \notin {Null, Scalar("")}
         /\ In(r, "enhanced-mode") = Scalar("fake-ip") => "fake-ip-range" \in DOMAIN r.entries
<1> DEFINE own   == IF IsMap(d) THEN d ELSE Map(<<>>)
           asked == Over(Entry("listen", settings.dns["listen"]),
                         Entry("ipv6", settings.control["ipv6"]))
           base  == Lacking(With(own, Entry("enable", On)), asked)
           said  == In(base, "enhanced-mode")
           mode  == IF "scalar" \in DOMAIN said /\ said # Scalar("") THEN said
                    ELSE IF settings.dns["enhanced-mode"] = Scalar("") THEN Scalar("fake-ip")
                    ELSE settings.dns["enhanced-mode"]
           moded == With(base, Entry("enhanced-mode", mode))
<1>1. TunDns(d) = IF mode = Scalar("fake-ip") THEN Lacking(moded, FakeIp) ELSE moded
  BY DEF TunDns
<1>2. mode \notin {Null, Scalar("")}
  <2>1. "scalar" \in DOMAIN settings.dns["enhanced-mode"]
    BY SettingsAreShaped
  <2>2. "scalar" \notin DOMAIN Null /\ Scalar("fake-ip") # Null /\ Scalar("fake-ip") # Scalar("")
    BY DEF Null, Scalar
  <2>3. QED
    BY <2>1, <2>2
<1> HIDE DEF mode
<1>3. IsMap(base) /\ In(base, "enable") = On
  <2>1. /\ IsMap(With(own, Entry("enable", On)))
        /\ In(With(own, Entry("enable", On)), "enable") = On
    BY IsSet
  <2>2. "enable" \in DOMAIN With(own, Entry("enable", On)).entries
    BY <2>1, SwitchesDiffer, PresentIfNotNull
  <2>3. QED
    BY <2>1, <2>2, LackingIn
<1> HIDE DEF base
<1>4. IsMap(moded) /\ In(moded, "enhanced-mode") = mode /\ In(moded, "enable") = On
  BY <1>3, InsertOne
<1> HIDE DEF moded
<1>5. CASE mode = Scalar("fake-ip")
  <2>1. "enable" \in DOMAIN moded.entries /\ "enhanced-mode" \in DOMAIN moded.entries
    BY <1>2, <1>4, SwitchesDiffer, PresentIfNotNull
  <2>2. /\ In(Lacking(moded, FakeIp), "enable") = On
        /\ In(Lacking(moded, FakeIp), "enhanced-mode") = mode
    BY <1>4, <2>1, LackingIn
  <2>3. "fake-ip-range" \in DOMAIN FakeIp
    BY DEF FakeIp
  <2>4. "fake-ip-range" \in DOMAIN Lacking(moded, FakeIp).entries
    BY <2>3 DEF Lacking, Map, Over
  <2>5. QED
    BY <1>1, <1>2, <1>5, <2>2, <2>4
<1>6. CASE mode # Scalar("fake-ip")
  BY <1>1, <1>2, <1>4, <1>6
<1>7. QED
  BY <1>5, <1>6

LEMMA ForceDnsStep == BuildInv /\ ForceDns => BuildInv'
<1> SUFFICES ASSUME BuildInv, ForceDns PROVE BuildInv'
  OBVIOUS
<1>1. /\ stage' = "servers" /\ settings' = settings /\ settings \in SettingsValues
      /\ IsMap(doc) /\ ControlHolds /\ SnifferHolds /\ TunHolds /\ WordHolds
  BY DEF ForceDns, Step, BuildInv
<1>2. (doc' = doc \/ OnlyAt("dns")) /\ DnsHolds'
  <2>1. CASE settings.tun
    <3>1. doc' = With(doc, Entry("dns", TunDns(In(doc, "dns"))))
      BY <2>1 DEF ForceDns
    <3>2. OnlyAt("dns") /\ In(doc', "dns") = TunDns(In(doc, "dns"))
      BY <1>1, <3>1, OnlyOne
    <3>3. QED
      BY <1>1, <2>1, <3>2, TunDnsIs DEF DnsHolds
  <2>2. CASE ~settings.tun /\ ~settings.enableDns /\ IsMap(In(doc, "dns"))
    <3>1. doc' = With(doc, Entry("dns", With(In(doc, "dns"), Entry("enable", Off))))
      BY <2>2 DEF ForceDns
    <3>2. OnlyAt("dns") /\ In(doc', "dns") = With(In(doc, "dns"), Entry("enable", Off))
      BY <1>1, <3>1, OnlyOne
    <3>3. In(In(doc', "dns"), "enable") = Off
      BY <3>2, IsSet
    <3>4. QED
      BY <1>1, <2>2, <3>2, <3>3, SwitchesDiffer DEF DnsHolds
  <2>3. CASE ~settings.tun /\ (settings.enableDns \/ ~IsMap(In(doc, "dns")))
    <3>1. doc' = doc
      BY <2>3 DEF ForceDns
    <3>2. ~IsMap(In(doc, "dns")) => In(In(doc, "dns"), "enable") = Null
      BY DEF In
    <3>3. QED
      BY <1>1, <2>3, <3>1, <3>2, SwitchesDiffer DEF DnsHolds, WordHolds, LastWord, Overridden
  <2>4. QED
    BY <2>1, <2>2, <2>3
<1>3. IsMap(doc') /\ ControlHolds' /\ SnifferHolds' /\ TunHolds'
  BY <1>1, <1>2, EarlierHold, SnifferStays, TunStays DEF OnlyAt
<1>4. QED
  BY <1>1, <1>2, <1>3 DEF BuildInv

LEMMA ServersStep == BuildInv /\ Servers => BuildInv'
<1> SUFFICES ASSUME BuildInv, Servers PROVE BuildInv'
  OBVIOUS
<1> DEFINE d == In(doc, "dns")
           missing == {k \in ServerLists : ~Filled(d, k)}
           defaults == [k \in missing |-> DefaultServers]
<1>1. /\ stage' = "hosts" /\ settings' = settings
      /\ IsMap(doc) /\ ControlHolds /\ SnifferHolds /\ TunHolds /\ DnsHolds
  BY DEF Servers, Step, BuildInv
<1>2. (doc' = doc \/ OnlyAt("dns")) /\ DnsHolds' /\ ServersHold'
  <2>1. CASE In(d, "enable") = On
    <3>1. doc' = With(doc, Entry("dns", With(d, defaults)))
      BY <2>1 DEF Servers
    <3>2. OnlyAt("dns") /\ In(doc', "dns") = With(d, defaults)
      BY <1>1, <3>1, OnlyOne
    <3>3. IsMap(d)
      BY <2>1, SwitchesDiffer, PresentIfNotNull
    <3>4. /\ "enable" \notin DOMAIN defaults /\ "enhanced-mode" \notin DOMAIN defaults
          /\ DOMAIN defaults = missing
      BY DEF ServerLists
    <3>5. /\ In(With(d, defaults), "enable") = In(d, "enable")
          /\ In(With(d, defaults), "enhanced-mode") = In(d, "enhanced-mode")
      BY <3>3, <3>4, WithIn
    <3>6. DOMAIN d.entries \subseteq DOMAIN With(d, defaults).entries
      BY DEF With, Map, Over
    <3>7. DnsHolds'
      BY <1>1, <3>2, <3>5, <3>6 DEF DnsHolds, LastWord, Overridden
    <3>8. ASSUME NEW k \in ServerLists PROVE Filled(With(d, defaults), k)
      <4>1. CASE k \in missing
        <5>1. In(With(d, defaults), k) = DefaultServers
          BY <4>1, WithIn
        <5>2. IsList(DefaultServers) /\ DefaultServers.items # <<>>
          BY DEF DefaultServers, IsList, List
        <5>3. QED
          BY <5>1, <5>2 DEF Filled
      <4>2. CASE k \notin missing
        BY <3>3, <3>4, <4>2, WithIn DEF Filled
      <4>3. QED
        BY <4>1, <4>2
    <3>9. QED
      BY <3>2, <3>7, <3>8 DEF ServersHold
  <2>2. CASE In(d, "enable") # On
    <3>1. doc' = doc
      BY <2>2 DEF Servers
    <3>2. QED
      BY <1>1, <2>2, <3>1 DEF DnsHolds, ServersHold, LastWord, Overridden
  <2>3. QED
    BY <2>1, <2>2
<1>3. IsMap(doc') /\ ControlHolds' /\ SnifferHolds' /\ TunHolds'
  BY <1>1, <1>2, EarlierHold, SnifferStays, TunStays DEF OnlyAt
<1>4. QED
  BY <1>1, <1>2, <1>3 DEF BuildInv

LEMMA HostsStep == BuildInv /\ Hosts => BuildInv'
<1> SUFFICES ASSUME BuildInv, Hosts PROVE BuildInv'
  OBVIOUS
<1>1. /\ stage' = "done" /\ settings' = settings /\ IsMap(doc)
      /\ ControlHolds /\ SnifferHolds /\ TunHolds /\ DnsHolds /\ ServersHold
  BY DEF Hosts, Step, BuildInv
<1>2. doc' = doc \/ \E x : doc' = With(doc, Entry("hosts", x))
  BY DEF Hosts
<1>3. doc' = doc \/ OnlyAt("hosts")
  BY <1>1, <1>2, OnlyOne
<1>4. IsMap(doc') /\ ControlHolds' /\ SnifferHolds' /\ TunHolds'
  BY <1>1, <1>3, EarlierHold, SnifferStays, TunStays DEF OnlyAt
<1>5. In(doc', "dns") = In(doc, "dns")
  BY <1>3 DEF OnlyAt
<1>6. DnsHolds' /\ ServersHold'
  BY <1>1, <1>5 DEF DnsHolds, ServersHold, LastWord, Overridden
<1>7. QED
  BY <1>1, <1>4, <1>6 DEF BuildInv

(********************************* theorems **********************************)

LEMMA BuildKeepsInvariant == BuildSpec => []BuildInv
<1>1. ASSUME BuildInv, [BuildNext]_buildVars PROVE BuildInv'
  <2>1. CASE UNCHANGED buildVars
    BY <1>1, <2>1 DEF buildVars, BuildInv, ControlHolds, SnifferHolds, TunHolds, SwitchHolds,
       WordHolds, DnsHolds, ServersHold, LastWord, Overridden
  <2>2. CASE BuildNext
    BY <1>1, <2>2, EnhanceStep, CheckStep, ControlStep, SnifferStep, TunStep, DnsStep,
       DnsOverrideStep, ForceDnsStep, ServersStep, HostsStep DEF BuildNext
  <2>3. QED
    BY <1>1, <2>1, <2>2
<1>2. QED
  BY <1>1, BuildBegins, PTL DEF BuildSpec

\* However a profile, its enhancers and the override put it, a finished runtime.yaml
\* obeys the settings, and its resolver has what it needs (config_gen.rs:208-395).
THEOREM SettingsAreObeyed == BuildSpec => []RuntimeObeys
<1>1. BuildInv => RuntimeObeys
  <2> SUFFICES ASSUME BuildInv, Done PROVE RuntimeObeys
    BY DEF RuntimeObeys, SettingsWin, DnsResolvable
  <2>1. ControlHolds /\ SnifferHolds /\ TunHolds /\ DnsHolds /\ ServersHold
    BY DEF BuildInv, Done
  <2>2. SettingsWin
    BY <2>1 DEF SettingsWin, ControlHolds, SnifferHolds, TunHolds, DnsHolds
  <2>3. DnsResolvable
    BY <2>1 DEF DnsResolvable, DnsHolds, ServersHold
  <2>4. QED
    BY <2>2, <2>3 DEF RuntimeObeys
<1>2. QED
  BY <1>1, BuildKeepsInvariant, PTL

(*************************** the profile's own lists *************************)

OwnLists == {"rules", "proxies"}

\* A list that no enhancer replaces.
Unnamed(k) ==
  /\ IsList(In(profile[1], k))
  /\ \A i \in 1 .. Len(profile[2]) : ~Names(profile[2][i], k)

Front(x, k) == Splicing[x].list = k /\ Splicing[x].front
Prepended(i, x) == Items(profile[2][i].patch.entries[x])

\* It is whole after the first n enhancers, behind what they prepended.
Held(k, n) ==
  \E pre, post :
    /\ IsSequence(pre) /\ IsSequence(post) /\ IsList(In(doc, k))
    /\ In(doc, k).items = Join(Join(pre, In(profile[1], k).items), post)
    /\ \A i \in 1 .. n, x \in DOMAIN Splicing :
         Front(x, k) /\ Names(profile[2][i], x) => Contains(Prepended(i, x), pre)

\* The first n enhancers were applied, the others are to come.
Applied(n) ==
  /\ IsSequence(chain) /\ Len(chain) = Len(profile[2]) - n
  /\ \A i \in 1 .. Len(chain) : chain[i] = profile[2][n + i]

ListsInv ==
  /\ profile[1] \in Documents /\ profile[2] \in Chains
  /\ stage # "failed" =>
       \E n \in 0 .. Len(profile[2]) :
         /\ Applied(n)
         /\ stage # "enhance" => n = Len(profile[2])
         /\ \A k \in OwnLists : Unnamed(k) => Held(k, n)

LEMMA OwnItems ==
  ASSUME profile[1] \in Documents, NEW k, Unnamed(k)
  PROVE  IsSequence(In(profile[1], k).items)
<1>1. IsList(In(profile[1], k)) /\ HasLists(profile[1])
  BY DocumentsAreParsed DEF Unnamed
<1>2. IsMap(profile[1]) /\ k \in DOMAIN profile[1].entries
  BY <1>1 DEF In, IsList, Null
<1> QED
  BY <1>1, <1>2 DEF HasLists, In

LEMMA UnnamedPatches ==
  ASSUME profile[2] \in Chains, NEW k, Unnamed(k), NEW i \in 1 .. Len(profile[2])
  PROVE  /\ profile[2][i].kind = "merge" /\ IsMap(profile[2][i].patch)
         /\ k \notin DOMAIN profile[2][i].patch.entries /\ HasLists(profile[2][i].patch)
         /\ \A x : Names(profile[2][i], x) => x \in DOMAIN profile[2][i].patch.entries
  BY DocumentsAreParsed DEF Unnamed, Names

LEMMA HeldAtFirst ==
  ASSUME profile[1] \in Documents, doc = profile[1], NEW k, Unnamed(k)
  PROVE  Held(k, 0)
<1> DEFINE piece == In(profile[1], k).items
<1>1. IsSequence(piece) /\ IsList(In(doc, k)) /\ In(doc, k).items = piece
  BY OwnItems DEF Unnamed
<1> HIDE DEF piece
<1>2. IsSequence(<<>>) /\ Join(Join(<<>>, piece), <<>>) = piece
  BY <1>1, EmptyIsSequence
<1>3. 1 .. 0 = {}
  OBVIOUS
<1> QED
  BY <1>1, <1>2, <1>3 DEF Held, piece

LEMMA ListsBegin == BuildInit => ListsInv
<1> SUFFICES ASSUME NEW d \in Documents, NEW c \in Chains, NEW s \in SettingsValues,
                    BuildStarts(d, c, s)
             PROVE  ListsInv
  BY DEF BuildInit
<1>1. stage = "enhance" /\ doc = d /\ chain = c /\ profile[1] = d /\ profile[2] = c
  BY DEF BuildStarts
<1>2. IsSequence(c) /\ Len(c) \in Nat
  BY DocumentsAreParsed DEF IsSequence
<1>3. Applied(0) /\ 0 \in 0 .. Len(profile[2])
  BY <1>1, <1>2 DEF Applied
<1>4. \A k \in OwnLists : Unnamed(k) => Held(k, 0)
  BY <1>1, HeldAtFirst
<1> QED
  BY <1>1, <1>3, <1>4 DEF ListsInv

\* A merge keeps an unnamed list whole.
LEMMA PatchHolds ==
  ASSUME profile[1] \in Documents, profile[2] \in Chains, NEW k, Unnamed(k),
         NEW n \in Nat, n + 1 \in 1 .. Len(profile[2]), Held(k, n), profile' = profile,
         doc' = DeepMerge(doc, profile[2][n + 1].patch)
  PROVE  Held(k, n + 1)'
<1> DEFINE patch == profile[2][n + 1].patch
           piece == In(profile[1], k).items
           now   == In(doc, k).items
           N     == Len(KeyOrder)
<1>1. PICK pre, post :
        /\ IsSequence(pre) /\ IsSequence(post) /\ IsList(In(doc, k))
        /\ now = Join(Join(pre, piece), post)
        /\ \A i \in 1 .. n, x \in DOMAIN Splicing :
             Front(x, k) /\ Names(profile[2][i], x) => Contains(Prepended(i, x), pre)
  BY DEF Held
<1>2. /\ IsMap(patch) /\ k \notin DOMAIN patch.entries /\ HasLists(patch)
      /\ \A x : Names(profile[2][n + 1], x) => x \in DOMAIN patch.entries
  BY UnnamedPatches
<1>3. IsSequence(piece)
  BY OwnItems
<1>4. IsSequence(now)
  <2> HIDE DEF piece, now
  <2>1. IsSequence(Join(pre, piece))
    BY <1>1, <1>3, JoinIs
  <2> QED
    BY <1>1, <2>1, JoinIs
<1>5. IsMap(doc)
  BY <1>1 DEF In, IsList, Null
<1> HIDE DEF patch, piece
<1>6. PICK g : Merging(g, doc, patch) /\ doc' = g[N]
  BY <1>2, <1>5, DeepMergeRuns DEF patch
<1>7. Grown(doc', now, k, patch, N)
  BY <1>1, <1>2, <1>4, <1>5, <1>6, MergeGrows
<1> HIDE DEF now
<1>8. PICK before, after :
        /\ IsSequence(before) /\ IsSequence(after)
        /\ IsList(In(doc', k)) /\ In(doc', k).items = Join(Join(before, now), after)
        /\ \A i \in 1 .. N :
             /\ KeyOrder[i] \in DOMAIN patch.entries \cap DOMAIN Splicing
             /\ Splicing[KeyOrder[i]].list = k /\ Splicing[KeyOrder[i]].front
             => Contains(Items(patch.entries[KeyOrder[i]]), before)
  BY <1>7 DEF Grown
<1> DEFINE p == Join(before, pre)
           q == Join(post, after)
<1>9. IsSequence(p) /\ IsSequence(q)
  BY <1>1, <1>8, JoinIs
<1>10. In(doc', k).items = Join(Join(p, piece), q)
  <2>1. IsSequence(Join(pre, piece)) /\ IsSequence(Join(p, piece))
    BY <1>1, <1>3, <1>9, JoinIs
  <2>2. Join(before, Join(Join(pre, piece), post)) = Join(Join(before, Join(pre, piece)), post)
    BY <1>1, <1>8, <2>1, JoinAssociates
  <2>3. Join(before, Join(pre, piece)) = Join(p, piece)
    BY <1>1, <1>3, <1>8, JoinAssociates
  <2>4. Join(before, now) = Join(Join(p, piece), post)
    BY <1>1, <2>2, <2>3
  <2>5. Join(Join(Join(p, piece), post), after) = Join(Join(p, piece), q)
    BY <1>1, <1>8, <2>1, JoinAssociates
  <2> QED
    BY <1>8, <2>4, <2>5
<1> HIDE DEF p, q
<1>11. ASSUME NEW i \in 1 .. n + 1, NEW x \in DOMAIN Splicing, Front(x, k), Names(profile[2][i], x)
       PROVE  Contains(Prepended(i, x), p)
  <2>1. i \in 1 .. Len(profile[2])
    BY DocumentsAreParsed DEF IsSequence
  <2>2. IsSequence(Prepended(i, x))
    BY <1>11, <2>1, UnnamedPatches, ItemsAre DEF Prepended
  <2>3. CASE i \in 1 .. n
    BY <1>1, <1>8, <1>11, <2>2, <2>3, ContainsMore DEF p
  <2>4. CASE i = n + 1
    <3>1. PICK j \in 1 .. N : KeyOrder[j] = x
      BY PrefixesAreOrdered
    <3>2. x \in DOMAIN patch.entries
      BY <1>2, <1>11, <2>4
    <3>3. Contains(Items(patch.entries[x]), before)
      BY <1>8, <1>11, <3>1, <3>2 DEF Front
    <3>4. Contains(Prepended(i, x), before)
      BY <2>4, <3>3 DEF Prepended, patch
    <3> QED
      BY <1>1, <2>2, <3>4, ContainsBefore DEF p
  <2> QED
    BY <2>3, <2>4
<1>12. \A i \in 1 .. n + 1, x \in DOMAIN Splicing :
         Front(x, k) /\ Names(profile[2][i], x) => Contains(Prepended(i, x), p)
  BY <1>11
<1> QED
  BY <1>8, <1>9, <1>10, <1>12 DEF Held, Prepended, piece

LEMMA EnhanceKeepsLists == ListsInv /\ Enhance => ListsInv'
<1> SUFFICES ASSUME ListsInv, Enhance PROVE ListsInv'
  OBVIOUS
<1>1. stage = "enhance" /\ chain # <<>> /\ chain' = Tail(chain) /\ profile' = profile
  BY DEF Enhance
<1>2. PICK n \in 0 .. Len(profile[2]) :
        Applied(n) /\ \A k \in OwnLists : Unnamed(k) => Held(k, n)
  BY <1>1 DEF ListsInv
<1>3. Len(profile[2]) \in Nat /\ profile[1] \in Documents /\ profile[2] \in Chains
  BY DocumentsAreParsed DEF ListsInv, IsSequence
<1>4. PICK S : chain \in Seq(S)
  BY <1>2, SequenceIn DEF Applied
<1>5. /\ Len(chain) \in Nat \ {0} /\ Tail(chain) \in Seq(S) /\ Len(Tail(chain)) = Len(chain) - 1
      /\ \A i \in 1 .. Len(Tail(chain)) : Tail(chain)[i] = chain[i + 1]
  BY <1>1, <1>4, HeadTailProperties, EmptySeq
<1>6. Head(chain) = profile[2][n + 1]
  BY <1>2, <1>4, <1>5 DEF Applied
<1>7. n + 1 \in 0 .. Len(profile[2]) /\ n + 1 \in 1 .. Len(profile[2])
  BY <1>2, <1>3, <1>5 DEF Applied
<1>8. Applied(n + 1)'
  <2>1. IsSequence(chain')
    BY <1>1, <1>5, SequenceOf
  <2>2. Len(chain') = Len(profile'[2]) - (n + 1)
    BY <1>1, <1>2, <1>3, <1>5 DEF Applied
  <2>3. ASSUME NEW i \in 1 .. Len(chain') PROVE chain'[i] = profile'[2][(n + 1) + i]
    <3>1. chain'[i] = chain[i + 1] /\ i + 1 \in 1 .. Len(chain)
      BY <1>1, <1>5
    <3>2. chain[i + 1] = profile[2][n + (i + 1)]
      BY <1>2, <3>1 DEF Applied
    <3>3. n + (i + 1) = (n + 1) + i
      BY <1>3, <1>5
    <3> QED
      BY <1>1, <3>1, <3>2, <3>3
  <2> QED
    BY <2>1, <2>2, <2>3 DEF Applied
<1>9. \A k : Unnamed(k)' = Unnamed(k)
  BY <1>1 DEF Unnamed
<1>10. CASE profile[2][n + 1].kind = "merge"
  <2>1. doc' = DeepMerge(doc, profile[2][n + 1].patch) /\ stage' = stage
    BY <1>6, <1>10 DEF Enhance
  <2>2. \A k \in OwnLists : Unnamed(k) => Held(k, n + 1)'
    BY <1>1, <1>2, <1>3, <1>7, <2>1, PatchHolds
  <2>3. \A k \in OwnLists : Unnamed(k)' => Held(k, n + 1)'
    BY <1>9, <2>2
  <2> QED
    BY <1>1, <1>3, <1>7, <1>8, <2>1, <2>3 DEF ListsInv
<1>11. CASE profile[2][n + 1].kind # "merge"
  <2>1. stage' \in {"enhance", "failed"}
    BY <1>1, <1>6, <1>11 DEF Enhance, RunScript, BuildFails
  <2>2. \A k : ~Unnamed(k)'
    BY <1>7, <1>9, <1>11 DEF Unnamed, Names
  <2> QED
    BY <1>1, <1>3, <1>7, <1>8, <2>1, <2>2 DEF ListsInv
<1> QED
  BY <1>10, <1>11

\* A step that leaves the lists alone.
LEMMA ListsStay ==
  ASSUME ListsInv, UNCHANGED <<chain, profile>>, stage # "failed",
         stage # "enhance" \/ chain = <<>>,
         \A k \in OwnLists : IsList(In(doc, k)) => In(doc', k) = In(doc, k)
  PROVE  ListsInv'
<1>1. PICK n \in 0 .. Len(profile[2]) :
        /\ Applied(n) /\ (stage # "enhance" => n = Len(profile[2]))
        /\ \A k \in OwnLists : Unnamed(k) => Held(k, n)
  BY DEF ListsInv
<1>2. Len(profile[2]) \in Nat /\ profile[1] \in Documents /\ profile[2] \in Chains
  BY DocumentsAreParsed DEF ListsInv, IsSequence
<1>3. n = Len(profile[2])
  BY <1>1, <1>2 DEF Applied
<1>4. Applied(n)'
  BY <1>1 DEF Applied
<1>5. ASSUME NEW k \in OwnLists, Unnamed(k)' PROVE Held(k, n)'
  <2>1. Held(k, n)
    BY <1>1, <1>5 DEF Unnamed
  <2>2. In(doc', k) = In(doc, k)
    BY <2>1 DEF Held
  <2> QED
    BY <2>1, <2>2 DEF Held, Prepended
<1> QED
  BY <1>1, <1>2, <1>3, <1>4, <1>5 DEF ListsInv

(***************************** the dns section *******************************)

OwnDns == In(enhanced, "dns")
Named(k) == \E x \in Overridden \cap DOMAIN Splicing : Splicing[x].list = k

\* What the section of the enhanced document says stays.
DnsInv ==
  stage \in AfterControl \cup {"control"} /\ IsMap(OwnDns) =>
    /\ IsMap(In(doc, "dns"))
    /\ \A k \in DOMAIN OwnDns.entries \ Said :
         \/ In(In(doc, "dns"), k) = OwnDns.entries[k]
         \/ Named(k)
         \/ stage \in AfterServers /\ k \in ServerLists /\ ~Filled(OwnDns, k)

RestInv == ListsInv /\ DnsInv

LEMMA WithLeaves ==
  ASSUME NEW m, NEW f, IsMap(m)
  PROVE  /\ IsMap(With(m, f))
         /\ \A k : k \notin DOMAIN f => In(With(m, f), k) = In(m, k)
  BY WithIn

LEMMA LackingLeaves ==
  ASSUME NEW m, NEW f, IsMap(m)
  PROVE  /\ IsMap(Lacking(m, f))
         /\ \A k : k \notin DOMAIN f => In(Lacking(m, f), k) = In(m, k)
  BY DEF IsMap, Lacking, Map, In, Over

\* A step of the build after Check.
Builds(next) ==
  /\ stage \in AfterControl \cup {"control"} /\ stage' = next /\ next \in AfterControl
  /\ UNCHANGED <<chain, settings, profile, enhanced>>

LEMMA ListsLast ==
  ASSUME NEW next, RestInv, Builds(next), \A k \in OwnLists : In(doc', k) = In(doc, k)
  PROVE  ListsInv'
<1>1. UNCHANGED <<chain, profile>> /\ stage # "failed" /\ stage # "enhance"
  BY DEF Builds
<1> QED
  BY <1>1, ListsStay DEF RestInv

\* The section is left to its keys that nothing names.
Leaves(d, new) ==
  IsMap(d) => IsMap(new) /\ \A k : k \notin Said /\ ~Named(k) => In(new, k) = In(d, k)

LEMMA DnsStays ==
  ASSUME NEW next, RestInv, Builds(next), stage \in AfterServers => next \in AfterServers,
         Leaves(In(doc, "dns"), In(doc', "dns"))
  PROVE  DnsInv'
<1>1. OwnDns' = OwnDns /\ Said' = Said /\ \A k : Named(k)' = Named(k)
  BY DEF OwnDns, Said, Named, Overridden, Builds
<1> QED
  BY <1>1 DEF RestInv, DnsInv, Builds, Leaves

\* A stage that touches neither the lists nor the section.
LEMMA OthersStay ==
  ASSUME NEW next, RestInv, Builds(next), stage \in AfterServers => next \in AfterServers,
         \A k \in OwnLists \cup {"dns"} : In(doc', k) = In(doc, k)
  PROVE  RestInv'
<1>1. Leaves(In(doc, "dns"), In(doc', "dns"))
  BY DEF Leaves
<1> QED
  BY <1>1, ListsLast, DnsStays DEF RestInv

\* A stage that touches the section only.
LEMMA SectionStays ==
  ASSUME NEW next, RestInv, IsMap(doc), Builds(next), stage \notin AfterServers,
         NEW x, doc' = With(doc, Entry("dns", x)), Leaves(In(doc, "dns"), x)
  PROVE  RestInv'
<1>1. In(doc', "dns") = x /\ \A k \in OwnLists : In(doc', k) = In(doc, k)
  BY InsertOne DEF OwnLists
<1> QED
  BY <1>1, ListsLast, DnsStays DEF RestInv

(************************* the rest, stage by stage **************************)

LEMMA RestEnhance == RestInv /\ Enhance => RestInv'
<1>1. Enhance => stage' \in {"enhance", "failed"}
  BY DEF Enhance, RunScript, BuildFails
<1> QED
  BY <1>1, EnhanceKeepsLists DEF RestInv, DnsInv

LEMMA RestCheck == RestInv /\ Check => RestInv'
<1> SUFFICES ASSUME RestInv, Check PROVE RestInv'
  OBVIOUS
<1>1. stage = "enhance" /\ chain = <<>> /\ UNCHANGED <<chain, profile, settings>>
  BY DEF Check
<1>2. CASE stage' = "failed"
  BY <1>1, <1>2 DEF RestInv, ListsInv, DnsInv
<1>3. CASE stage' # "failed"
  <2>1. /\ stage' = "control" /\ enhanced' = doc'
        /\ doc' = IF doc = Null THEN Map(<<>>) ELSE doc
    BY <1>3 DEF Check, BuildFails
  <2>2. \A k : IsList(In(doc, k)) => In(doc', k) = In(doc, k)
    BY <2>1 DEF In, IsMap, IsList, Null
  <2>3. ListsInv'
    BY <1>1, <2>2, ListsStay DEF RestInv
  <2>4. DnsInv'
    BY <2>1, NullIsEmpty DEF DnsInv, OwnDns, In
  <2> QED
    BY <2>3, <2>4 DEF RestInv
<1> QED
  BY <1>2, <1>3

LEMMA EmptyDomain == DOMAIN <<>> = {}
  OBVIOUS

LEMMA Outside ==
  ASSUME NEW k, NEW f, NEW g, k \notin DOMAIN f, k \notin DOMAIN g
  PROVE  k \notin DOMAIN Over(f, g)
  BY OverIs

LEMMA RestControl == BuildInv /\ RestInv /\ Control => RestInv'
<1> SUFFICES ASSUME BuildInv, RestInv, Control PROVE RestInv'
  OBVIOUS
<1>1. Builds("sniffer") /\ stage \notin AfterServers /\ IsMap(doc) /\ settings \in SettingsValues
  BY DEF Builds, Control, Step, BuildInv
<1> DEFINE mode == IF settings.findProcess # Null
                   THEN Entry("find-process-mode", settings.findProcess) ELSE <<>>
           delay == IF settings.unifiedDelay THEN Entry("unified-delay", On) ELSE <<>>
           chosen == Over(mode, delay)
           absent == Over(Entry("find-process-mode", Scalar("strict")), Entry("tcp-concurrent", On))
           f == Over(settings.control, chosen)
<1>2. doc' = Lacking(With(doc, f), absent)
  BY DEF Control
<1>3. ASSUME NEW k \in OwnLists \cup {"dns"} PROVE k \notin DOMAIN chosen /\ k \notin DOMAIN absent
  <2>1. \A x : /\ k \notin DOMAIN Entry("find-process-mode", x)
               /\ k \notin DOMAIN Entry("unified-delay", x)
               /\ k \notin DOMAIN Entry("tcp-concurrent", x)
    <3>1. k \notin {"find-process-mode", "unified-delay", "tcp-concurrent"}
      BY DEF OwnLists
    <3>2. \A j, x : DOMAIN Entry(j, x) = {j}
      BY EntryIs
    <3>3. \A j, x : k # j => k \notin DOMAIN Entry(j, x)
      BY <3>2
    <3> QED
      BY <3>1, <3>3
  <2>2. k \notin DOMAIN mode /\ k \notin DOMAIN delay
    BY <2>1, EmptyDomain
  <2> HIDE DEF mode, delay
  <2> QED
    BY <2>1, <2>2, Outside
<1>4. \A k \in OwnLists \cup {"dns"} : k \notin DOMAIN settings.control
  BY <1>1, SettingsAreShaped DEF OwnLists, ControlKeys
<1> HIDE DEF chosen, absent
<1>5. \A k \in OwnLists \cup {"dns"} : k \notin DOMAIN f
  BY <1>3, <1>4, Outside
<1> HIDE DEF f
<1>6. \A k \in OwnLists \cup {"dns"} : In(doc', k) = In(doc, k)
  BY <1>1, <1>2, <1>3, <1>5, WithLeaves, LackingLeaves
<1> QED
  BY <1>1, <1>6, OthersStay

LEMMA RestSniffer == BuildInv /\ RestInv /\ Sniffer => RestInv'
<1> SUFFICES ASSUME BuildInv, RestInv, Sniffer PROVE RestInv'
  OBVIOUS
<1>1. Builds("tun") /\ stage \notin AfterServers /\ IsMap(doc)
  BY DEF Builds, Sniffer, Step, BuildInv
<1>2. doc' = doc \/ \E x : doc' = With(doc, Entry("sniffer", x))
  BY DEF Sniffer
<1>3. \A k \in OwnLists \cup {"dns"} : In(doc', k) = In(doc, k)
  BY <1>1, <1>2, InsertOne DEF OwnLists
<1> QED
  BY <1>1, <1>3, OthersStay

LEMMA RestTun == BuildInv /\ RestInv /\ Tun => RestInv'
<1> SUFFICES ASSUME BuildInv, RestInv, Tun PROVE RestInv'
  OBVIOUS
<1>1. Builds("dns") /\ stage \notin AfterServers /\ IsMap(doc) /\ settings \in SettingsValues
  BY DEF Builds, Tun, Step, BuildInv
<1>2. \/ doc' = doc
      \/ \E x : doc' = With(doc, Entry("tun", x))
      \/ \E x : doc' = With(doc, Over(Entry("tun", x), settings.interface))
  BY DEF Tun
<1>3. ASSUME NEW x, NEW k \in OwnLists \cup {"dns"}
      PROVE  k \notin DOMAIN Over(Entry("tun", x), settings.interface)
  <2>1. DOMAIN settings.interface \subseteq {"interface-name"}
    BY <1>1, SettingsAreShaped
  <2>2. k \notin DOMAIN settings.interface /\ k \notin DOMAIN Entry("tun", x)
    BY <2>1, EntryIs DEF OwnLists
  <2> QED
    BY <2>2, Outside
<1>4. \A k \in OwnLists \cup {"dns"} : In(doc', k) = In(doc, k)
  <2>1. CASE doc' = doc
    BY <2>1
  <2>2. CASE \E x : doc' = With(doc, Entry("tun", x))
    BY <1>1, <2>2, InsertOne DEF OwnLists
  <2>3. CASE \E x : doc' = With(doc, Over(Entry("tun", x), settings.interface))
    BY <1>1, <1>3, <2>3, WithLeaves
  <2> QED
    BY <1>2, <2>1, <2>2, <2>3
<1> QED
  BY <1>1, <1>4, OthersStay

LEMMA RestHosts == BuildInv /\ RestInv /\ Hosts => RestInv'
<1> SUFFICES ASSUME BuildInv, RestInv, Hosts PROVE RestInv'
  OBVIOUS
<1>1. Builds("done") /\ IsMap(doc)
  BY DEF Builds, Hosts, Step, BuildInv
<1>2. doc' = doc \/ \E x : doc' = With(doc, Entry("hosts", x))
  BY DEF Hosts
<1>3. \A k \in OwnLists \cup {"dns"} : In(doc', k) = In(doc, k)
  BY <1>1, <1>2, InsertOne DEF OwnLists
<1> QED
  BY <1>1, <1>3, OthersStay

LEMMA MergedSection ==
  ASSUME NEW d, NEW patch, IsMap(d), IsMap(patch)
  PROVE  /\ IsMap(Merge3(d, patch))
         /\ \A k : k \notin DOMAIN patch.entries /\ ~Extends(patch, k) =>
              In(Merge3(d, patch), k) = In(d, k)
<1>1. PICK g : Merging(g, d, patch) /\ Merge3(d, patch) = g[Len(KeyOrder)]
  BY Merge3Runs
<1> QED
  BY <1>1, MergeLeaves

\* What the settings say, Said has; and none of it extends a list.
LEMMA SettingsSay ==
  ASSUME settings \in SettingsValues, NEW patch,
         patch = DnsOfSettings \/ patch = Map(Entry("enable", Off))
  PROVE  /\ IsMap(patch) /\ DOMAIN patch.entries \subseteq Said
         /\ \A k : ~Extends(patch, k)
<1> DEFINE own == DOMAIN settings.dns \cup DOMAIN settings.dnsChoices \cup {"enable"}
<1>1. IsMap(patch) /\ DOMAIN patch.entries \subseteq own
  <2>1. CASE patch = Map(Entry("enable", Off))
    <3>1. IsMap(patch) /\ patch.entries = Entry("enable", Off)
      BY <2>1 DEF Map, IsMap
    <3>2. DOMAIN Entry("enable", Off) = {"enable"} /\ "enable" \in own
      BY EntryIs
    <3> HIDE DEF own
    <3> QED
      BY <3>1, <3>2
  <2>2. CASE patch = DnsOfSettings
    <3> DEFINE said == {"listen", "ipv6", "prefer-h3"}
                 \cup (IF settings.dns["enhanced-mode"] = Scalar("") THEN {} ELSE {"enhanced-mode"})
                 \cup (IF settings.dns["enhanced-mode"] = Scalar("fake-ip") THEN DOMAIN FakeIp
                       ELSE {})
               r == [k \in said |-> settings.dns[k]]
               f == Over(r, settings.dnsChoices)
    <3>1. patch = Map(Over(Entry("enable", On), f))
      BY <2>2 DEF DnsOfSettings
    <3>2. IsMap(patch) /\ patch.entries = Over(Entry("enable", On), f)
      BY <3>1 DEF Map, IsMap
    <3>3. said \subseteq DOMAIN settings.dns /\ DOMAIN r = said
      <4>1. DOMAIN FakeIp = {"fake-ip-range", "fake-ip-filter-mode"}
        BY DEF FakeIp
      <4>2. said \subseteq {"listen", "ipv6", "prefer-h3", "enhanced-mode", "fake-ip-range",
                            "fake-ip-filter-mode"}
        BY <4>1
      <4>3. said \subseteq DOMAIN settings.dns
        <5> HIDE DEF said
        <5> QED
          BY <4>2, SettingsAreShaped
      <4> QED
        BY <4>3
    <3> HIDE DEF r, said
    <3>4. DOMAIN f = said \cup DOMAIN settings.dnsChoices
      BY <3>3, OverIs
    <3> HIDE DEF f
    <3>5. DOMAIN patch.entries = DOMAIN Entry("enable", On) \cup DOMAIN f
      BY <3>2, OverIs
    <3> QED
      BY <3>2, <3>3, <3>4, <3>5, EntryIs
  <2> QED
    BY <2>1, <2>2
<1>2. own \cap DOMAIN Splicing = {}
  BY SettingsAreShaped
<1> QED
  BY <1>1, <1>2 DEF Said, Extends

LEMMA RestDns == BuildInv /\ RestInv /\ Dns => RestInv'
<1> SUFFICES ASSUME BuildInv, RestInv, Dns PROVE RestInv'
  OBVIOUS
<1>1. Builds("override") /\ stage \notin AfterServers /\ IsMap(doc) /\ settings \in SettingsValues
  BY DEF Builds, Dns, Step, BuildInv
<1> DEFINE patch == IF settings.enableDns THEN DnsOfSettings ELSE Map(Entry("enable", Off))
           d == In(doc, "dns")
<1>2. doc' = With(doc, Entry("dns", Merge3(d, patch)))
  BY DEF Dns, IntoDns
<1>3. IsMap(patch) /\ DOMAIN patch.entries \subseteq Said /\ \A k : ~Extends(patch, k)
  BY <1>1, SettingsSay
<1> HIDE DEF patch, d
<1>4. Leaves(d, Merge3(d, patch))
  BY <1>3, MergedSection DEF Leaves
<1> QED
  BY <1>1, <1>2, <1>4, SectionStays DEF d

LEMMA RestDnsOverride == BuildInv /\ RestInv /\ DnsOverride => RestInv'
<1> SUFFICES ASSUME BuildInv, RestInv, DnsOverride PROVE RestInv'
  OBVIOUS
<1> DEFINE o == settings.dnsOverride
           d == In(doc, "dns")
<1>1. /\ stage = "override" /\ UNCHANGED <<chain, settings, profile, enhanced>>
      /\ stage \notin AfterServers /\ IsMap(doc)
  BY DEF DnsOverride, BuildInv
<1>2. CASE stage' = "failed"
  BY <1>1, <1>2 DEF RestInv, ListsInv, DnsInv
<1>3. CASE o = Null
  <2>1. Builds("force") /\ doc' = doc
    BY <1>1, <1>3 DEF DnsOverride, Builds
  <2> QED
    BY <1>1, <2>1, OthersStay
<1>4. CASE o # Null /\ stage' # "failed"
  <2> DEFINE patch == Normal(o)
             new == Lacking(Merge3(d, patch), Entry("enable", On))
  <2>1. Builds("force") /\ IsMap(o) /\ IsMap(patch) /\ doc' = With(doc, Entry("dns", new))
    BY <1>1, <1>4 DEF DnsOverride, Builds, BuildFails
  <2>2. Overridden = DOMAIN patch.entries /\ \A k : Named(k) <=> Extends(patch, k)
    BY <2>1 DEF Overridden, Named, Extends
  <2> HIDE DEF patch
  <2>3. ASSUME IsMap(d)
        PROVE  IsMap(new) /\ \A k : k \notin Said /\ ~Named(k) => In(new, k) = In(d, k)
    <3>1. /\ IsMap(Merge3(d, patch))
          /\ \A k : k \notin Said /\ ~Named(k) => In(Merge3(d, patch), k) = In(d, k)
      BY <2>1, <2>2, <2>3, MergedSection DEF Said
    <3>2. \A k : k \notin Said => k \notin DOMAIN Entry("enable", On)
      BY EntryIs DEF Said
    <3> QED
      BY <3>1, <3>2, LackingLeaves
  <2>4. Leaves(d, new)
    BY <2>3 DEF Leaves
  <2> HIDE DEF new
  <2> QED
    BY <1>1, <2>1, <2>4, SectionStays
<1> QED
  BY <1>2, <1>3, <1>4

LEMMA TunDnsLeaves ==
  ASSUME NEW d, IsMap(d), settings \in SettingsValues
  PROVE  IsMap(TunDns(d)) /\ \A k : k \notin Said => In(TunDns(d), k) = In(d, k)
<1> DEFINE enabled == With(d, Entry("enable", On))
           asked == Over(Entry("listen", settings.dns["listen"]),
                         Entry("ipv6", settings.control["ipv6"]))
           base == Lacking(enabled, asked)
           moded(mode) == With(base, Entry("enhanced-mode", mode))
<1>1. \E mode : TunDns(d) \in {moded(mode), Lacking(moded(mode), FakeIp)}
  BY DEF TunDns
<1>2. {"enable", "listen", "ipv6", "enhanced-mode"} \cup DOMAIN FakeIp \subseteq Said
  BY SettingsAreShaped DEF FakeIp, Said
<1>3. \A k : k \notin Said =>
        \A x : /\ k \notin DOMAIN Entry("enable", x) /\ k \notin DOMAIN Entry("listen", x)
               /\ k \notin DOMAIN Entry("ipv6", x) /\ k \notin DOMAIN Entry("enhanced-mode", x)
  <2>1. \A j, k, x : j \in Said /\ k \notin Said => k \notin DOMAIN Entry(j, x)
    <3> SUFFICES ASSUME NEW j, NEW k, NEW x, j \in Said, k \notin Said
                 PROVE  k \notin DOMAIN Entry(j, x)
      OBVIOUS
    <3>1. DOMAIN Entry(j, x) = {j} /\ k # j
      BY EntryIs
    <3> QED
      BY <3>1
  <2>2. /\ "enable" \in Said /\ "listen" \in Said
        /\ "ipv6" \in Said /\ "enhanced-mode" \in Said
    BY <1>2
  <2> QED
    BY <2>1, <2>2
<1>4. \A k : k \notin Said => k \notin DOMAIN asked
  BY <1>3, Outside
<1>5. IsMap(enabled) /\ \A k : k \notin Said => In(enabled, k) = In(d, k)
  BY <1>3, WithLeaves
<1> HIDE DEF enabled, asked
<1>6. IsMap(base) /\ \A k : k \notin Said => In(base, k) = In(d, k)
  BY <1>4, <1>5, LackingLeaves
<1> HIDE DEF base
<1>7. \A mode : IsMap(moded(mode)) /\ \A k : k \notin Said => In(moded(mode), k) = In(d, k)
  BY <1>3, <1>6, WithLeaves
<1> HIDE DEF moded
<1>8. \A mode : /\ IsMap(Lacking(moded(mode), FakeIp))
                /\ \A k : k \notin Said => In(Lacking(moded(mode), FakeIp), k) = In(d, k)
  BY <1>2, <1>7, LackingLeaves
<1> QED
  BY <1>1, <1>7, <1>8

LEMMA RestForceDns == BuildInv /\ RestInv /\ ForceDns => RestInv'
<1> SUFFICES ASSUME BuildInv, RestInv, ForceDns PROVE RestInv'
  OBVIOUS
<1> DEFINE d == In(doc, "dns")
<1>1. Builds("servers") /\ stage \notin AfterServers /\ IsMap(doc) /\ settings \in SettingsValues
  BY DEF Builds, ForceDns, Step, BuildInv
<1>2. \/ doc' = doc
      \/ doc' = With(doc, Entry("dns", TunDns(d)))
      \/ IsMap(d) /\ doc' = With(doc, Entry("dns", With(d, Entry("enable", Off))))
  BY DEF ForceDns
<1>3. CASE doc' = doc
  BY <1>1, <1>3, OthersStay
<1>4. CASE doc' = With(doc, Entry("dns", TunDns(d)))
  <2>1. Leaves(d, TunDns(d))
    BY <1>1, TunDnsLeaves DEF Leaves
  <2> QED
    BY <1>1, <1>4, <2>1, SectionStays
<1>5. CASE IsMap(d) /\ doc' = With(doc, Entry("dns", With(d, Entry("enable", Off))))
  <2>1. \A k : k \notin Said => k # "enable"
    BY DEF Said
  <2>2. Leaves(d, With(d, Entry("enable", Off)))
    BY <1>5, <2>1, InsertOne DEF Leaves
  <2> QED
    BY <1>1, <1>5, <2>2, SectionStays
<1> QED
  BY <1>2, <1>3, <1>4, <1>5

LEMMA RestServers == BuildInv /\ RestInv /\ Servers => RestInv'
<1> SUFFICES ASSUME BuildInv, RestInv, Servers PROVE RestInv'
  OBVIOUS
<1> DEFINE d == In(doc, "dns")
           missing == {k \in ServerLists : ~Filled(d, k)}
           defaults == [k \in missing |-> DefaultServers]
<1>1. Builds("hosts") /\ stage \notin AfterServers /\ IsMap(doc)
  BY DEF Builds, Servers, Step, BuildInv
<1>2. CASE doc' = doc
  BY <1>1, <1>2, OthersStay
<1>3. CASE doc' = With(doc, Entry("dns", With(d, defaults)))
  <2> DEFINE new == With(d, defaults)
  <2>1. In(doc', "dns") = new /\ \A k \in OwnLists : In(doc', k) = In(doc, k)
    BY <1>1, <1>3, InsertOne DEF OwnLists
  <2>2. ListsInv'
    BY <1>1, <2>1, ListsLast
  <2>3. ASSUME IsMap(OwnDns)
        PROVE  /\ IsMap(new)
               /\ \A k \in DOMAIN OwnDns.entries \ Said :
                    \/ In(new, k) = OwnDns.entries[k]
                    \/ Named(k)
                    \/ k \in ServerLists /\ ~Filled(OwnDns, k)
    <3>1. /\ IsMap(d)
          /\ \A k \in DOMAIN OwnDns.entries \ Said : In(d, k) = OwnDns.entries[k] \/ Named(k)
      BY <1>1, <2>3 DEF RestInv, DnsInv, Builds
    <3>2. DOMAIN defaults = missing
      OBVIOUS
    <3> HIDE DEF d, defaults
    <3>3. IsMap(new) /\ \A k : k \notin missing => In(new, k) = In(d, k)
      BY <3>1, <3>2, WithLeaves
    <3> HIDE DEF new
    <3>4. \A k \in DOMAIN OwnDns.entries :
            In(d, k) = OwnDns.entries[k] => (Filled(d, k) <=> Filled(OwnDns, k))
      BY <2>3 DEF Filled, In
    <3> QED
      BY <3>1, <3>3, <3>4
  <2>4. OwnDns' = OwnDns /\ Said' = Said /\ \A k : Named(k)' = Named(k)
    BY <1>1 DEF OwnDns, Said, Named, Overridden, Builds
  <2> HIDE DEF new
  <2>5. DnsInv'
    BY <1>1, <2>1, <2>3, <2>4 DEF DnsInv, Builds
  <2> QED
    BY <2>2, <2>5 DEF RestInv
<1> QED
  BY <1>2, <1>3 DEF Servers

\* Whole behind all that was prepended: the piece begins where that ends.
LEMMA HeldIsKept ==
  ASSUME profile[1] \in Documents, profile[2] \in Chains, NEW k,
         Unnamed(k) => Held(k, Len(profile[2]))
  PROVE  ListIsKept(k)
<1> SUFFICES ASSUME Unnamed(k) PROVE ListIsKept(k)
  BY DEF ListIsKept, Unnamed
<1> DEFINE piece == In(profile[1], k).items
           list == In(doc, k).items
<1>1. PICK pre, post :
        /\ IsSequence(pre) /\ IsSequence(post) /\ IsList(In(doc, k))
        /\ list = Join(Join(pre, piece), post)
        /\ \A i \in 1 .. Len(profile[2]), x \in DOMAIN Splicing :
             Front(x, k) /\ Names(profile[2][i], x) => Contains(Prepended(i, x), pre)
  BY DEF Held
<1>2. IsSequence(piece)
  BY OwnItems
<1> HIDE DEF piece, list
<1>3. /\ SubSeq(list, 1, Len(pre)) = pre
      /\ SubSeq(list, Len(pre) + 1, Len(pre) + Len(piece)) = piece
  BY <1>1, <1>2, Middle
<1>4. Len(pre) \in 0 .. Len(list) - Len(piece)
  <2>1. IsSequence(Join(pre, piece))
    BY <1>1, <1>2, JoinIs
  <2>2. /\ Len(list) = (Len(pre) + Len(piece)) + Len(post)
        /\ Len(pre) \in Nat /\ Len(piece) \in Nat /\ Len(post) \in Nat
    BY <1>1, <1>2, <2>1, JoinIs
  <2> QED
    BY <2>2
<1>5. ASSUME NEW i \in 1 .. Len(profile[2]), NEW x \in DOMAIN Splicing,
             Front(x, k), Names(profile[2][i], x)
      PROVE  Occurs(Prepended(i, x), pre)
  <2>1. IsSequence(Prepended(i, x))
    BY <1>5, UnnamedPatches, ItemsAre DEF Prepended
  <2> QED
    BY <1>1, <1>5, <2>1, ContainsOccurs
<1>6. \E cut \in 0 .. Len(list) - Len(piece) :
        /\ SubSeq(list, cut + 1, cut + Len(piece)) = piece
        /\ \A i \in 1 .. Len(profile[2]), x \in DOMAIN Splicing :
             Front(x, k) /\ Names(profile[2][i], x) =>
               Occurs(Prepended(i, x), SubSeq(list, 1, cut))
  BY <1>3, <1>4, <1>5
<1> QED
  BY <1>1, <1>6 DEF ListIsKept, Front, Prepended, piece, list

LEMMA RestIs == RestInv => RestIsKept
<1> SUFFICES ASSUME RestInv, Done PROVE RestIsKept
  BY DEF RestIsKept
<1>1. stage = "done" /\ profile[1] \in Documents /\ profile[2] \in Chains
  BY DEF Done, RestInv, ListsInv
<1>2. \A k \in OwnLists : Unnamed(k) => Held(k, Len(profile[2]))
  BY <1>1 DEF RestInv, ListsInv
<1>3. \A k \in {"rules", "proxies"} : ListIsKept(k)
  BY <1>1, <1>2, HeldIsKept DEF OwnLists
<1>4. IsMap(OwnDns) => \A k \in DOMAIN OwnDns.entries \ Said :
         \/ In(In(doc, "dns"), k) = OwnDns.entries[k]
         \/ k \in ServerLists /\ ~Filled(OwnDns, k)
         \/ Named(k)
  BY <1>1 DEF RestInv, DnsInv
<1> QED
  BY <1>3, <1>4 DEF RestIsKept, OwnDns, Named

LEMMA RestKeepsInvariant == BuildSpec => []RestInv
<1>1. BuildInit => RestInv
  <2>1. BuildInit => stage = "enhance"
    BY DEF BuildInit, BuildStarts
  <2> QED
    BY <2>1, ListsBegin DEF RestInv, DnsInv
<1>2. ASSUME BuildInv, RestInv, [BuildNext]_buildVars PROVE RestInv'
  <2>1. CASE UNCHANGED buildVars
    <3>1. UNCHANGED <<stage, doc, chain, settings, profile, enhanced>>
      BY <2>1 DEF buildVars
    <3>2. ListsInv'
      BY <1>2, <3>1 DEF RestInv, ListsInv, Applied, Unnamed, Held, Prepended
    <3>3. DnsInv'
      BY <1>2, <3>1 DEF RestInv, DnsInv, OwnDns, Said, Named, Overridden
    <3> QED
      BY <3>2, <3>3 DEF RestInv
  <2>2. CASE BuildNext
    BY <1>2, <2>2, RestEnhance, RestCheck, RestControl, RestSniffer, RestTun, RestDns,
       RestDnsOverride, RestForceDns, RestServers, RestHosts DEF BuildNext
  <2> QED
    BY <1>2, <2>1, <2>2
<1> QED
  BY <1>1, <1>2, BuildKeepsInvariant, PTL DEF BuildSpec

\* A list of the profile that no enhancer replaces is in runtime.yaml in one piece, all
\* that is prepended to it in front, and the dns section keeps what neither the settings
\* nor the override name (config_gen.rs:200-395, merge.rs:14-62).
THEOREM RestSurvives == BuildSpec => []RestIsKept
  BY RestKeepsInvariant, RestIs, PTL

(************************* the schedule of updates ***************************)

Callers == {"loop", "hand"}
IndexEntry   == [at : Nat, every : Nat]
Update  == [stage : {"download", "written"}, id : Subscriptions, started : Nat, every : Nat,
            before : IndexEntry \cup {Deleted}]

UpdaterTypes ==
  /\ clock \in Nat
  /\ index \in [Subscriptions -> IndexEntry \cup {Deleted}]
  /\ \A id \in DOMAIN failures : failures[id] \in [last : Nat, count : Nat \ {0}]
  /\ streak \in [Subscriptions -> [failed : Nat, last : Nat, told : Nat]]
  /\ pass \subseteq [id : Subscriptions, at : Nat, every : Nat]
  /\ updating \in [Callers -> Update \cup {NoUpdate}]

\* An update has the lock from its write on, so the entry it wrote is still there, and
\* the one it replaced is no younger.  Entries are of the past.
EntriesAreOld ==
  /\ \A id \in Listed : index[id].at = 0 \/ index[id].at < clock
  /\ \A who \in Callers : updating[who].stage = "written" =>
       /\ updating[who].id \in Listed /\ updating[who].before \in IndexEntry
       /\ updating[who].before.at <= index[updating[who].id].at
  /\ \A who, other \in Callers :
       updating[who].stage = "written" /\ updating[other].stage = "written" => who = other

\* The loop takes a subscription from its copy once, and not before it is due.
TakenOnce ==
  /\ \A p, q \in pass : p.id = q.id => p = q
  /\ updating["loop"] # NoUpdate =>
       clock > 0 /\ \A p \in pass : p.id # updating["loop"].id

\* The loop has in memory what fails in a row, and will not look again at what was
\* deleted while it failed.
InMemory(id) ==
  id \in Listed =>
    /\ id \in DOMAIN failures /\ failures[id].last = streak[id].last
    /\ failures[id].count >= streak[id].failed
    /\ index[id].at < streak[id].last
LeftOut(id) ==
  id \notin Listed =>
    /\ \A p \in pass : p.id # id
    /\ updating["loop"] # NoUpdate => updating["loop"].id # id
Remembered ==
  \A id \in Subscriptions :
    /\ streak[id].failed > 0 => InMemory(id) /\ LeftOut(id)
    /\ streak[id].failed = 0 => streak[id].told = 0
    /\ updating["loop"].stage = "written" /\ updating["loop"].id = id => streak[id].failed = 0

UpdaterInv == UpdaterTypes /\ EntriesAreOld /\ TakenOnce /\ Remembered /\ RetriesBackOff

LEMMA NotAnEntry == Deleted \notin IndexEntry /\ NoUpdate \notin Update
  BY DEF Deleted, IndexEntry, NoUpdate, Update

LEMMA ListedIsEntry ==
  ASSUME UpdaterTypes, NEW id \in Listed
  PROVE  id \in Subscriptions /\ index[id] \in IndexEntry
  BY DEF UpdaterTypes, Listed

(******************************* retry_delay *********************************)

\* The powers that occur, one by one: the provers know no induction over exponents.
IsPower(k, x) ==
  \/ (k = 0 /\ x = 1) \/ (k = 1 /\ x = 2) \/ (k = 2 /\ x = 4)
  \/ (k = 3 /\ x = 8) \/ (k = 4 /\ x = 16) \/ (k = 5 /\ x = 32)
  \/ (k = 6 /\ x = 64) \/ (k = 7 /\ x = 128) \/ (k = 8 /\ x = 256)
  \/ (k = 9 /\ x = 512) \/ (k = 10 /\ x = 1024) \/ (k = 11 /\ x = 2048)
  \/ (k = 12 /\ x = 4096) \/ (k = 13 /\ x = 8192) \/ (k = 14 /\ x = 16384)
  \/ (k = 15 /\ x = 32768) \/ (k = 16 /\ x = 65536)

LEMMA Powers == ASSUME NEW k \in 0 .. 16 PROVE IsPower(k, 2^k)
<1>0. ASSUME k = 0 PROVE 2^k = 1
  BY <1>0, SMT
<1>1. ASSUME k = 1 PROVE 2^k = 2
  BY <1>1, SMT
<1>2. ASSUME k = 2 PROVE 2^k = 4
  BY <1>2, SMT
<1>3. ASSUME k = 3 PROVE 2^k = 8
  BY <1>3, SMT
<1>4. ASSUME k = 4 PROVE 2^k = 16
  BY <1>4, SMT
<1>5. ASSUME k = 5 PROVE 2^k = 32
  BY <1>5, SMT
<1>6. ASSUME k = 6 PROVE 2^k = 64
  BY <1>6, SMT
<1>7. ASSUME k = 7 PROVE 2^k = 128
  BY <1>7, SMT
<1>8. ASSUME k = 8 PROVE 2^k = 256
  BY <1>8, SMT
<1>9. ASSUME k = 9 PROVE 2^k = 512
  BY <1>9, SMT
<1>10. ASSUME k = 10 PROVE 2^k = 1024
  BY <1>10, SMT
<1>11. ASSUME k = 11 PROVE 2^k = 2048
  BY <1>11, SMT
<1>12. ASSUME k = 12 PROVE 2^k = 4096
  BY <1>12, SMT
<1>13. ASSUME k = 13 PROVE 2^k = 8192
  BY <1>13, SMT
<1>14. ASSUME k = 14 PROVE 2^k = 16384
  BY <1>14, SMT
<1>15. ASSUME k = 15 PROVE 2^k = 32768
  BY <1>15, SMT
<1>16. ASSUME k = 16 PROVE 2^k = 65536
  BY <1>16, SMT
<1>17. \/ k = 0 \/ k = 1 \/ k = 2 \/ k = 3 \/ k = 4 \/ k = 5 \/ k = 6 \/ k = 7 \/ k = 8
       \/ k = 9 \/ k = 10 \/ k = 11 \/ k = 12 \/ k = 13 \/ k = 14 \/ k = 15 \/ k = 16
  OBVIOUS
<1> DEFINE x == 2^k
<1>18. IsPower(k, x)
  <2> HIDE DEF x
  <2>1. /\ (k = 0 => x = 1) /\ (k = 1 => x = 2) /\ (k = 2 => x = 4)
        /\ (k = 3 => x = 8) /\ (k = 4 => x = 16) /\ (k = 5 => x = 32)
        /\ (k = 6 => x = 64) /\ (k = 7 => x = 128) /\ (k = 8 => x = 256)
        /\ (k = 9 => x = 512) /\ (k = 10 => x = 1024) /\ (k = 11 => x = 2048)
        /\ (k = 12 => x = 4096) /\ (k = 13 => x = 8192) /\ (k = 14 => x = 16384)
        /\ (k = 15 => x = 32768) /\ (k = 16 => x = 65536)
    BY <1>0, <1>1, <1>2, <1>3, <1>4, <1>5, <1>6, <1>7, <1>8, <1>9, <1>10, <1>11, <1>12, <1>13,
       <1>14, <1>15, <1>16 DEF x
  <2>2. QED
    BY <1>17, <2>1 DEF IsPower
<1>19. QED
  BY <1>18

LEMMA PowersGrow ==
  ASSUME NEW m \in 0 .. 16, NEW n \in 0 .. 16, m <= n
  PROVE  2^m \in Nat /\ 2^n \in Nat /\ 2^m <= 2^n
<1>1. ASSUME NEW k \in 0 .. 16, NEW x, IsPower(k, x) PROVE x \in Nat
  BY <1>1 DEF IsPower
<1>2. ASSUME NEW x \in Nat, NEW y \in Nat, IsPower(m, x), IsPower(n, y) PROVE x <= y
  BY <1>2 DEF IsPower
<1> DEFINE a == 2^m
           b == 2^n
<1>3. IsPower(m, a) /\ IsPower(n, b)
  BY Powers
<1> HIDE DEF a, b
<1>4. a \in Nat /\ b \in Nat /\ a <= b
  BY <1>1, <1>2, <1>3
<1>5. QED
  BY <1>4 DEF a, b

\* More failures never mean a shorter wait.
LEMMA DelayGrows ==
  ASSUME NEW every \in Nat, NEW m \in Nat \ {0}, NEW n \in Nat, m <= n
  PROVE  RetryDelay(every, m) <= RetryDelay(every, n) /\ RetryDelay(every, m) \in Nat
         /\ RetryDelay(every, n) \in Nat
<1> DEFINE Shift(k) == IF k > 17 THEN 16 ELSE k - 1
<1>1. Shift(m) \in 0 .. 16 /\ Shift(n) \in 0 .. 16 /\ Shift(m) <= Shift(n)
  OBVIOUS
<1>2. 2^Shift(m) \in Nat /\ 2^Shift(n) \in Nat /\ 2^Shift(m) <= 2^Shift(n)
  BY <1>1, PowersGrow
<1>3. RetryBase \in Nat
  BY UpdaterBounds
<1> DEFINE a == RetryBase * 2^Shift(m)
           b == RetryBase * 2^Shift(n)
<1>4. a \in Nat /\ b \in Nat /\ a <= b
  <2> DEFINE x == 2^Shift(m)
             y == 2^Shift(n)
  <2>1. x \in Nat /\ y \in Nat /\ x <= y
    BY <1>2
  <2> HIDE DEF x, y
  <2>2. RetryBase * x \in Nat /\ RetryBase * y \in Nat /\ RetryBase * x <= RetryBase * y
    BY <1>3, <2>1
  <2>3. QED
    BY <2>2 DEF x, y
<1>5. /\ RetryDelay(every, m) = IF a < every THEN a ELSE every
      /\ RetryDelay(every, n) = IF b < every THEN b ELSE every
  BY DEF RetryDelay
<1> HIDE DEF a, b
<1>6. QED
  BY <1>4, <1>5

(******************************** step by step *******************************)

LEMMA UpdaterBegins == UpdaterInit => UpdaterInv
<1> SUFFICES ASSUME NEW every \in Intervals, UpdaterStarts(every) PROVE UpdaterInv
  BY DEF UpdaterInit
<1>1. every \in Nat /\ FirstInstant \in Nat
  BY UpdaterBounds
<1>2. UpdaterTypes
  BY <1>1 DEF UpdaterStarts, UpdaterTypes, IndexEntry, NoStreak, Callers
<1>3. \A id \in Subscriptions : streak[id].failed = 0 /\ streak[id].told = 0
  BY DEF UpdaterStarts, NoStreak
<1>4. \A who \in Callers : updating[who] = NoUpdate /\ updating[who].stage = "none"
  BY DEF UpdaterStarts, Callers, NoUpdate
<1>5. EntriesAreOld
  BY <1>4 DEF UpdaterStarts, EntriesAreOld, Listed
<1>6. TakenOnce /\ Remembered /\ RetriesBackOff
  BY <1>3, <1>4 DEF TakenOnce, Remembered, RetriesBackOff, UpdaterStarts, Callers
<1>7. QED
  BY <1>2, <1>5, <1>6 DEF UpdaterInv

LEMMA StartPassKeeps == UpdaterInv /\ StartPass => UpdaterInv'
<1> SUFFICES ASSUME UpdaterInv, StartPass PROVE UpdaterInv'
  OBVIOUS
<1>1. UNCHANGED <<clock, index, updating, streak>> /\ Listed' = Listed
  BY DEF StartPass, Listed
<1>2. UpdaterTypes /\ EntriesAreOld /\ TakenOnce /\ Remembered /\ RetriesBackOff
  BY DEF UpdaterInv
<1>3. updating["loop"] = NoUpdate
  BY DEF StartPass
<1>4. \A p \in pass' : \E id \in Listed :
        p = [id |-> id, at |-> index[id].at, every |-> index[id].every]
  BY DEF StartPass
<1>5. pass' \subseteq [id : Subscriptions, at : Nat, every : Nat]
  <2> SUFFICES ASSUME NEW p \in pass' PROVE p \in [id : Subscriptions, at : Nat, every : Nat]
    OBVIOUS
  <2>1. PICK id \in Listed : p = [id |-> id, at |-> index[id].at, every |-> index[id].every]
    BY <1>4
  <2>2. QED
    BY <1>2, <2>1, ListedIsEntry DEF IndexEntry
<1>6. /\ DOMAIN failures' = {id \in DOMAIN failures \cap Listed : index[id].at < failures[id].last}
      /\ \A id \in DOMAIN failures' : failures'[id] = failures[id]
  BY DEF StartPass, Only
<1>7. UpdaterTypes'
  BY <1>1, <1>2, <1>5, <1>6 DEF UpdaterTypes
<1>8. \A p \in pass' : p.id \in Listed
  BY <1>4
<1>9. TakenOnce'
  BY <1>1, <1>3, <1>4 DEF TakenOnce
<1>10. Remembered'
  <2> SUFFICES ASSUME NEW id \in Subscriptions, streak[id].failed > 0
               PROVE  InMemory(id)' /\ LeftOut(id)'
    BY <1>1, <1>2 DEF Remembered
  <2>1. InMemory(id)
    BY <1>2 DEF Remembered
  <2>2. InMemory(id)'
    BY <1>1, <1>6, <2>1 DEF InMemory
  <2>3. LeftOut(id)'
    BY <1>1, <1>3, <1>8 DEF LeftOut
  <2>4. QED
    BY <2>2, <2>3
<1>11. EntriesAreOld' /\ RetriesBackOff'
  BY <1>1, <1>2 DEF EntriesAreOld, RetriesBackOff
<1>12. QED
  BY <1>7, <1>9, <1>10, <1>11 DEF UpdaterInv

LEMMA PassOverKeeps ==
  ASSUME UpdaterInv, NEW p \in pass, PassOver(p)
  PROVE  UpdaterInv'
<1>1. /\ UNCHANGED <<clock, index, failures, updating, streak>> /\ pass' \subseteq pass
      /\ Listed' = Listed
  BY DEF PassOver, Listed
<1>2. QED
  BY <1>1 DEF UpdaterInv, UpdaterTypes, EntriesAreOld, TakenOnce, Remembered, InMemory, LeftOut,
              RetriesBackOff

\* A download that begins is typed and holds no lock.
LEMMA DownloadBegins ==
  ASSUME UpdaterTypes, NEW who \in Callers, NEW id \in Subscriptions, NEW started \in Nat,
         NEW every \in Nat, StartsUpdate(who, id, started, every)
  PROVE  /\ updating' \in [Callers -> Update \cup {NoUpdate}]
         /\ updating'[who].stage = "download" /\ updating'[who].id = id
         /\ updating'[who].started = started /\ updating'[who].every = every
         /\ updating'[who] # NoUpdate
         /\ \A x \in Callers \ {who} : updating'[x] = updating[x]
<1> DEFINE u == [stage |-> "download", id |-> id, started |-> started, every |-> every,
                 before |-> Deleted]
<1>1. u \in Update /\ u.stage = "download" /\ u.id = id /\ u.started = started /\ u.every = every
  BY DEF Update
<1>2. updating' = [updating EXCEPT ![who] = u] /\ updating \in [Callers -> Update \cup {NoUpdate}]
  BY DEF StartsUpdate, UpdaterTypes
<1>3. u # NoUpdate
  BY <1>1, NotAnEntry
<1> HIDE DEF u
<1>4. QED
  BY <1>1, <1>2, <1>3

LEMMA WhenDueKeeps ==
  ASSUME UpdaterInv, NEW p \in pass, UpdateWhenDue(p)
  PROVE  UpdaterInv'
<1> DEFINE u == updating'["loop"]
<1>1. UpdaterTypes /\ EntriesAreOld /\ TakenOnce /\ Remembered /\ RetriesBackOff
  BY DEF UpdaterInv
<1>2. p.id \in Subscriptions /\ p.at \in Nat /\ p.every \in Nat /\ clock \in Nat
  BY <1>1 DEF UpdaterTypes
<1>3. /\ UNCHANGED <<clock, index, failures, streak>> /\ pass' = pass \ {p} /\ Listed' = Listed
      /\ Due(p) /\ StartsUpdate("loop", p.id, clock, p.every)
  BY DEF UpdateWhenDue, Listed
<1>4. /\ updating' \in [Callers -> Update \cup {NoUpdate}]
      /\ u.stage = "download" /\ u.id = p.id /\ u.started = clock /\ u.every = p.every
      /\ u # NoUpdate /\ updating'["hand"] = updating["hand"]
  BY <1>1, <1>2, <1>3, DownloadBegins DEF Callers
<1> HIDE DEF u
<1>5. clock > 0
  BY <1>2, <1>3 DEF Due
<1>6. UpdaterTypes'
  BY <1>1, <1>3, <1>4 DEF UpdaterTypes
<1>7. EntriesAreOld'
  BY <1>1, <1>3, <1>4 DEF EntriesAreOld, Callers, u
<1>8. TakenOnce'
  BY <1>1, <1>3, <1>4, <1>5 DEF TakenOnce, u
<1>9. Remembered'
  <2> SUFFICES ASSUME NEW id \in Subscriptions, streak[id].failed > 0
               PROVE  InMemory(id)' /\ LeftOut(id)'
    BY <1>1, <1>3, <1>4 DEF Remembered, u
  <2>1. InMemory(id) /\ LeftOut(id)
    BY <1>1 DEF Remembered
  <2>2. QED
    BY <1>3, <1>4, <2>1 DEF InMemory, LeftOut, u
<1>10. RetriesBackOff'
  <2>1. ASSUME NEW id \in Subscriptions, u.id = id, streak[id].failed > 0
        PROVE  clock - streak[id].last >= RetryDelay(p.every, streak[id].failed)
    <3>1. InMemory(id) /\ LeftOut(id)
      BY <1>1, <2>1 DEF Remembered
    <3>2. id \in Listed
      BY <1>4, <2>1, <3>1 DEF LeftOut
    <3>3. /\ id \in DOMAIN failures /\ failures[id].last = streak[id].last
          /\ failures[id].count >= streak[id].failed
      BY <3>1, <3>2 DEF InMemory
    <3>4. clock - failures[id].last >= RetryDelay(p.every, failures[id].count)
      BY <1>3, <1>4, <2>1, <3>3 DEF Due
    <3>5. /\ failures[id].count \in Nat /\ failures[id].last \in Nat
          /\ streak[id].failed \in Nat \ {0}
      BY <1>1, <2>1, <3>3 DEF UpdaterTypes
    <3>6. /\ RetryDelay(p.every, streak[id].failed) <= RetryDelay(p.every, failures[id].count)
          /\ RetryDelay(p.every, streak[id].failed) \in Nat
          /\ RetryDelay(p.every, failures[id].count) \in Nat
      BY <1>2, <3>3, <3>5, DelayGrows
    <3>7. QED
      BY <1>2, <3>3, <3>4, <3>5, <3>6
  <2>2. \A id \in Subscriptions : streak[id].told <= 1
    BY <1>1 DEF RetriesBackOff
  <2>3. QED
    BY <1>3, <1>4, <2>1, <2>2 DEF RetriesBackOff, u
<1>11. QED
  BY <1>6, <1>7, <1>8, <1>9, <1>10 DEF UpdaterInv

LEMMA ByHandKeeps ==
  ASSUME UpdaterInv, NEW id \in Subscriptions, UpdateByHand(id)
  PROVE  UpdaterInv'
<1>1. UpdaterTypes /\ EntriesAreOld /\ TakenOnce /\ Remembered /\ RetriesBackOff
  BY DEF UpdaterInv
<1>2. UNCHANGED <<clock, index, failures, pass, streak>> /\ Listed' = Listed
  BY DEF UpdateByHand, Listed
<1>3. /\ updating' \in [Callers -> Update \cup {NoUpdate}]
      /\ updating'["hand"].stage = "download" /\ updating'["loop"] = updating["loop"]
  BY <1>1, DownloadBegins DEF UpdateByHand, Callers
<1>4. UpdaterTypes'
  BY <1>1, <1>2, <1>3 DEF UpdaterTypes
<1>5. EntriesAreOld'
  BY <1>1, <1>2, <1>3 DEF EntriesAreOld, Callers
<1>6. TakenOnce' /\ RetriesBackOff'
  BY <1>1, <1>2, <1>3 DEF TakenOnce, RetriesBackOff
<1>7. Remembered'
  BY <1>1, <1>2, <1>3 DEF Remembered, InMemory, LeftOut
<1>8. QED
  BY <1>4, <1>5, <1>6, <1>7 DEF UpdaterInv

\* A subscription whose streak is over asks nothing of the loop's memory.
LEMMA WaitKeeps == UpdaterInv /\ Wait => UpdaterInv'
<1> SUFFICES ASSUME UpdaterInv, Wait PROVE UpdaterInv'
  OBVIOUS
<1>1. /\ clock' = clock + 1 /\ clock \in Nat /\ Listed' = Listed
      /\ UNCHANGED <<index, failures, pass, updating, streak>>
  BY DEF Wait, ClockMoves, Listed, UpdaterInv, UpdaterTypes
<1>2. \A id \in Listed : index[id].at \in Nat
  BY ListedIsEntry DEF UpdaterInv, IndexEntry
<1>3. UpdaterTypes'
  BY <1>1 DEF UpdaterInv, UpdaterTypes
<1>4. EntriesAreOld' /\ TakenOnce'
  BY <1>1, <1>2 DEF UpdaterInv, EntriesAreOld, TakenOnce
<1>5. Remembered' /\ RetriesBackOff'
  BY <1>1 DEF UpdaterInv, Remembered, InMemory, LeftOut, RetriesBackOff
<1>6. QED
  BY <1>3, <1>4, <1>5 DEF UpdaterInv

LEMMA ChangeIntervalKeeps ==
  ASSUME UpdaterInv, NEW id \in Subscriptions, NEW every \in Intervals \cup {0},
         ChangeInterval(id, every)
  PROVE  UpdaterInv'
<1>1. UpdaterTypes /\ EntriesAreOld /\ TakenOnce /\ Remembered /\ RetriesBackOff
  BY DEF UpdaterInv
<1>2. /\ UNCHANGED <<clock, failures, pass, updating, streak>> /\ id \in Listed
      /\ \A who \in Callers : updating[who].stage # "written"
  BY DEF ChangeInterval, IndexLocked, Callers
<1>3. every \in Nat /\ index[id] \in IndexEntry
  BY <1>1, <1>2, UpdaterBounds, ListedIsEntry
<1> DEFINE new == [index[id] EXCEPT !.every = every]
<1>4. new \in IndexEntry /\ new.at = index[id].at
  BY <1>3 DEF IndexEntry
<1>5. index' = [index EXCEPT ![id] = new]
  BY DEF ChangeInterval
<1> HIDE DEF new
<1>6. /\ index' \in [Subscriptions -> IndexEntry \cup {Deleted}]
      /\ Listed' = Listed /\ \A x \in Listed : index'[x].at = index[x].at
  BY <1>1, <1>2, <1>4, <1>5, NotAnEntry DEF UpdaterTypes, Listed
<1>7. UpdaterTypes'
  BY <1>1, <1>2, <1>6 DEF UpdaterTypes
<1>8. EntriesAreOld' /\ TakenOnce' /\ RetriesBackOff'
  BY <1>1, <1>2, <1>6 DEF EntriesAreOld, TakenOnce, RetriesBackOff
<1>9. Remembered'
  BY <1>1, <1>2, <1>6 DEF Remembered, InMemory, LeftOut
<1>10. QED
  BY <1>7, <1>8, <1>9 DEF UpdaterInv

LEMMA StreakIsOver ==
  NoStreak \in [failed : Nat, last : Nat, told : Nat] /\ NoStreak.failed = 0 /\ NoStreak.told = 0
  BY DEF NoStreak

LEMMA DeleteKeeps ==
  ASSUME UpdaterInv, NEW id \in Subscriptions, DeleteSubscription(id)
  PROVE  UpdaterInv'
<1>1. UpdaterTypes /\ EntriesAreOld /\ TakenOnce /\ Remembered /\ RetriesBackOff
  BY DEF UpdaterInv
<1>2. /\ UNCHANGED <<clock, failures, pass, updating>> /\ id \in Listed
      /\ index' = [index EXCEPT ![id] = Deleted] /\ streak' = [streak EXCEPT ![id] = NoStreak]
      /\ \A who \in Callers : updating[who].stage # "written"
  BY DEF DeleteSubscription, IndexLocked, Callers
<1>3. NoStreak \in [failed : Nat, last : Nat, told : Nat] /\ NoStreak.failed = 0 /\ NoStreak.told = 0
  BY StreakIsOver
<1>4. UpdaterTypes'
  BY <1>1, <1>2, <1>3 DEF UpdaterTypes
<1>5. \A x \in Subscriptions \ {id} : index'[x] = index[x] /\ streak'[x] = streak[x]
  BY <1>1, <1>2 DEF UpdaterTypes
<1>6. /\ Listed' = Listed \ {id} /\ streak'[id] = NoStreak
  BY <1>1, <1>2, <1>5 DEF UpdaterTypes, Listed
<1>7. EntriesAreOld' /\ TakenOnce'
  BY <1>1, <1>2, <1>5, <1>6 DEF EntriesAreOld, TakenOnce, Listed
<1>8. Remembered'
  BY <1>1, <1>2, <1>3, <1>5, <1>6 DEF Remembered, InMemory, LeftOut
<1>9. RetriesBackOff'
  BY <1>1, <1>2, <1>3, <1>5, <1>6 DEF RetriesBackOff
<1>10. QED
  BY <1>4, <1>7, <1>8, <1>9 DEF UpdaterInv

LEMMA RestoreIndexKeeps ==
  ASSUME UpdaterInv, NEW every \in Intervals, RestoreIndex(every)
  PROVE  UpdaterInv'
<1>1. UpdaterTypes /\ EntriesAreOld /\ TakenOnce /\ Remembered /\ RetriesBackOff
  BY DEF UpdaterInv
<1>2. /\ UNCHANGED <<clock, failures, pass, updating>>
      /\ \A who \in Callers : updating[who].stage # "written"
      /\ index' = [id \in Subscriptions |-> [at |-> 0, every |-> every]]
      /\ streak' = [id \in Subscriptions |-> NoStreak]
  BY DEF RestoreIndex, IndexLocked, Callers
<1>3. NoStreak \in [failed : Nat, last : Nat, told : Nat] /\ NoStreak.failed = 0 /\ NoStreak.told = 0
  BY StreakIsOver
<1>4. every \in Nat
  BY UpdaterBounds
<1>5. \A id \in Subscriptions : index'[id] \in IndexEntry /\ index'[id].at = 0 /\ streak'[id] = NoStreak
  BY <1>2, <1>4 DEF IndexEntry
<1>6. UpdaterTypes'
  BY <1>1, <1>2, <1>3, <1>5 DEF UpdaterTypes
<1>7. EntriesAreOld' /\ TakenOnce'
  BY <1>1, <1>2, <1>5 DEF EntriesAreOld, TakenOnce, Listed
<1>8. Remembered' /\ RetriesBackOff'
  BY <1>2, <1>3, <1>5 DEF Remembered, RetriesBackOff
<1>9. QED
  BY <1>6, <1>7, <1>8 DEF UpdaterInv

(******************************* an update's end *****************************)

\* What the end of an update does to who is at work.
LEMMA CallEnds ==
  ASSUME UpdaterTypes, NEW who \in Callers,
         updating' = [updating EXCEPT ![who] = NoUpdate]
  PROVE  /\ updating' \in [Callers -> Update \cup {NoUpdate}]
         /\ updating'[who] = NoUpdate /\ updating'[who].stage = "none"
         /\ \A x \in Callers \ {who} : updating'[x] = updating[x]
  BY DEF UpdaterTypes, NoUpdate

LEMMA AtWork ==
  ASSUME UpdaterTypes, NEW who \in Callers, updating[who].stage \in {"download", "written"}
  PROVE  updating[who] \in Update /\ updating[who] # NoUpdate /\ updating[who].id \in Subscriptions
  BY DEF UpdaterTypes, Update, NoUpdate

LEMMA WriteKeeps ==
  ASSUME UpdaterInv, NEW who \in Callers, NEW every \in Intervals \cup {0}, WriteEntry(who, every)
  PROVE  UpdaterInv'
<1> DEFINE id == updating[who].id
           entry == [at |-> clock, every |-> every]
           u == [updating[who] EXCEPT !.stage = "written", !.before = index[id]]
<1>1. UpdaterTypes /\ EntriesAreOld /\ TakenOnce /\ Remembered /\ RetriesBackOff
  BY DEF UpdaterInv
<1>2. /\ UNCHANGED <<failures, pass>> /\ id \in Listed /\ clock' = clock + 1 /\ clock \in Nat
      /\ updating[who].stage = "download"
      /\ \A x \in Callers : updating[x].stage # "written"
      /\ index' = [index EXCEPT ![id] = entry]
      /\ updating' = [updating EXCEPT ![who].stage = "written", ![who].before = index[id]]
      /\ streak' = [streak EXCEPT ![id] = NoStreak]
  BY <1>1 DEF WriteEntry, IndexLocked, ClockMoves, Callers, UpdaterTypes
<1>3. /\ id \in Subscriptions /\ index[id] \in IndexEntry /\ updating[who] \in Update
      /\ updating[who] # NoUpdate
  BY <1>1, <1>2, ListedIsEntry, AtWork
<1>4. u \in Update /\ u.stage = "written" /\ u.before = index[id] /\ u.id = id
  BY <1>3 DEF Update
<1>5. updating' = [updating EXCEPT ![who] = u]
  BY <1>2
<1>6. u # NoUpdate
  BY <1>4, NotAnEntry
<1>7. every \in Nat
  BY UpdaterBounds
<1>8. entry \in IndexEntry /\ entry.at = clock
  BY <1>2, <1>7 DEF IndexEntry
<1>9. NoStreak \in [failed : Nat, last : Nat, told : Nat] /\ NoStreak.failed = 0 /\ NoStreak.told = 0
  BY StreakIsOver
<1> HIDE DEF entry, u
<1>10. /\ index' \in [Subscriptions -> IndexEntry \cup {Deleted}] /\ index'[id] = entry
       /\ \A x \in Subscriptions \ {id} : index'[x] = index[x]
  BY <1>1, <1>2, <1>3, <1>8 DEF UpdaterTypes
<1>11. /\ updating' \in [Callers -> Update \cup {NoUpdate}] /\ updating'[who] = u
       /\ \A x \in Callers \ {who} : updating'[x] = updating[x]
  BY <1>1, <1>4, <1>5 DEF UpdaterTypes
<1>12. /\ streak' \in [Subscriptions -> [failed : Nat, last : Nat, told : Nat]]
       /\ streak'[id] = NoStreak
       /\ \A x \in Subscriptions \ {id} : streak'[x] = streak[x]
  BY <1>1, <1>2, <1>3, <1>9 DEF UpdaterTypes
<1>13. Listed' = Listed
  BY <1>2, <1>3, <1>8, <1>10, NotAnEntry DEF Listed
<1>14. \A x \in Listed : index[x].at \in Nat
  BY <1>1, ListedIsEntry DEF IndexEntry
<1>15. UpdaterTypes'
  BY <1>1, <1>2, <1>10, <1>11, <1>12 DEF UpdaterTypes
<1> HIDE DEF id
<1>16. EntriesAreOld'
  <2>1. \A x \in Listed' : index'[x].at = 0 \/ index'[x].at < clock'
    BY <1>1, <1>2, <1>3, <1>8, <1>10, <1>13, <1>14 DEF EntriesAreOld, Listed
  <2>2. ASSUME NEW x \in Callers, updating'[x].stage = "written"
        PROVE  /\ updating'[x].id \in Listed' /\ updating'[x].before \in IndexEntry
               /\ updating'[x].before.at <= index'[updating'[x].id].at
    <3>1. x = who
      BY <1>2, <1>11, <2>2
    <3>2. index[id].at <= clock
      BY <1>1, <1>2, <1>14 DEF EntriesAreOld
    <3>3. /\ updating'[x].id = id /\ updating'[x].before = index[id]
          /\ index'[id].at = clock
      BY <1>4, <1>8, <1>10, <1>11, <3>1 DEF id
    <3>4. id \in Listed' /\ index[id] \in IndexEntry
      BY <1>2, <1>3, <1>13 DEF id
    <3>5. QED
      BY <3>2, <3>3, <3>4
  <2>3. \A x \in Callers : updating'[x].stage = "written" => x = who
    BY <1>2, <1>11
  <2>4. QED
    BY <2>1, <2>2, <2>3 DEF EntriesAreOld
<1>17. /\ updating'["loop"].id = updating["loop"].id
       /\ updating'["loop"] # NoUpdate => updating["loop"] # NoUpdate
  BY <1>3, <1>4, <1>6, <1>11 DEF Callers, id
<1>18. TakenOnce'
  <2>1. clock > 0 => clock' > 0
    BY <1>2
  <2>2. pass' = pass
    BY <1>2
  <2>3. QED
    BY <1>1, <1>17, <2>1, <2>2 DEF TakenOnce
<1>19. updating'["loop"].stage = "written" => updating'["loop"].id = id
  BY <1>2, <1>4, <1>11 DEF Callers
<1>20. Remembered'
  <2>1. ASSUME NEW x \in Subscriptions, streak'[x].failed > 0
        PROVE  InMemory(x)' /\ LeftOut(x)'
    <3>1. x # id /\ streak'[x] = streak[x] /\ index'[x] = index[x]
      BY <1>9, <1>10, <1>12, <2>1
    <3>2. InMemory(x) /\ LeftOut(x)
      BY <1>1, <2>1, <3>1 DEF Remembered
    <3>3. QED
      BY <1>2, <1>13, <1>17, <3>1, <3>2 DEF InMemory, LeftOut
  <2>2. \A x \in Subscriptions : streak'[x].failed = 0 => streak'[x].told = 0
    BY <1>1, <1>9, <1>12 DEF Remembered
  <2>3. QED
    BY <1>9, <1>12, <1>19, <2>1, <2>2 DEF Remembered
<1>21. RetriesBackOff'
  <2>1. \A x \in Subscriptions : streak'[x].told <= 1
    BY <1>1, <1>9, <1>12 DEF RetriesBackOff
  <2>2. ASSUME NEW x \in Subscriptions, updating'["loop"].stage = "download",
               updating'["loop"].id = x, streak'[x].failed > 0
        PROVE  updating'["loop"].started - streak'[x].last
                 >= RetryDelay(updating'["loop"].every, streak'[x].failed)
    <3>1. x # id /\ streak'[x] = streak[x]
      BY <1>9, <1>12, <2>2
    <3>2. updating'["loop"] = updating["loop"]
      BY <1>4, <1>11, <2>2 DEF Callers
    <3>3. QED
      BY <1>1, <2>2, <3>1, <3>2 DEF RetriesBackOff
  <2>3. QED
    BY <2>1, <2>2 DEF RetriesBackOff
<1>22. QED
  BY <1>15, <1>16, <1>18, <1>20, <1>21 DEF UpdaterInv

LEMMA SucceedsKeeps ==
  ASSUME UpdaterInv, NEW who \in Callers, UpdateSucceeds(who)
  PROVE  UpdaterInv'
<1> DEFINE id == updating[who].id
<1>1. UpdaterTypes /\ EntriesAreOld /\ TakenOnce /\ Remembered /\ RetriesBackOff
  BY DEF UpdaterInv
<1>2. /\ UNCHANGED <<clock, index, pass, streak>> /\ Listed' = Listed
      /\ updating[who].stage = "written"
  BY DEF UpdateSucceeds, Listed
<1>3. /\ updating' \in [Callers -> Update \cup {NoUpdate}]
      /\ updating'[who] = NoUpdate /\ updating'[who].stage = "none"
      /\ \A x \in Callers \ {who} : updating'[x] = updating[x]
  BY <1>1, CallEnds DEF UpdateSucceeds
<1>4. /\ DOMAIN failures' \subseteq DOMAIN failures
      /\ \A x \in DOMAIN failures' : failures'[x] = failures[x]
      /\ \A x \in DOMAIN failures : x \in DOMAIN failures' \/ (who = "loop" /\ x = id)
  BY DEF UpdateSucceeds, Only
<1>5. UpdaterTypes'
  BY <1>1, <1>2, <1>3, <1>4 DEF UpdaterTypes
<1>6. EntriesAreOld'
  BY <1>1, <1>2, <1>3 DEF EntriesAreOld
<1>7. updating'["loop"] = NoUpdate \/ updating'["loop"] = updating["loop"]
  BY <1>3 DEF Callers
<1>8. TakenOnce' /\ RetriesBackOff'
  BY <1>1, <1>2, <1>7 DEF TakenOnce, RetriesBackOff, NoUpdate
<1>9. Remembered'
  <2>1. ASSUME NEW x \in Subscriptions, streak[x].failed > 0
        PROVE  InMemory(x)' /\ LeftOut(x)'
    <3>1. InMemory(x) /\ LeftOut(x)
      BY <1>1, <2>1 DEF Remembered
    <3>2. ~(who = "loop" /\ x = id)
      BY <1>1, <1>2, <2>1 DEF Remembered
    <3>3. QED
      BY <1>2, <1>4, <1>7, <3>1, <3>2 DEF InMemory, LeftOut
  <2>2. QED
    BY <1>1, <1>2, <1>7, <2>1 DEF Remembered, NoUpdate
<1>10. QED
  BY <1>5, <1>6, <1>8, <1>9 DEF UpdaterInv

\* What a failure of the loop's update leaves: one more in the row, at this instant.
OneMore(id) ==
  /\ DOMAIN failures' = DOMAIN failures \cup {id}
  /\ failures'[id].last = clock /\ failures'[id].count >= streak'[id].failed
  /\ \A x \in DOMAIN failures \ {id} : failures'[x] = failures[x]
  /\ \A x \in DOMAIN failures' : failures'[x] \in [last : Nat, count : Nat \ {0}]
  /\ streak' \in [Subscriptions -> [failed : Nat, last : Nat, told : Nat]]
  /\ streak'[id].failed > 0 /\ streak'[id].last = clock /\ streak'[id].told <= 1
  /\ \A x \in Subscriptions \ {id} : streak'[x] = streak[x]

LEMMA FailureCounts ==
  ASSUME UpdaterInv, updating["loop"].stage \in {"download", "written"},
         Failed(updating["loop"].id, clock)
  PROVE  OneMore(updating["loop"].id)
<1> DEFINE id == updating["loop"].id
           count == IF id \in DOMAIN failures THEN failures[id].count + 1 ELSE 1
           times == streak[id].told + IF count = 1 THEN 1 ELSE 0
           row == [failed |-> streak[id].failed + 1, last |-> clock, told |-> times]
<1>1. UpdaterTypes /\ Remembered /\ RetriesBackOff
  BY DEF UpdaterInv
<1>2. id \in Subscriptions /\ updating["loop"] # NoUpdate
  BY <1>1, AtWork DEF Callers
<1>3. /\ streak[id].failed \in Nat /\ streak[id].told \in Nat /\ clock \in Nat
      /\ count \in Nat \ {0} /\ (id \in DOMAIN failures => failures[id].count \in Nat \ {0})
  BY <1>1, <1>2 DEF UpdaterTypes
<1>4. streak[id].failed > 0 => id \in DOMAIN failures /\ failures[id].count >= streak[id].failed
  <2> SUFFICES ASSUME streak[id].failed > 0
               PROVE  id \in DOMAIN failures /\ failures[id].count >= streak[id].failed
    OBVIOUS
  <2>1. InMemory(id) /\ LeftOut(id)
    BY <1>1, <1>2 DEF Remembered
  <2>2. QED
    BY <1>2, <2>1 DEF InMemory, LeftOut
<1>5. streak[id].failed = 0 => streak[id].told = 0
  BY <1>1, <1>2 DEF Remembered
<1>6. streak[id].told <= 1
  BY <1>1, <1>2 DEF RetriesBackOff
<1>7. times \in Nat /\ times <= 1
  BY <1>3, <1>4, <1>5, <1>6
<1>8. count >= streak[id].failed + 1
  BY <1>3, <1>4
<1>9. /\ failures' = [x \in DOMAIN failures \cup {id} |->
                        IF x = id THEN [last |-> clock, count |-> count] ELSE failures[x]]
      /\ streak' = [streak EXCEPT ![id] = row]
  BY DEF Failed
<1>10. /\ row \in [failed : Nat, last : Nat, told : Nat]
       /\ row.failed = streak[id].failed + 1 /\ row.last = clock /\ row.told = times
  BY <1>3, <1>7
<1> HIDE DEF row, times, count, id
<1>11. /\ streak' \in [Subscriptions -> [failed : Nat, last : Nat, told : Nat]]
       /\ streak'[id] = row /\ \A x \in Subscriptions \ {id} : streak'[x] = streak[x]
  BY <1>1, <1>2, <1>9, <1>10 DEF UpdaterTypes
<1>12. /\ DOMAIN failures' = DOMAIN failures \cup {id}
       /\ failures'[id] = [last |-> clock, count |-> count]
       /\ \A x \in DOMAIN failures \ {id} : failures'[x] = failures[x]
  BY <1>9
<1>13. \A x \in DOMAIN failures' : failures'[x] \in [last : Nat, count : Nat \ {0}]
  BY <1>1, <1>3, <1>12 DEF UpdaterTypes
<1>14. OneMore(id)
  BY <1>3, <1>7, <1>8, <1>10, <1>11, <1>12, <1>13 DEF OneMore
<1>15. QED
  BY <1>14 DEF id

\* The index may be as before or, at one entry, older.
Older(id) ==
  /\ index' \in [Subscriptions -> IndexEntry \cup {Deleted}]
  /\ Listed' = Listed
  /\ \A x \in Subscriptions \ {id} : index'[x] = index[x]
  /\ \A x \in Listed : index'[x].at <= index[x].at

LEMMA RefusedKeeps ==
  ASSUME UpdaterInv, NEW who \in Callers, updating[who].stage \in {"download", "written"},
         Refused(who), pass' = pass, Older(updating[who].id),
         index' = index \/ updating[who].stage = "written"
  PROVE  UpdaterInv'
<1> DEFINE id == updating[who].id
<1>1. UpdaterTypes /\ EntriesAreOld /\ TakenOnce /\ Remembered /\ RetriesBackOff
  BY DEF UpdaterInv
<1>2. /\ updating' \in [Callers -> Update \cup {NoUpdate}]
      /\ updating'[who] = NoUpdate /\ updating'[who].stage = "none"
      /\ \A x \in Callers \ {who} : updating'[x] = updating[x]
  BY <1>1, CallEnds DEF Refused
<1>3. id \in Subscriptions /\ updating[who] # NoUpdate
  BY <1>1, AtWork
<1>4. /\ clock \in Nat /\ clock' \in Nat /\ clock' >= clock
      /\ who # "loop" => UNCHANGED <<clock, failures, streak>>
      /\ who = "loop" => Failed(id, clock) /\ clock' = clock + 1
  BY <1>1 DEF Refused, ClockMoves, UpdaterTypes
<1>5. who = "loop" => OneMore(id)
  BY <1>4, FailureCounts
<1>6. UpdaterTypes'
  BY <1>1, <1>2, <1>4, <1>5 DEF UpdaterTypes, OneMore, Older
<1>7. \A x \in Listed : /\ index[x].at \in Nat /\ index'[x].at \in Nat
                        /\ index'[x].at <= index[x].at
  BY <1>1, <1>6, ListedIsEntry DEF IndexEntry, Older, UpdaterTypes, Listed
<1> HIDE DEF id
<1>8. Listed' = Listed /\ \A x \in Subscriptions \ {id} : index'[x] = index[x]
  BY DEF Older, id
<1>9. EntriesAreOld'
  <2>1. \A x \in Listed' : index'[x].at = 0 \/ index'[x].at < clock'
    BY <1>1, <1>4, <1>7, <1>8 DEF EntriesAreOld
  <2>2. ASSUME NEW x \in Callers, updating'[x].stage = "written"
        PROVE  /\ updating'[x].id \in Listed' /\ updating'[x].before \in IndexEntry
               /\ updating'[x].before.at <= index'[updating'[x].id].at
    <3>1. x # who /\ updating'[x] = updating[x]
      BY <1>2, <2>2
    <3>2. /\ updating[x].id \in Listed /\ updating[x].before \in IndexEntry
          /\ updating[x].before.at <= index[updating[x].id].at
      BY <1>1, <2>2, <3>1 DEF EntriesAreOld
    <3>3. index'[updating[x].id] = index[updating[x].id]
      <4>1. CASE updating[who].stage = "written"
        BY <1>1, <2>2, <3>1, <4>1 DEF EntriesAreOld
      <4>2. CASE index' = index
        BY <4>2
      <4>3. QED
        BY <4>1, <4>2
    <3>4. QED
      BY <1>8, <3>1, <3>2, <3>3
  <2>3. \A x, y \in Callers :
          updating'[x].stage = "written" /\ updating'[y].stage = "written" => x = y
    BY <1>1, <1>2 DEF EntriesAreOld
  <2>4. QED
    BY <2>1, <2>2, <2>3 DEF EntriesAreOld
<1>10. \/ updating'["loop"] = NoUpdate
       \/ who # "loop" /\ updating'["loop"] = updating["loop"]
  BY <1>2 DEF Callers
<1>11. TakenOnce'
  BY <1>1, <1>4, <1>10 DEF TakenOnce
<1>12. ASSUME NEW x \in Subscriptions, streak'[x].failed > 0
       PROVE  InMemory(x)' /\ LeftOut(x)'
  <2>1. CASE who = "loop" /\ x = id
    <3>1. OneMore(x) /\ updating'["loop"] = NoUpdate /\ updating["loop"].id = x
      BY <1>2, <1>5, <2>1 DEF id
    <3>2. x \in Listed => index[x].at < clock
      BY <1>1, <1>3, <1>4, <2>1 DEF EntriesAreOld, TakenOnce
    <3>3. InMemory(x)'
      BY <1>4, <1>7, <1>8, <3>1, <3>2 DEF InMemory, OneMore
    <3>4. \A p \in pass : p.id # x
      BY <1>1, <1>3, <2>1, <3>1 DEF TakenOnce
    <3>5. QED
      BY <1>8, <3>1, <3>3, <3>4 DEF LeftOut
  <2>2. CASE ~(who = "loop" /\ x = id)
    <3>1. /\ streak'[x] = streak[x]
          /\ x \in DOMAIN failures => x \in DOMAIN failures' /\ failures'[x] = failures[x]
      BY <1>4, <1>5, <2>2 DEF OneMore
    <3>2. InMemory(x) /\ LeftOut(x)
      BY <1>1, <1>12, <3>1 DEF Remembered
    <3>3. streak[x].last \in Nat
      BY <1>1 DEF UpdaterTypes
    <3>4. InMemory(x)'
      BY <1>7, <1>8, <3>1, <3>2, <3>3 DEF InMemory
    <3>5. LeftOut(x)'
      BY <1>8, <1>10, <3>2 DEF LeftOut
    <3>6. QED
      BY <3>4, <3>5
  <2>3. QED
    BY <2>1, <2>2
<1>13. Remembered'
  <2>1. ASSUME NEW x \in Subscriptions, streak'[x].failed = 0 PROVE streak'[x].told = 0
    <3>1. streak'[x] = streak[x]
      BY <1>4, <1>5, <2>1 DEF OneMore
    <3>2. QED
      BY <1>1, <2>1, <3>1 DEF Remembered
  <2>2. ASSUME NEW x \in Subscriptions, updating'["loop"].stage = "written",
               updating'["loop"].id = x
        PROVE  streak'[x].failed = 0
    <3>1. who # "loop" /\ updating'["loop"] = updating["loop"]
      BY <1>10, <2>2 DEF NoUpdate
    <3>2. QED
      BY <1>1, <1>4, <2>2, <3>1 DEF Remembered
  <2>3. QED
    BY <1>12, <2>1, <2>2 DEF Remembered
<1>14. RetriesBackOff'
  <2>1. \A x \in Subscriptions : streak'[x].told <= 1
    BY <1>1, <1>4, <1>5 DEF RetriesBackOff, OneMore
  <2>2. ASSUME updating'["loop"].stage = "download"
        PROVE  UNCHANGED streak /\ updating'["loop"] = updating["loop"]
    BY <1>4, <1>10, <2>2 DEF NoUpdate
  <2>3. QED
    BY <1>1, <2>1, <2>2 DEF RetriesBackOff
<1>15. QED
  BY <1>6, <1>9, <1>11, <1>13, <1>14 DEF UpdaterInv

LEMMA FailsKeeps ==
  ASSUME UpdaterInv, NEW who \in Callers, UpdateFails(who)
  PROVE  UpdaterInv'
<1>1. /\ updating[who].stage = "download" /\ Refused(who) /\ pass' = pass /\ index' = index
      /\ Listed' = Listed
  BY DEF UpdateFails, Listed
<1>2. \A x \in Listed : index[x].at <= index[x].at
  BY ListedIsEntry DEF UpdaterInv, IndexEntry
<1>3. Older(updating[who].id)
  BY <1>1, <1>2 DEF Older, UpdaterInv, UpdaterTypes
<1>4. QED
  BY <1>1, <1>3, RefusedKeeps

LEMMA UndoneKeeps ==
  ASSUME UpdaterInv, NEW who \in Callers, UpdateIsUndone(who)
  PROVE  UpdaterInv'
<1> DEFINE id == updating[who].id
           before == updating[who].before
<1>1. /\ updating[who].stage = "written" /\ Refused(who) /\ pass' = pass
      /\ index' = index \/ index' = [index EXCEPT ![id] = before]
  BY DEF UpdateIsUndone
<1>2. /\ id \in Listed /\ id \in Subscriptions /\ before \in IndexEntry /\ index[id] \in IndexEntry
      /\ before.at <= index[id].at
      /\ index \in [Subscriptions -> IndexEntry \cup {Deleted}]
  BY <1>1, ListedIsEntry DEF UpdaterInv, EntriesAreOld, UpdaterTypes
<1> HIDE DEF id, before
<1>3. \A x \in Listed : index[x].at <= index[x].at
  BY ListedIsEntry DEF UpdaterInv, IndexEntry
<1>4. Older(id)
  <2>1. CASE index' = index
    BY <1>2, <1>3, <2>1 DEF Older, Listed
  <2>2. CASE index' = [index EXCEPT ![id] = before]
    BY <1>2, <1>3, <2>2, NotAnEntry DEF Older, Listed
  <2>3. QED
    BY <1>1, <2>1, <2>2
<1>5. QED
  BY <1>1, <1>4, RefusedKeeps DEF id

LEMMA UpdaterKeepsInvariant == UpdaterSpec => []UpdaterInv
<1>1. ASSUME UpdaterInv, [UpdaterNext]_updaterVars PROVE UpdaterInv'
  <2>1. CASE UNCHANGED updaterVars
    BY <1>1, <2>1 DEF updaterVars, UpdaterInv, UpdaterTypes, EntriesAreOld, TakenOnce, Remembered,
       InMemory, LeftOut, RetriesBackOff, Listed
  <2>2. CASE UpdaterNext
    BY <1>1, <2>2, StartPassKeeps, PassOverKeeps, WhenDueKeeps, ByHandKeeps, FailsKeeps,
       WriteKeeps, SucceedsKeeps, UndoneKeeps, ChangeIntervalKeeps, DeleteKeeps,
       RestoreIndexKeeps, WaitKeeps DEF UpdaterNext, Callers
  <2>3. QED
    BY <1>1, <2>1, <2>2
<1>2. QED
  BY <1>1, UpdaterBegins, PTL DEF UpdaterSpec

\* However long the downloads, whatever the intervals, and whatever is updated by hand,
\* deleted or restored meanwhile: the loop tries what keeps failing ever more rarely and
\* shows it once (spawn_updater and retry_delay, profiles.rs:1063-1133).
THEOREM RetriesAreRarer == UpdaterSpec => []RetriesBackOff
<1>1. UpdaterInv => RetriesBackOff
  BY DEF UpdaterInv
<1>2. QED
  BY <1>1, UpdaterKeepsInvariant, PTL

(************************* a restore: the invariant **************************)

\* The files on disk, and the files in a backup.
IsStore(g) ==
  g = [f \in Files |-> g[f]] /\ g[IndexFile] \in Indexes /\ g[SettingsFile] \in StoredSettings
IsBackup(b) ==
  b = [f \in BackedUp |-> b[f]] /\ b[IndexFile] \in Indexes /\ b[SettingsFile] \in StoredSettings

\* A restore that has begun to apply its plan.
Applying == {"write", "reload", "commit", "undo", "resume"}
IsApplied(r) ==
  /\ r \in [phase : Applying, plan : {r.plan}, running : BOOLEAN, before : {r.before},
            settings : StoredSettings, left : SUBSET Files, tried : BOOLEAN, errors : BOOLEAN,
            again : BOOLEAN]
  /\ IsStore(r.before)
IsPlan(g) == IsStore(g) /\ g[RuntimeFile] = RuntimeOf(g)

\* The part of each variable that is data.
StoreType ==
  /\ IsStore(files) /\ IsBackup(whole)
  /\ memory \in StoredSettings \cup {Missing}
  /\ torn \in BOOLEAN /\ dropped \in BOOLEAN /\ told \in BOOLEAN /\ unseen \in BOOLEAN
  /\ mihomo = [state |-> mihomo.state, runs |-> mihomo.runs]

ArchiveType ==
  /\ archive = [id \in BackupIds |-> archive[id]] /\ used \subseteq BackupIds
  /\ \A id \in BackupIds : Readable(archive[id]) => IsBackup(archive[id])

RestoreType ==
  /\ \/ restore = NoRestore
     \/ restore = [phase |-> "status", plan |-> restore.plan]
     \/ IsApplied(restore)
  /\ restore # NoRestore => Alive /\ IsPlan(restore.plan)
  /\ ~Alive => mihomo.state # "up"

\* Unless a restore was cut short, the committed files are there before it writes
\* and in its snapshot while it does.
OldIsWhole ==
  ~torn =>
    /\ restore.phase \in {"none", "status"} =>
         files = Built(whole) /\ memory \in {Missing, whole[SettingsFile]}
    /\ restore.phase \in Applying =>
         restore.before = Built(whole) /\ restore.settings = whole[SettingsFile]

\* What each phase of a restore has done.
Written ==
  restore.phase = "write" =>
    /\ memory = restore.settings
    /\ ~restore.tried /\ ~restore.again /\ ~restore.errors
    /\ \A f \in Files \ restore.left : files[f] = restore.plan[f]
    /\ restore.left # {} => RuntimeFile \in restore.left
    /\ RuntimeFile \in restore.left => files[RuntimeFile] = restore.before[RuntimeFile]
Loaded ==
  restore.phase \in {"reload", "commit"} =>
    /\ memory = restore.plan[SettingsFile] /\ files = restore.plan
    /\ restore.tried = restore.running /\ ~restore.again /\ ~restore.errors
    /\ restore.phase = "reload" => restore.running
Undone ==
  /\ restore.phase = "undo" =>
       /\ memory = restore.settings
       /\ restore.tried => restore.running
       /\ restore.again => told
       /\ ~restore.errors => \A f \in Files \ restore.left : files[f] = restore.before[f]
       /\ ~restore.tried => files[RuntimeFile] = restore.before[RuntimeFile]
  /\ restore.phase = "resume" =>
       memory = restore.settings /\ files = restore.before /\ restore.running

\* The old configuration is in the archive under an id that was taken.
OldIsKept ==
  (torn \/ restore # NoRestore) /\ ~dropped => \E id \in used : archive[id] = whole

\* What a running core runs, by phase.
CoreFollows ==
  mihomo.state = "up" =>
    /\ restore.phase \in {"none", "status"} /\ ~torn /\ ~told /\ ~unseen =>
         mihomo.runs = files[RuntimeFile]
    /\ restore.phase \in {"write", "commit", "undo"} /\ ~restore.running => unseen
    /\ restore.phase = "commit" /\ restore.running => mihomo.runs = files[RuntimeFile]
    /\ /\ \/ restore.phase = "write" /\ RuntimeFile \in restore.left
          \/ restore.phase = "undo" /\ ~restore.tried
       /\ ~torn /\ ~told /\ ~unseen
       => mihomo.runs = restore.before[RuntimeFile]

RestoreInv ==
  /\ StoreType /\ ArchiveType /\ RestoreType
  /\ OldIsWhole /\ Written /\ Loaded /\ Undone /\ OldIsKept /\ CoreFollows

(***************************** files and backups *****************************)

\* No two of the names stand for one file.
LEMMA FilesDiffer ==
  /\ IndexFile # SettingsFile /\ IndexFile # RuntimeFile /\ SettingsFile # RuntimeFile
  /\ \A p : BodyFile(p) \notin {IndexFile, SettingsFile, RuntimeFile}
  BY DEF IndexFile, SettingsFile, RuntimeFile, BodyFile

LEMMA FilesAre ==
  /\ IndexFile \in BackedUp /\ SettingsFile \in BackedUp /\ RuntimeFile \notin BackedUp
  /\ BackedUp \subseteq Files /\ RuntimeFile \in Files
  /\ \A f \in Files : f # RuntimeFile => f \in BackedUp
  /\ \A p \in Profiles : BodyFile(p) \in BackedUp
  BY FilesDiffer DEF BackedUp, Files

\* Nothing that is stored is the mark of what is not there.
LEMMA StoredIsThere ==
  (\A x \in Indexes : x # Missing) /\ (\A x \in StoredSettings : x # Missing)
  BY MissingIsNoContent

\* The runtime depends on the files that are backed up.
LEMMA RuntimeOfBackedUp ==
  ASSUME NEW g, NEW h, g[IndexFile] \in Indexes, \A f \in BackedUp : g[f] = h[f]
  PROVE  RuntimeOf(g) = RuntimeOf(h)
<1>1. g[IndexFile] = h[IndexFile] /\ g[SettingsFile] = h[SettingsFile]
  BY FilesAre
<1>2. g[IndexFile].current \in Profiles \cup {Missing}
  BY DEF Indexes
<1>3. g[IndexFile].current # Missing =>
        g[BodyFile(g[IndexFile].current)] = h[BodyFile(h[IndexFile].current)]
  BY <1>1, <1>2, FilesAre
<1> QED
  BY <1>1, <1>3 DEF RuntimeOf

LEMMA BuiltIsPlan ==
  ASSUME NEW g, g[IndexFile] \in Indexes, g[SettingsFile] \in StoredSettings
  PROVE  IsPlan(Built(g)) /\ \A f \in BackedUp : Built(g)[f] = g[f]
<1>1. \A f \in BackedUp : Built(g)[f] = g[f]
  BY FilesAre DEF Built
<1>2. Built(g)[RuntimeFile] = RuntimeOf(g)
  BY FilesAre DEF Built
<1>3. RuntimeOf(g) = RuntimeOf(Built(g))
  BY <1>1, RuntimeOfBackedUp
<1>4. Built(g) = [f \in Files |-> Built(g)[f]]
  BY DEF Built
<1> QED
  BY <1>1, <1>2, <1>3, <1>4, FilesAre DEF IsPlan, IsStore

\* A store whose files were backed up as b is b with its runtime.
LEMMA BuiltAgain ==
  ASSUME NEW g, IsStore(g), NEW b, IsBackup(b), \A f \in BackedUp : g[f] = b[f],
         g[RuntimeFile] = RuntimeOf(g)
  PROVE  g = Built(b)
<1>1. RuntimeOf(g) = RuntimeOf(b)
  BY RuntimeOfBackedUp DEF IsStore
<1>2. \A f \in Files : g[f] = Built(b)[f]
  BY <1>1, FilesAre DEF Built
<1> QED
  BY <1>2 DEF IsStore, Built

LEMMA SnapshotIsBackup ==
  ASSUME NEW g, IsStore(g)
  PROVE  IsBackup(Snapshot(g)) /\ \A f \in BackedUp : Snapshot(g)[f] = g[f]
  BY FilesAre, StoredIsThere DEF IsStore, IsBackup, Snapshot

LEMMA SnapshotOfBackup ==
  ASSUME NEW b, IsBackup(b)
  PROVE  Snapshot(b) = b
<1>1. \A f \in BackedUp : Snapshot(b)[f] = b[f]
  BY FilesAre, StoredIsThere DEF IsBackup, Snapshot
<1> QED
  BY <1>1 DEF IsBackup, Snapshot

LEMMA SnapshotOfBuilt ==
  ASSUME NEW b, IsBackup(b)
  PROVE  Snapshot(Built(b)) = b
<1>1. IsStore(Built(b)) /\ \A f \in BackedUp : Built(b)[f] = b[f]
  BY BuiltIsPlan DEF IsBackup, IsPlan
<1>2. \A f \in BackedUp : Snapshot(Built(b))[f] = b[f]
  BY <1>1, SnapshotIsBackup
<1> QED
  BY <1>2 DEF IsBackup, Snapshot

LEMMA ContentsIsBackup ==
  ASSUME NEW c \in Configurations \cup Imported, NEW port \in Ports
  PROVE  IsBackup(Contents(c, port))
<1>1. IsConfiguration(c)
  BY ConfigurationsAreWhole
<1>2. Contents(c, port)[IndexFile] = c.index
  BY FilesAre, FilesDiffer DEF Contents
<1>3. Contents(c, port)[SettingsFile] = [theme |-> c.theme, port |-> port]
  BY FilesAre, FilesDiffer DEF Contents
<1>4. [theme |-> c.theme, port |-> port] \in StoredSettings
  BY DEF StoredSettings
<1>5. Contents(c, port) = [f \in BackedUp |-> Contents(c, port)[f]]
  BY DEF Contents
<1> QED
  BY <1>1, <1>2, <1>3, <1>4, <1>5 DEF IsBackup, IsConfiguration

LEMMA PlanIsPlan ==
  ASSUME NEW b, IsBackup(b), memory \in StoredSettings
  PROVE  IsPlan(Plan(b))
<1> DEFINE kept == [theme |-> b[SettingsFile].theme, port |-> memory.port]
           restored == [b EXCEPT ![SettingsFile] = kept]
<1>1. kept \in StoredSettings
  BY DEF IsBackup, StoredSettings
<1>2. restored[SettingsFile] = kept /\ restored[IndexFile] = b[IndexFile]
  BY FilesAre, FilesDiffer DEF IsBackup
<1> QED
  BY <1>1, <1>2, BuiltIsPlan DEF Plan, IsBackup

\* What Fails leaves of a restore's record.
LEMMA FailsIs ==
  ASSUME NEW r, IsApplied(r), NEW u, u \in {Fails(r), [Fails(r) EXCEPT !.again = TRUE]}
  PROVE  /\ IsApplied(u) /\ u.phase = "undo" /\ u.plan = r.plan /\ u.running = r.running
         /\ u.before = r.before /\ u.settings = r.settings /\ u.tried = r.tried
         /\ ~u.errors /\ (u = Fails(r) => u.again = r.again)
         /\ \A f \in Files \ u.left : files[f] = u.before[f]
<1> DEFINE L == {f \in Files : files[f] # r.before[f]}
<1>1. L \subseteq Files /\ \A f \in Files \ L : files[f] = r.before[f]
  OBVIOUS
<1> HIDE DEF L
<1>2. "undo" \in Applying
  BY DEF Applying
<1>3. Fails(r) = [r EXCEPT !.phase = "undo", !.left = L, !.errors = FALSE]
  BY DEF Fails, L
<1>4. CASE u = Fails(r)
  BY <1>1, <1>2, <1>3, <1>4 DEF IsApplied
<1>5. CASE u = [Fails(r) EXCEPT !.again = TRUE]
  BY <1>1, <1>2, <1>3, <1>5 DEF IsApplied
<1> QED
  BY <1>4, <1>5

LEMMA NoRestoreIs == NoRestore.phase = "none" /\ NoRestore.phase \notin Applying
  BY DEF NoRestore, Applying

LEMMA Phases ==
  ASSUME RestoreType
  PROVE  /\ restore = NoRestore \/ restore.phase = "status" \/ restore.phase \in Applying
         /\ restore # NoRestore => restore.phase # "none"
         /\ restore.phase \in Applying => IsApplied(restore)
  BY NoRestoreIs DEF RestoreType, Applying, IsApplied

(***************************** steps of a restore ****************************)

LEMMA InitMeets == BackupInit => RestoreInv
<1> SUFFICES ASSUME NEW c \in Configurations, NEW port \in Ports, NEW core \in {"off", "up"},
                    StartsWith(c, port, core)
             PROVE  RestoreInv
  BY DEF BackupInit
<1>1. IsBackup(whole)
  BY ContentsIsBackup DEF StartsWith
<1>2. IsStore(files) /\ files = Built(whole)
  BY <1>1, BuiltIsPlan DEF StartsWith, IsBackup, IsPlan
<1>3. StoreType
  BY <1>1, <1>2 DEF StoreType, StartsWith, IsBackup, Up, NotUp
<1>4. ArchiveType
  BY DEF ArchiveType, StartsWith, NoBackups, Readable
<1>5. RestoreType /\ OldIsWhole /\ Written /\ Loaded /\ Undone /\ OldIsKept
  BY <1>1, <1>2, NoRestoreIs, StoredIsThere
  DEF RestoreType, OldIsWhole, Written, Loaded, Undone, OldIsKept, StartsWith, NoRestore,
      Applying, IsBackup, Alive
<1>6. CoreFollows
  BY DEF CoreFollows, StartsWith, Up, NotUp, NoRestore
<1> QED
  BY <1>3, <1>4, <1>5, <1>6 DEF RestoreInv

\* A command on the archive.
LEMMA ArchiveKeeps ==
  ASSUME RestoreInv, ArchiveType', OldIsKept', dropped' \in BOOLEAN,
         UNCHANGED <<files, memory, mihomo, restore, whole, torn, told, unseen>>
  PROVE  RestoreInv'
<1>1. StoreType' /\ RestoreType'
  BY DEF RestoreInv, StoreType, RestoreType, Alive, IsStore
<1>2. OldIsWhole' /\ Written' /\ Loaded' /\ Undone' /\ CoreFollows'
  BY DEF RestoreInv, OldIsWhole, Written, Loaded, Undone, CoreFollows
<1> QED
  BY <1>1, <1>2 DEF RestoreInv

\* A backup under a new id.
LEMMA ArchivedIsKept ==
  ASSUME ArchiveType, NEW id \in BackupIds, NEW b, IsBackup(b), Archive(id, b)
  PROVE  /\ ArchiveType' /\ archive'[id] = b /\ id \in used'
         /\ used \subseteq used' /\ \A i \in used : archive'[i] = archive[i]
  BY DEF ArchiveType, Archive, Readable

\* A backup that is lost; the others stay.
LEMMA LostIsLost ==
  ASSUME RestoreInv, NEW id \in BackupIds, Discard(id) \/ Spoil(id), Loses(id),
         UNCHANGED <<restore, whole, torn>>
  PROVE  ArchiveType' /\ OldIsKept' /\ dropped' \in BOOLEAN
<1>1. /\ UNCHANGED used /\ ~Readable(archive'[id])
      /\ \A i \in BackupIds : i # id => archive'[i] = archive[i]
      /\ archive' = [i \in BackupIds |-> archive'[i]]
  BY DEF Discard, Spoil, RestoreInv, ArchiveType, Readable
<1>2. ArchiveType' /\ dropped' \in BOOLEAN
  BY <1>1 DEF RestoreInv, ArchiveType, StoreType, Loses
<1>3. Snapshot(whole) = whole
  BY SnapshotOfBackup DEF RestoreInv, StoreType
<1>4. OldIsKept'
  <2> SUFFICES ASSUME torn \/ restore # NoRestore, ~dropped'
               PROVE  \E i \in used : archive'[i] = whole
    BY <1>1 DEF OldIsKept
  <2>1. ~dropped /\ archive[id] # whole
    BY <1>3 DEF Loses
  <2>2. PICK i \in used : archive[i] = whole
    BY <2>1 DEF RestoreInv, OldIsKept
  <2> QED
    BY <1>1, <2>1, <2>2 DEF RestoreInv, ArchiveType
<1> QED
  BY <1>2, <1>4

LEMMA ArchiveCommandKeeps == RestoreInv /\ ArchiveCommand => RestoreInv'
<1> SUFFICES ASSUME RestoreInv, ArchiveCommand PROVE RestoreInv'
  OBVIOUS
<1> USE DEF RestoreInv
<1>1. ASSUME NEW id \in BackupIds, NEW b, IsBackup(b), Archive(id, b),
             UNCHANGED <<files, memory, mihomo, restore, ghosts, mishapsSoFar>>
      PROVE  RestoreInv'
  <2>1. ArchiveType'
    BY <1>1, ArchivedIsKept
  <2>2. OldIsKept'
    BY <1>1, ArchivedIsKept DEF OldIsKept, ghosts
  <2> QED
    BY <1>1, <2>1, <2>2, ArchiveKeeps DEF ghosts, StoreType
<1>2. CASE \E id \in BackupIds : Create(id)
  BY <1>1, <1>2, SnapshotIsBackup DEF Create, StoreType
<1>3. CASE \E id \in BackupIds, c \in Imported, port \in Ports : Import(id, Contents(c, port))
  BY <1>1, <1>3, ContentsIsBackup DEF Import
<1>4. CASE \E id \in BackupIds : Delete(id) \/ Damage(id)
  <2>1. PICK id \in BackupIds : Delete(id) \/ Damage(id)
    BY <1>4
  <2>2. ArchiveType' /\ OldIsKept' /\ dropped' \in BOOLEAN
    BY <2>1, LostIsLost DEF Delete, Damage
  <2> QED
    BY <2>1, <2>2, ArchiveKeeps DEF Delete, Damage
<1> QED
  BY <1>2, <1>3, <1>4 DEF ArchiveCommand

\* A command that leaves everything committed: Edit.
LEMMA EditKeeps ==
  ASSUME RestoreInv, NEW c \in Configurations, NEW port \in Ports, Edit(c, port)
  PROVE  RestoreInv'
<1>1. /\ whole' = Contents(c, port) /\ files' = Built(whole') /\ memory' = whole'[SettingsFile]
      /\ restore = NoRestore /\ ~torn /\ UNCHANGED <<archive, restore, used, torn, dropped>>
      /\ told' = (told /\ mihomo.state # "up") /\ unseen' = (unseen /\ mihomo.state # "up")
      /\ mihomo' = IF mihomo.state = "up" THEN Up(files'[RuntimeFile]) ELSE mihomo
  BY DEF Edit, Unlocked
<1>2. IsBackup(whole')
  BY <1>1, ContentsIsBackup
<1>3. IsStore(files')
  BY <1>1, <1>2, BuiltIsPlan DEF IsBackup, IsPlan
<1>4. memory' \in StoredSettings /\ memory' # Missing
  BY <1>1, <1>2, StoredIsThere DEF IsBackup
<1>5. mihomo' = [state |-> mihomo'.state, runs |-> mihomo'.runs]
  BY <1>1 DEF RestoreInv, StoreType, Up
<1>6. StoreType' /\ ArchiveType'
  BY <1>1, <1>2, <1>3, <1>4, <1>5 DEF RestoreInv, StoreType, ArchiveType
<1>7. RestoreType' /\ OldIsWhole' /\ Written' /\ Loaded' /\ Undone' /\ OldIsKept'
  BY <1>1, <1>4, NoRestoreIs
  DEF RestoreType, OldIsWhole, Written, Loaded, Undone, OldIsKept, Alive, NoRestore
<1>8. CoreFollows'
  BY <1>1, NoRestoreIs DEF RestoreInv, CoreFollows, Up, NoRestore
<1> QED
  BY <1>6, <1>7, <1>8 DEF RestoreInv

LEMMA RestoreKeeps ==
  ASSUME RestoreInv, NEW id \in BackupIds, NEW safety \in BackupIds, Restore(id, safety)
  PROVE  RestoreInv'
<1>1. /\ restore = NoRestore /\ Alive /\ IsValid(archive[id])
      /\ Archive(safety, Snapshot(files))
      /\ restore' = [phase |-> "status", plan |-> Plan(archive[id])]
      /\ dropped' = (dropped /\ torn)
      /\ UNCHANGED <<files, memory, mihomo, whole, torn, told, unseen>>
  BY DEF Restore, Unlocked
<1>2. restore'.phase = "status" /\ restore'.plan = Plan(archive[id])
  BY <1>1
<1>3. IsPlan(restore'.plan)
  BY <1>1, <1>2, PlanIsPlan DEF RestoreInv, StoreType, ArchiveType, IsValid, Alive
<1>4. IsBackup(Snapshot(files))
  BY SnapshotIsBackup DEF RestoreInv, StoreType
<1>5. ArchiveType' /\ archive'[safety] = Snapshot(files) /\ safety \in used'
      /\ used \subseteq used' /\ \A i \in used : archive'[i] = archive[i]
  BY <1>1, <1>4, ArchivedIsKept DEF RestoreInv
<1>6. OldIsKept'
  <2>1. CASE torn
    BY <1>1, <1>5, <2>1 DEF RestoreInv, OldIsKept
  <2>2. CASE ~torn
    <3>1. files = Built(whole)
      BY <1>1, <2>2, NoRestoreIs DEF RestoreInv, OldIsWhole
    <3>2. Snapshot(files) = whole
      BY <3>1, SnapshotOfBuilt DEF RestoreInv, StoreType
    <3> QED
      BY <1>1, <1>5, <3>2 DEF OldIsKept
  <2> QED
    BY <2>1, <2>2
<1>7. StoreType' /\ RestoreType'
  BY <1>1, <1>2, <1>3 DEF RestoreInv, StoreType, RestoreType, Alive
<1>8. OldIsWhole' /\ Written' /\ Loaded' /\ Undone' /\ CoreFollows'
  BY <1>1, <1>2, NoRestoreIs
  DEF RestoreInv, OldIsWhole, Written, Loaded, Undone, CoreFollows, Applying
<1> QED
  BY <1>5, <1>6, <1>7, <1>8 DEF RestoreInv

LEMMA StatusKeeps == RestoreInv /\ Status => RestoreInv'
<1> SUFFICES ASSUME RestoreInv, Status PROVE RestoreInv'
  OBVIOUS
<1> DEFINE L == {f \in BackedUp : files[f] # restore.plan[f]}
<1>1. /\ Alive /\ restore.phase = "status" /\ restore' = Applies(L)
      /\ UNCHANGED <<files, memory, mihomo, archive, used, whole, torn, dropped, told, unseen>>
  BY DEF Status, ghosts
<1>2. /\ L \cup {RuntimeFile} \subseteq Files
      /\ \A f \in Files \ (L \cup {RuntimeFile}) : files[f] = restore.plan[f]
  BY FilesAre
<1> HIDE DEF L
<1>3. /\ restore'.phase = "write" /\ restore'.plan = restore.plan
      /\ restore'.running = (mihomo.state = "up") /\ restore'.before = files
      /\ restore'.settings = memory /\ restore'.left = L \cup {RuntimeFile}
      /\ restore'.tried = FALSE /\ restore'.errors = FALSE /\ restore'.again = FALSE
  BY <1>1 DEF Applies
<1>4. restore # NoRestore
  BY <1>1, NoRestoreIs
<1>5. IsApplied(restore')
  BY <1>1, <1>2, <1>3 DEF RestoreInv, StoreType, IsApplied, Applying, Applies, Alive
<1>6. StoreType' /\ ArchiveType' /\ RestoreType'
  BY <1>1, <1>3, <1>4, <1>5 DEF RestoreInv, StoreType, ArchiveType, RestoreType, Alive
<1>7. OldIsWhole'
  BY <1>1, <1>3 DEF RestoreInv, OldIsWhole, Alive, Applying
<1>8. Written' /\ Loaded' /\ Undone' /\ OldIsKept'
  BY <1>1, <1>2, <1>3, <1>4 DEF RestoreInv, Written, Loaded, Undone, OldIsKept
<1>9. CoreFollows'
  BY <1>1, <1>3 DEF RestoreInv, CoreFollows
<1> QED
  BY <1>6, <1>7, <1>8, <1>9 DEF RestoreInv

\* The runtime file is written last.
LEMMA RuntimeIsLast ==
  ASSUME NEW left \in SUBSET Files, NEW f, IsFirst(f, left)
  PROVE  f = RuntimeFile => left = {f}
<1> SUFFICES ASSUME f = RuntimeFile, NEW g \in left PROVE g = f
  BY DEF IsFirst
<1>1. Turn(f) = 4 /\ Turn(f) <= Turn(g)
  BY FilesDiffer DEF Turn, IsFirst
<1>2. g # RuntimeFile => Turn(g) \in {1, 2, 3}
  BY FilesDiffer DEF Turn
<1> QED
  BY <1>1, <1>2

LEMMA StoreWith ==
  ASSUME NEW g, IsStore(g), NEW h, IsStore(h), NEW f \in Files
  PROVE  /\ IsStore([g EXCEPT ![f] = h[f]]) /\ [g EXCEPT ![f] = h[f]][f] = h[f]
         /\ \A x \in Files : x # f => [g EXCEPT ![f] = h[f]][x] = g[x]
  BY FilesAre, FilesDiffer DEF IsStore

\* A step of a restore that fails: what was written is to be undone.
LEMMA FailureKeeps ==
  ASSUME RestoreInv, restore.phase \in {"write", "reload"},
         restore.phase = "write" => RuntimeFile \in restore.left /\ UNCHANGED <<memory, mihomo>>,
         restore.phase = "reload" =>
           memory' = restore.settings /\ mihomo' \in {mihomo, Up(files[RuntimeFile])},
         restore' = Fails(restore), UNCHANGED <<files, archive, used, ghosts>>
  PROVE  RestoreInv'
<1>1. IsApplied(restore) /\ restore # NoRestore
  BY Phases, NoRestoreIs DEF RestoreInv, Applying
<1>2. /\ IsApplied(restore') /\ restore'.phase = "undo" /\ restore'.plan = restore.plan
      /\ restore'.running = restore.running /\ restore'.before = restore.before
      /\ restore'.settings = restore.settings /\ restore'.tried = restore.tried
      /\ ~restore'.errors /\ restore'.again = restore.again
      /\ \A f \in Files \ restore'.left : files[f] = restore'.before[f]
  BY <1>1, FailsIs
<1>3. /\ restore.phase = "write" => ~restore.tried /\ memory = restore.settings
                                    /\ files[RuntimeFile] = restore.before[RuntimeFile]
      /\ restore.phase = "reload" => restore.tried /\ restore.running
      /\ ~restore.again
  BY <1>1 DEF RestoreInv, Written, Loaded, IsApplied
<1>4. mihomo' = [state |-> mihomo'.state, runs |-> mihomo'.runs]
  BY DEF RestoreInv, StoreType, Up
<1>5. memory' = restore.settings /\ memory' \in StoredSettings /\ memory' # Missing
  BY <1>1, <1>3, StoredIsThere DEF IsApplied
<1>6. StoreType' /\ ArchiveType'
  BY <1>4, <1>5 DEF RestoreInv, StoreType, ArchiveType, ghosts
<1>7. RestoreType'
  BY <1>1, <1>2, <1>5 DEF RestoreInv, RestoreType, Alive
<1>8. OldIsWhole' /\ OldIsKept'
  BY <1>1, <1>2 DEF RestoreInv, OldIsWhole, OldIsKept, ghosts, IsApplied, Applying
<1>9. Written' /\ Loaded' /\ Undone'
  BY <1>2, <1>3, <1>5 DEF Written, Loaded, Undone
<1>10. CoreFollows'
  BY <1>2, <1>3 DEF RestoreInv, CoreFollows, ghosts
<1> QED
  BY <1>6, <1>7, <1>8, <1>9, <1>10 DEF RestoreInv

\* What an action on the record of a restore under way starts from.
LEMMA UnderWay ==
  ASSUME RestoreInv, restore.phase \in Applying
  PROVE  IsApplied(restore) /\ restore # NoRestore /\ IsPlan(restore.plan) /\ memory # Missing
  BY Phases, NoRestoreIs DEF RestoreInv, RestoreType, Alive

LEMMA WriteFileKeeps == RestoreInv /\ WriteFile => RestoreInv'
<1> SUFFICES ASSUME RestoreInv, WriteFile PROVE RestoreInv'
  OBVIOUS
<1>1. restore.phase = "write" /\ Alive /\ UNCHANGED <<memory, mihomo, archive, used, ghosts>>
  BY DEF WriteFile
<1>2. IsApplied(restore) /\ restore # NoRestore /\ IsPlan(restore.plan)
  BY <1>1, UnderWay DEF Applying
<1>3. PICK f \in Files :
        /\ IsFirst(f, restore.left)
        /\ \/ /\ files' = [files EXCEPT ![f] = restore.plan[f]]
              /\ restore' = [restore EXCEPT !.left = @ \ {f}]
           \/ UNCHANGED files /\ restore' = Fails(restore)
  BY DEF WriteFile
<1>4. RuntimeFile \in restore.left /\ restore.left \subseteq Files
  BY <1>1, <1>2, <1>3 DEF RestoreInv, Written, IsFirst, IsApplied
<1>5. CASE UNCHANGED files /\ restore' = Fails(restore)
  BY <1>1, <1>4, <1>5, FailureKeeps
<1>6. CASE /\ files' = [files EXCEPT ![f] = restore.plan[f]]
           /\ restore' = [restore EXCEPT !.left = @ \ {f}]
  <2>1. /\ IsApplied(restore') /\ restore'.phase = "write" /\ restore'.plan = restore.plan
        /\ restore'.running = restore.running /\ restore'.before = restore.before
        /\ restore'.settings = restore.settings /\ restore'.tried = restore.tried
        /\ restore'.errors = restore.errors /\ restore'.again = restore.again
        /\ restore'.left = restore.left \ {f}
    BY <1>1, <1>2, <1>6 DEF IsApplied
  <2>2. IsStore(files') /\ files'[f] = restore.plan[f]
        /\ \A x \in Files : x # f => files'[x] = files[x]
    <3>1. IsStore(files) /\ IsStore(restore.plan)
      BY <1>2 DEF RestoreInv, StoreType, IsPlan
    <3>2. LET new == [files EXCEPT ![f] = restore.plan[f]] IN
          /\ IsStore(new) /\ new[f] = restore.plan[f]
          /\ \A x \in Files : x # f => new[x] = files[x]
      BY <3>1, StoreWith
    <3> QED
      BY <3>2, <1>6
  <2>3. f = RuntimeFile => restore.left = {f}
    BY <1>3, <1>4, RuntimeIsLast
  <2>4. StoreType' /\ ArchiveType'
    BY <1>1, <2>2 DEF RestoreInv, StoreType, ArchiveType, ghosts
  <2>5. RestoreType'
    BY <1>1, <1>2, <2>1 DEF RestoreInv, RestoreType, Alive
  <2>6. OldIsWhole' /\ OldIsKept'
    BY <1>1, <1>2, <2>1 DEF RestoreInv, OldIsWhole, OldIsKept, ghosts, Applying
  <2>7. Written'
    BY <1>1, <1>4, <2>1, <2>2, <2>3, FilesAre DEF RestoreInv, Written
  <2>8. Loaded' /\ Undone'
    BY <2>1 DEF Loaded, Undone
  <2>9. CoreFollows'
    BY <1>1, <1>4, <2>1, <2>3 DEF RestoreInv, CoreFollows, ghosts
  <2> QED
    BY <2>4, <2>5, <2>6, <2>7, <2>8, <2>9 DEF RestoreInv
<1> QED
  BY <1>3, <1>5, <1>6

LEMMA SetMemoryKeeps == RestoreInv /\ SetMemory => RestoreInv'
<1> SUFFICES ASSUME RestoreInv, SetMemory PROVE RestoreInv'
  OBVIOUS
<1>1. /\ restore.phase = "write" /\ restore.left = {} /\ memory' = restore.plan[SettingsFile]
      /\ UNCHANGED <<files, mihomo, archive, used, ghosts>>
  BY DEF SetMemory
<1>2. IsApplied(restore) /\ restore # NoRestore /\ IsPlan(restore.plan)
  BY <1>1, UnderWay DEF Applying
<1> DEFINE next == IF restore.running THEN "reload" ELSE "commit"
<1>3. next \in Applying
  BY DEF Applying
<1>4. restore' = [restore EXCEPT !.phase = next, !.tried = restore.running]
  BY DEF SetMemory
<1> HIDE DEF next
<1>5. /\ IsApplied(restore') /\ restore'.phase = next /\ restore'.plan = restore.plan
      /\ restore'.running = restore.running /\ restore'.before = restore.before
      /\ restore'.settings = restore.settings /\ restore'.tried = restore.running
      /\ restore'.errors = restore.errors /\ restore'.again = restore.again
  BY <1>2, <1>3, <1>4 DEF IsApplied
<1>6. next \in {"reload", "commit"} /\ (next = "reload" <=> restore.running)
  BY DEF next
<1>7. files = restore.plan
  BY <1>1, <1>2 DEF RestoreInv, Written, StoreType, IsPlan, IsStore
<1>8. memory' \in StoredSettings /\ memory' # Missing
  BY <1>1, <1>2, StoredIsThere DEF IsPlan, IsStore
<1>9. StoreType' /\ ArchiveType'
  BY <1>1, <1>8 DEF RestoreInv, StoreType, ArchiveType, ghosts
<1>10. RestoreType'
  BY <1>1, <1>2, <1>5, <1>8 DEF RestoreInv, RestoreType, Alive
<1>11. OldIsWhole' /\ OldIsKept'
  BY <1>1, <1>2, <1>3, <1>5, <1>6 DEF RestoreInv, OldIsWhole, OldIsKept, ghosts, Applying
<1>12. Written' /\ Loaded' /\ Undone'
  BY <1>1, <1>5, <1>6, <1>7 DEF RestoreInv, Written, Loaded, Undone
<1>13. CoreFollows'
  BY <1>1, <1>5, <1>6 DEF RestoreInv, CoreFollows, ghosts
<1> QED
  BY <1>9, <1>10, <1>11, <1>12, <1>13 DEF RestoreInv

LEMMA ReloadKeeps == RestoreInv /\ Reload => RestoreInv'
<1> SUFFICES ASSUME RestoreInv, Reload PROVE RestoreInv'
  OBVIOUS
<1>1. restore.phase = "reload" /\ UNCHANGED <<files, archive, used, ghosts>>
  BY DEF Reload
<1>2. IsApplied(restore) /\ restore # NoRestore /\ IsPlan(restore.plan)
  BY <1>1, UnderWay DEF Applying
<1>3. CASE /\ memory' = restore.settings /\ mihomo' \in {mihomo, Up(files[RuntimeFile])}
           /\ restore' = Fails(restore)
  BY <1>1, <1>3, FailureKeeps
<1>4. CASE /\ mihomo' = IF mihomo.state = "up" THEN Up(files[RuntimeFile]) ELSE mihomo
           /\ restore' = [restore EXCEPT !.phase = "commit"] /\ UNCHANGED memory
  <2>1. /\ IsApplied(restore') /\ restore'.phase = "commit" /\ restore'.plan = restore.plan
        /\ restore'.running = restore.running /\ restore'.before = restore.before
        /\ restore'.settings = restore.settings /\ restore'.tried = restore.tried
        /\ restore'.errors = restore.errors /\ restore'.again = restore.again
    BY <1>2, <1>4 DEF IsApplied, Applying
  <2>2. mihomo' = [state |-> mihomo'.state, runs |-> mihomo'.runs]
        /\ (mihomo'.state = "up" => mihomo'.runs = files[RuntimeFile])
        /\ (mihomo'.state = "up" <=> mihomo.state = "up")
    BY <1>4 DEF RestoreInv, StoreType, Up
  <2>3. StoreType' /\ ArchiveType'
    BY <1>1, <1>4, <2>2 DEF RestoreInv, StoreType, ArchiveType, ghosts
  <2>4. RestoreType'
    BY <1>2, <1>4, <2>1, <2>2 DEF RestoreInv, RestoreType, Alive
  <2>5. OldIsWhole' /\ OldIsKept'
    BY <1>1, <1>2, <2>1 DEF RestoreInv, OldIsWhole, OldIsKept, ghosts, Applying
  <2>6. Written' /\ Loaded' /\ Undone'
    BY <1>1, <1>4, <2>1 DEF RestoreInv, Written, Loaded, Undone
  <2>7. CoreFollows'
    <3>1. restore'.running /\ restore'.phase = "commit"
      BY <1>1, <2>1 DEF RestoreInv, Loaded
    <3>2. mihomo'.state = "up" => mihomo'.runs = files'[RuntimeFile]
      BY <1>1, <2>2
    <3> QED
      BY <3>1, <3>2 DEF CoreFollows
  <2> QED
    BY <2>3, <2>4, <2>5, <2>6, <2>7 DEF RestoreInv
<1> QED
  BY <1>3, <1>4 DEF Reload

LEMMA CommitRestoreKeeps == RestoreInv /\ CommitRestore => RestoreInv'
<1> SUFFICES ASSUME RestoreInv, CommitRestore PROVE RestoreInv'
  OBVIOUS
<1>1. /\ restore.phase = "commit" /\ restore' = NoRestore
      /\ whole' = [f \in BackedUp |-> restore.plan[f]]
      /\ torn' = FALSE /\ dropped' = FALSE /\ told' = (told /\ ~restore.running)
      /\ unseen' = (unseen /\ ~restore.running)
      /\ UNCHANGED <<files, memory, mihomo, archive, used>>
  BY DEF CommitRestore, Restrict
<1>2. IsApplied(restore) /\ IsPlan(restore.plan)
  BY <1>1, UnderWay DEF Applying
<1>3. files = restore.plan /\ memory = restore.plan[SettingsFile]
  BY <1>1 DEF RestoreInv, Loaded
<1>4. IsBackup(whole') /\ \A f \in BackedUp : files[f] = whole'[f]
  BY <1>1, <1>2, <1>3, FilesAre DEF IsPlan, IsStore, IsBackup
<1>5. files = Built(whole')
  BY <1>2, <1>3, <1>4, BuiltAgain DEF IsPlan
<1>6. StoreType' /\ ArchiveType'
  BY <1>1, <1>2, <1>4 DEF RestoreInv, StoreType, ArchiveType, IsApplied
<1>7. RestoreType'
  BY <1>1 DEF RestoreInv, RestoreType, Alive
<1>8. OldIsWhole' /\ Written' /\ Loaded' /\ Undone' /\ OldIsKept'
  BY <1>1, <1>3, <1>4, <1>5, FilesAre, NoRestoreIs
  DEF OldIsWhole, Written, Loaded, Undone, OldIsKept, NoRestore
<1>9. CoreFollows'
  BY <1>1, NoRestoreIs DEF RestoreInv, CoreFollows, NoRestore
<1> QED
  BY <1>6, <1>7, <1>8, <1>9 DEF RestoreInv

LEMMA UndoFileKeeps == RestoreInv /\ UndoFile => RestoreInv'
<1> SUFFICES ASSUME RestoreInv, UndoFile PROVE RestoreInv'
  OBVIOUS
<1>1. restore.phase = "undo" /\ UNCHANGED <<memory, mihomo, archive, used, ghosts>>
  BY DEF UndoFile
<1>2. IsApplied(restore) /\ restore # NoRestore /\ IsPlan(restore.plan)
  BY <1>1, UnderWay DEF Applying
<1>3. PICK f \in Files :
        \/ /\ files' = [files EXCEPT ![f] = restore.before[f]]
           /\ restore' = [restore EXCEPT !.left = @ \ {f}]
        \/ UNCHANGED files /\ restore' = [restore EXCEPT !.left = @ \ {f}, !.errors = TRUE]
  BY DEF UndoFile
<1>4. /\ IsApplied(restore') /\ restore'.phase = "undo" /\ restore'.plan = restore.plan
      /\ restore'.running = restore.running /\ restore'.before = restore.before
      /\ restore'.settings = restore.settings /\ restore'.tried = restore.tried
      /\ restore'.again = restore.again /\ restore'.left = restore.left \ {f}
      /\ (~restore'.errors => ~restore.errors /\ files' = [files EXCEPT ![f] = restore.before[f]])
  BY <1>1, <1>2, <1>3 DEF IsApplied
<1>5. LET new == [files EXCEPT ![f] = restore.before[f]] IN
      /\ IsStore(new) /\ new[f] = restore.before[f]
      /\ \A x \in Files : x # f => new[x] = files[x]
  BY <1>2, StoreWith DEF RestoreInv, StoreType, IsApplied
<1>6. /\ IsStore(files')
      /\ \A x \in Files : files'[x] \in {files[x], restore.before[x]}
      /\ ~restore'.errors => files'[f] = restore.before[f]
      /\ \A x \in Files : x # f => files'[x] = files[x]
  BY <1>3, <1>4, <1>5 DEF RestoreInv, StoreType
<1>7. StoreType' /\ ArchiveType'
  BY <1>1, <1>6 DEF RestoreInv, StoreType, ArchiveType, ghosts
<1>8. RestoreType'
  BY <1>1, <1>2, <1>4 DEF RestoreInv, RestoreType, Alive
<1>9. OldIsWhole' /\ OldIsKept'
  BY <1>1, <1>2, <1>4 DEF RestoreInv, OldIsWhole, OldIsKept, ghosts, Applying
<1>10. Written' /\ Loaded' /\ Undone'
  BY <1>1, <1>4, <1>6, FilesAre DEF RestoreInv, Written, Loaded, Undone, ghosts
<1>11. CoreFollows'
  BY <1>1, <1>4 DEF RestoreInv, CoreFollows, ghosts
<1> QED
  BY <1>7, <1>8, <1>9, <1>10, <1>11 DEF RestoreInv

LEMMA EndUndoKeeps == RestoreInv /\ EndUndo => RestoreInv'
<1> SUFFICES ASSUME RestoreInv, EndUndo PROVE RestoreInv'
  OBVIOUS
<1>1. /\ restore.phase = "undo" /\ restore.left = {}
      /\ UNCHANGED <<files, memory, mihomo, archive, used, whole, dropped, unseen>>
  BY DEF EndUndo
<1>2. IsApplied(restore) /\ restore # NoRestore /\ IsPlan(restore.plan)
  BY <1>1, UnderWay DEF Applying
<1>3. ~restore.errors => files = restore.before
  BY <1>1, <1>2 DEF RestoreInv, Undone, StoreType, IsStore, IsApplied
<1>4. CASE /\ restore' = [Fails(restore) EXCEPT !.again = TRUE]
           /\ told' = TRUE /\ UNCHANGED torn
  <2>1. /\ IsApplied(restore') /\ restore'.phase = "undo" /\ restore'.plan = restore.plan
        /\ restore'.running = restore.running /\ restore'.before = restore.before
        /\ restore'.settings = restore.settings /\ restore'.tried = restore.tried
        /\ \A f \in Files \ restore'.left : files[f] = restore'.before[f]
    BY <1>2, <1>4, FailsIs
  <2>2. StoreType' /\ ArchiveType'
    BY <1>1, <1>4 DEF RestoreInv, StoreType, ArchiveType
  <2>3. RestoreType'
    BY <1>1, <1>2, <2>1 DEF RestoreInv, RestoreType, Alive
  <2>4. OldIsWhole' /\ OldIsKept'
    BY <1>1, <1>2, <1>4, <2>1 DEF RestoreInv, OldIsWhole, OldIsKept, Applying
  <2>5. Written' /\ Loaded' /\ Undone'
    BY <1>1, <1>4, <2>1 DEF RestoreInv, Written, Loaded, Undone
  <2>6. CoreFollows'
    BY <1>1, <1>4, <2>1 DEF RestoreInv, CoreFollows
  <2> QED
    BY <2>2, <2>3, <2>4, <2>5, <2>6 DEF RestoreInv
<1>5. CASE /\ ~restore.errors /\ restore.tried /\ restore' = [restore EXCEPT !.phase = "resume"]
           /\ UNCHANGED <<torn, told>>
  <2>1. /\ IsApplied(restore') /\ restore'.phase = "resume" /\ restore'.plan = restore.plan
        /\ restore'.running = restore.running /\ restore'.before = restore.before
        /\ restore'.settings = restore.settings
    BY <1>2, <1>5 DEF IsApplied, Applying
  <2>2. StoreType' /\ ArchiveType'
    BY <1>1, <1>5 DEF RestoreInv, StoreType, ArchiveType
  <2>3. RestoreType'
    BY <1>1, <1>2, <2>1 DEF RestoreInv, RestoreType, Alive
  <2>4. OldIsWhole' /\ OldIsKept'
    BY <1>1, <1>2, <1>5, <2>1 DEF RestoreInv, OldIsWhole, OldIsKept, Applying
  <2>5. Written' /\ Loaded' /\ Undone'
    BY <1>1, <1>3, <1>5, <2>1 DEF RestoreInv, Written, Loaded, Undone
  <2>6. CoreFollows'
    BY <1>1, <1>5, <2>1 DEF CoreFollows
  <2> QED
    BY <2>2, <2>3, <2>4, <2>5, <2>6 DEF RestoreInv
<1>6. ASSUME restore' = NoRestore, UNCHANGED told, torn' \in BOOLEAN, torn => torn',
             ~torn' => ~restore.errors /\ (told \/ ~restore.tried)
      PROVE  RestoreInv'
  <2>1. StoreType' /\ ArchiveType' /\ RestoreType'
    BY <1>1, <1>2, <1>6 DEF RestoreInv, StoreType, ArchiveType, RestoreType, Alive
  <2>2. ~torn' => /\ ~torn /\ files = restore.before /\ restore.before = Built(whole)
                  /\ memory = restore.settings /\ restore.settings = whole[SettingsFile]
    BY <1>1, <1>2, <1>3, <1>6 DEF RestoreInv, OldIsWhole, Undone, StoreType, IsApplied
  <2>3. OldIsWhole' /\ Written' /\ Loaded' /\ Undone' /\ OldIsKept'
    BY <1>1, <1>2, <1>6, <2>2, NoRestoreIs
    DEF RestoreInv, OldIsWhole, Written, Loaded, Undone, OldIsKept, NoRestore
  <2>4. CoreFollows'
    BY <1>1, <1>2, <1>6, <2>2, NoRestoreIs DEF RestoreInv, CoreFollows, IsApplied
  <2> QED
    BY <2>1, <2>3, <2>4 DEF RestoreInv
<1>7. CASE restore.again /\ restore' = NoRestore /\ torn' = (torn \/ restore.errors)
           /\ UNCHANGED told
  BY <1>1, <1>2, <1>6, <1>7 DEF RestoreInv, Undone, StoreType, IsApplied
<1>8. CASE ~restore.errors /\ ~restore.tried /\ restore' = NoRestore /\ UNCHANGED <<torn, told>>
  BY <1>6, <1>8 DEF RestoreInv, StoreType
<1> QED
  BY <1>4, <1>5, <1>7, <1>8 DEF EndUndo

LEMMA ResumeKeeps == RestoreInv /\ Resume => RestoreInv'
<1> SUFFICES ASSUME RestoreInv, Resume PROVE RestoreInv'
  OBVIOUS
<1>1. /\ restore.phase = "resume" /\ restore' = NoRestore
      /\ mihomo' \in {mihomo, Up(files[RuntimeFile])} /\ told' \in {told, TRUE}
      /\ mihomo'.state = "up" /\ ~told' => mihomo' = Up(files[RuntimeFile])
      /\ UNCHANGED <<files, memory, archive, used, whole, torn, dropped, unseen>>
  BY DEF Resume
<1>2. IsApplied(restore) /\ restore # NoRestore /\ memory # Missing
  BY <1>1, UnderWay DEF Applying
<1>3. StoreType' /\ ArchiveType'
  BY <1>1 DEF RestoreInv, StoreType, ArchiveType, Up
<1>4. RestoreType'
  BY <1>1, <1>2 DEF RestoreInv, RestoreType, Alive
<1>5. ~torn => /\ files = Built(whole) /\ memory = whole[SettingsFile]
  BY <1>1 DEF RestoreInv, OldIsWhole, Undone, Applying
<1>6. OldIsWhole' /\ Written' /\ Loaded' /\ Undone' /\ OldIsKept'
  BY <1>1, <1>2, <1>5, NoRestoreIs
  DEF RestoreInv, OldIsWhole, Written, Loaded, Undone, OldIsKept, NoRestore
<1>7. CoreFollows'
  BY <1>1, NoRestoreIs DEF CoreFollows, Up
<1> QED
  BY <1>3, <1>4, <1>6, <1>7 DEF RestoreInv

\* What happens to the core; nothing else changes.
LEMMA CoreStepKeeps ==
  ASSUME RestoreInv, CoreDies \/ CoreComesBack \/ StartOrStop
  PROVE  RestoreInv'
<1>1. /\ UNCHANGED <<files, memory, archive, restore, used, whole, torn, dropped>>
      /\ mihomo' = [state |-> mihomo'.state, runs |-> mihomo'.runs]
      /\ mihomo'.state = "up" => Alive /\ mihomo'.runs = files[RuntimeFile]
      /\ told' \in BOOLEAN /\ unseen' \in BOOLEAN
      /\ restore # NoRestore => (told => told')
      /\ mihomo'.state = "up" /\ restore.phase \in {"write", "undo", "commit"} /\ ~restore.running
           => unseen'
  <2>1. CASE CoreDies
    BY <2>1 DEF CoreDies, NotUp, ghosts, RestoreInv, StoreType
  <2>2. CASE CoreComesBack
    BY <2>2, NoRestoreIs DEF CoreComesBack, Up, RestoreInv, StoreType
  <2>3. CASE StartOrStop
    BY <2>3, NoRestoreIs DEF StartOrStop, Unlocked, Up, NotUp
  <2> QED
    BY <2>1, <2>2, <2>3
<1>2. StoreType' /\ ArchiveType'
  BY <1>1 DEF RestoreInv, StoreType, ArchiveType
<1>3. RestoreType'
  BY <1>1 DEF RestoreInv, RestoreType, Alive
<1>4. OldIsWhole' /\ Written' /\ Loaded' /\ OldIsKept'
  BY <1>1 DEF RestoreInv, OldIsWhole, Written, Loaded, OldIsKept
<1>5. Undone'
  BY <1>1, NoRestoreIs DEF RestoreInv, Undone
<1>6. CoreFollows'
  BY <1>1 DEF RestoreInv, CoreFollows, Written, Undone, OldIsWhole
<1> QED
  BY <1>2, <1>3, <1>4, <1>5, <1>6 DEF RestoreInv

LEMMA ApplicationDiesKeeps == RestoreInv /\ ApplicationDies => RestoreInv'
<1> SUFFICES ASSUME RestoreInv, ApplicationDies PROVE RestoreInv'
  OBVIOUS
<1>1. /\ restore # NoRestore /\ memory' = Missing /\ mihomo' = NotUp("off")
      /\ restore' = NoRestore /\ torn' = (torn \/ restore.phase # "status")
      /\ told' = FALSE /\ unseen' = FALSE
      /\ UNCHANGED <<files, archive, used, whole, dropped>>
  BY DEF ApplicationDies
<1>2. StoreType' /\ ArchiveType'
  BY <1>1 DEF RestoreInv, StoreType, ArchiveType, NotUp
<1>3. RestoreType' /\ CoreFollows'
  BY <1>1 DEF RestoreType, CoreFollows, NotUp
<1>4. OldIsWhole' /\ Written' /\ Loaded' /\ Undone' /\ OldIsKept'
  BY <1>1, NoRestoreIs
  DEF RestoreInv, StoreType, OldIsWhole, Written, Loaded, Undone, OldIsKept, NoRestore
<1> QED
  BY <1>2, <1>3, <1>4 DEF RestoreInv

LEMMA StartsKeeps == RestoreInv /\ Starts => RestoreInv'
<1> SUFFICES ASSUME RestoreInv, Starts PROVE RestoreInv'
  OBVIOUS
<1> DEFINE rebuilt == [files EXCEPT ![RuntimeFile] = RuntimeOf(Snapshot(files))]
<1>1. /\ memory = Missing /\ memory' = files[SettingsFile] /\ files' \in {files, rebuilt}
      /\ restore = NoRestore /\ mihomo.state # "up"
      /\ UNCHANGED <<mihomo, archive, restore, used, ghosts>>
  BY DEF Starts, Alive, RestoreInv, RestoreType
<1>2. IsStore(rebuilt) /\ \A f \in BackedUp : rebuilt[f] = files[f]
  BY FilesAre, FilesDiffer DEF RestoreInv, StoreType, IsStore
<1>3. ~torn => rebuilt = files
  <2> SUFFICES ASSUME ~torn PROVE rebuilt = files
    OBVIOUS
  <2>1. files = Built(whole) /\ IsBackup(whole)
    BY <1>1, NoRestoreIs DEF RestoreInv, OldIsWhole, StoreType
  <2>2. Snapshot(files) = whole
    BY <2>1, SnapshotOfBuilt
  <2>3. files[RuntimeFile] = RuntimeOf(whole)
    BY <2>1, FilesAre DEF Built
  <2> QED
    BY <2>2, <2>3 DEF RestoreInv, StoreType, IsStore
<1>4. memory' \in StoredSettings
  BY <1>1 DEF RestoreInv, StoreType, IsStore
<1>5. ~torn => files' = files /\ memory' = whole[SettingsFile]
  <2>1. ~torn => files = Built(whole)
    BY <1>1, NoRestoreIs DEF RestoreInv, OldIsWhole
  <2>2. Built(whole)[SettingsFile] = whole[SettingsFile]
    BY FilesAre, FilesDiffer DEF Built
  <2> QED
    BY <1>1, <1>3, <2>1, <2>2
<1> HIDE DEF rebuilt
<1>6. StoreType' /\ ArchiveType'
  BY <1>1, <1>2, <1>4 DEF RestoreInv, StoreType, ArchiveType, ghosts
<1>7. RestoreType' /\ CoreFollows'
  BY <1>1 DEF RestoreType, CoreFollows
<1>8. OldIsWhole' /\ Written' /\ Loaded' /\ Undone' /\ OldIsKept'
  BY <1>1, <1>5, NoRestoreIs
  DEF RestoreInv, OldIsWhole, Written, Loaded, Undone, OldIsKept, NoRestore, ghosts
<1> QED
  BY <1>6, <1>7, <1>8 DEF RestoreInv

LEMMA MendKeeps == RestoreInv /\ Mend => RestoreInv'
<1> SUFFICES ASSUME RestoreInv, Mend PROVE RestoreInv'
  OBVIOUS
<1>1. /\ restore = NoRestore /\ torn
      /\ mihomo' = IF mihomo.state = "up" THEN Up(files'[RuntimeFile]) ELSE mihomo
      /\ UNCHANGED <<memory, archive, restore, used, ghosts>>
  BY DEF Mend, Unlocked
<1>2. PICK left \in SUBSET files[IndexFile].listed, p \in files[IndexFile].listed \cup {Missing, files[IndexFile].current} :
        files' = Built([files EXCEPT ![IndexFile] = Lists(left, p)])
  BY DEF Mend
<1>3. Lists(left, p) \in Indexes
  BY DEF RestoreInv, StoreType, IsStore, Indexes, Lists
<1>4. IsStore(files')
  <2> DEFINE new == [files EXCEPT ![IndexFile] = Lists(left, p)]
  <2>1. new[IndexFile] \in Indexes /\ new[SettingsFile] \in StoredSettings
    BY <1>3, FilesAre, FilesDiffer DEF RestoreInv, StoreType, IsStore
  <2> HIDE DEF new
  <2>2. IsStore(Built(new))
    BY <2>1, BuiltIsPlan DEF IsPlan
  <2> QED
    BY <1>2, <2>2 DEF new
<1>5. StoreType' /\ ArchiveType'
  BY <1>1, <1>4 DEF RestoreInv, StoreType, ArchiveType, Up, ghosts
<1>6. RestoreType' /\ CoreFollows'
  BY <1>1, NoRestoreIs DEF RestoreInv, RestoreType, CoreFollows, Alive, Up, ghosts
<1>7. OldIsWhole' /\ Written' /\ Loaded' /\ Undone' /\ OldIsKept'
  BY <1>1, NoRestoreIs
  DEF RestoreInv, OldIsWhole, Written, Loaded, Undone, OldIsKept, NoRestore, ghosts
<1> QED
  BY <1>5, <1>6, <1>7 DEF RestoreInv

LEMMA StutterKeeps == RestoreInv /\ UNCHANGED backupVars => RestoreInv'
<1> SUFFICES ASSUME RestoreInv, UNCHANGED backupVars PROVE RestoreInv'
  OBVIOUS
<1>1. StoreType' /\ ArchiveType' /\ RestoreType'
  BY DEF RestoreInv, StoreType, ArchiveType, RestoreType, Alive, backupVars
<1>2. OldIsWhole' /\ Written' /\ Loaded' /\ Undone' /\ OldIsKept' /\ CoreFollows'
  BY DEF RestoreInv, OldIsWhole, Written, Loaded, Undone, OldIsKept, CoreFollows, backupVars
<1> QED
  BY <1>1, <1>2 DEF RestoreInv

\* The inductive invariant of a restore: what each phase has done of its plan, and
\* what its snapshot and the archive still hold of the old configuration.
THEOREM RestoreIsSafe == BackupSpec => []RestoreInv
<1>1. RestoreInv /\ [BackupNext]_backupVars => RestoreInv'
  BY ArchiveCommandKeeps, RestoreKeeps, StatusKeeps, WriteFileKeeps, SetMemoryKeeps,
     ReloadKeeps, CommitRestoreKeeps, UndoFileKeeps, EndUndoKeeps, ResumeKeeps, EditKeeps,
     CoreStepKeeps, ApplicationDiesKeeps, StartsKeeps, MendKeeps, StutterKeeps
  DEF BackupNext, RestoreStep, BackupEnvironment
<1> QED
  BY InitMeets, <1>1, PTL DEF BackupSpec

\* Whenever no command holds the lock and no death or failed rollback cut a restore
\* short, the files, the settings in memory and runtime.yaml are those of one
\* configuration, the last that was committed (restore, rollback of backup.rs).
THEOREM RestoreIsAllOrNothing == BackupSpec => []RestoreIsWhole
<1>1. RestoreInv => RestoreIsWhole
  <2> SUFFICES ASSUME RestoreInv, Unlocked, ~torn
               PROVE  /\ Restrict(files, BackedUp) = whole /\ memory = files[SettingsFile]
                      /\ files[RuntimeFile] = RuntimeOf(files)
    BY DEF RestoreIsWhole
  <2>1. files = Built(whole) /\ IsBackup(whole) /\ memory = whole[SettingsFile]
    BY NoRestoreIs DEF RestoreInv, OldIsWhole, Unlocked, Alive, StoreType
  <2>2. IsPlan(files) /\ \A f \in BackedUp : files[f] = whole[f]
    BY <2>1, BuiltIsPlan DEF IsBackup
  <2>3. Restrict(files, BackedUp) = whole
    BY <2>1, <2>2 DEF Restrict, IsBackup
  <2> QED
    BY <2>1, <2>2, <2>3, FilesAre DEF IsPlan
<1> QED
  BY <1>1, RestoreIsSafe, PTL

\* While a restore may be cut short, and after it was, the configuration from before
\* is in the archive, complete and readable, unless the archive lost it in the
\* meantime (the safety backup of backup_restore).
THEOREM OldConfigurationStays == BackupSpec => []OldConfigurationIsKept
<1>1. RestoreInv => OldConfigurationIsKept
  BY SnapshotOfBackup DEF RestoreInv, OldConfigurationIsKept, OldIsKept, StoreType, ArchiveType
<1> QED
  BY <1>1, RestoreIsSafe, PTL

\* Between commands a running core has the runtime.yaml of the configuration on disk,
\* unless the user was told otherwise or the core came up during a restore.
THEOREM CoreRunsWhatIsRestored == BackupSpec => []CoreRunsRestored
<1>1. RestoreInv => CoreRunsRestored
  BY NoRestoreIs DEF RestoreInv, CoreRunsRestored, CoreFollows, Unlocked
<1> QED
  BY <1>1, RestoreIsSafe, PTL

(**************************** copies on a server *****************************)

Call == [kind : {"put", "read back", "save"}, id : BackupIds, backup : Texts]
Place == Texts \cup {Missing, Damaged}

SyncType ==
  /\ archive \in [BackupIds -> Place] /\ server \in [BackupIds -> Place]
  /\ used \subseteq BackupIds
  /\ calls \in [Calls -> Call \cup {NoCall}]
  /\ stored \subseteq BackupIds \X Texts

\* An id under which there is anything has been taken.
CopiesAreUsed ==
  /\ \A id \in BackupIds : archive[id] # Missing \/ server[id] # Missing => id \in used
  /\ \A t \in Calls : calls[t] # NoCall => calls[t].id \in used

SyncInv == SyncType /\ CopiesAreUsed /\ IdNamesOneBackup /\ UploadedStays

LEMMA NoCallIsNone == NoCall \notin Call
  BY DEF NoCall, Call

LEMMA KindsAreOfCalls == NoCall.kind = "none"
  BY DEF NoCall

LEMMA TextsAre == \A b \in Texts : Readable(b)
  BY TextsAreReadable DEF Readable

\* The cases of Copies.
LEMMA CopiesAre ==
  ASSUME NEW id, NEW a
  PROVE  a \in Copies(id) <=>
           \/ a = archive[id] \/ a = server[id]
           \/ \E t \in Calls : calls[t] # NoCall /\ calls[t].id = id /\ a = calls[t].backup
  BY DEF Copies

LEMMA CopiesWillBe ==
  ASSUME NEW id, NEW a
  PROVE  a \in Copies(id)' <=>
           \/ a = archive'[id] \/ a = server'[id]
           \/ \E t \in Calls : calls'[t] # NoCall /\ calls'[t].id = id /\ a = calls'[t].backup
  BY DEF Copies

\* A step that makes no readable copy of its own keeps the copies agreed.
LEMMA NothingNew ==
  ASSUME IdNamesOneBackup,
         \A id \in BackupIds : \A a \in Copies(id)' : Readable(a) => a \in Copies(id)
  PROVE  IdNamesOneBackup'
  BY DEF IdNamesOneBackup, Readable

\* Nothing is there yet under an id that has not been taken.
LEMMA FreshIsEmpty ==
  ASSUME SyncInv, NEW id \in BackupIds, id \notin used
  PROVE  \A a \in Copies(id) : a = Missing
  BY CopiesAre DEF SyncInv, CopiesAreUsed

LEMMA OneNew ==
  ASSUME SyncInv, NEW id \in BackupIds, NEW b, id \notin used,
         \A i \in BackupIds : \A a \in Copies(i)' :
           Readable(a) => a \in Copies(i) \/ (i = id /\ a = b)
  PROVE  IdNamesOneBackup'
<1>1. \A a \in Copies(id)' : Readable(a) => a = b
  BY FreshIsEmpty DEF Readable
<1>2. QED
  BY <1>1 DEF SyncInv, IdNamesOneBackup, Readable

LEMMA SyncBegins == SyncInit => SyncInv
  BY CopiesAre DEF SyncInit, NoBackups, SyncInv, SyncType, Place, CopiesAreUsed, IdNamesOneBackup,
     Readable, UploadedStays

(*************************** steps on the server *****************************)

LEMMA StartStep ==
  ASSUME SyncInv, NEW t \in Calls, NEW id \in BackupIds, StartUpload(t, id) \/ Download(t, id)
  PROVE  SyncInv'
<1>1. PICK kind \in {"put", "save"}, b \in {archive[id], server[id]} :
        /\ Readable(b) /\ calls[t] = NoCall
        /\ calls' = [calls EXCEPT ![t] = [kind |-> kind, id |-> id, backup |-> b]]
        /\ UNCHANGED <<archive, server, used, stored>>
  BY DEF StartUpload, Download
<1>2. b \in Texts /\ b \in Copies(id) /\ id \in used
  BY <1>1, CopiesAre DEF SyncInv, SyncType, Place, Readable, CopiesAreUsed
<1>3. SyncType' /\ CopiesAreUsed' /\ UploadedStays'
  BY <1>1, <1>2 DEF SyncInv, SyncType, Call, CopiesAreUsed, UploadedStays
<1>4. ASSUME NEW i \in BackupIds, NEW a \in Copies(i)', Readable(a) PROVE a \in Copies(i)
  <2>1. CASE a = archive'[i] \/ a = server'[i]
    BY <1>1, <2>1, CopiesAre
  <2>2. ASSUME NEW u \in Calls, calls'[u] # NoCall, calls'[u].id = i, a = calls'[u].backup
        PROVE  a \in Copies(i)
    <3>1. CASE u = t
      BY <1>1, <1>2, <2>2, <3>1 DEF SyncInv, SyncType
    <3>2. CASE u # t
      BY <1>1, <2>2, <3>2, CopiesAre DEF SyncInv, SyncType
    <3>3. QED
      BY <3>1, <3>2
  <2>3. QED
    BY <1>4, <2>1, <2>2, CopiesWillBe
<1>5. QED
  BY <1>3, <1>4, NothingNew DEF SyncInv

\* PUT: the server has what it had, or the backup of the call, or nothing readable.
LEMMA PutStep ==
  ASSUME SyncInv, NEW t \in Calls, Put(t)
  PROVE  SyncInv'
<1> DEFINE c == calls[t]
<1>1. /\ c \in Call /\ c # NoCall
      /\ UNCHANGED <<archive, used, stored>>
  BY KindsAreOfCalls DEF Put, SyncInv, SyncType
<1>2. PICK after \in {server[c.id], c.backup, Missing, Damaged} :
        /\ server' = [server EXCEPT ![c.id] = after]
        /\ server[c.id] # Missing => after = server[c.id]
  BY DEF Put, Accepts
<1>3. \/ calls' = [calls EXCEPT ![t].kind = "read back"]
      \/ calls' = [calls EXCEPT ![t] = NoCall]
  BY DEF Put, Returns
<1>4. ASSUME NEW u \in Calls, calls'[u] # NoCall
      PROVE  /\ calls[u] # NoCall /\ calls'[u].id = calls[u].id
             /\ calls'[u].backup = calls[u].backup
  <2>1. CASE u = t
    BY <1>1, <1>3, <1>4, <2>1 DEF SyncInv, SyncType, Call
  <2>2. CASE u # t
    BY <1>3, <1>4, <2>2 DEF SyncInv, SyncType
  <2>3. QED
    BY <2>1, <2>2
<1>5. c.id \in BackupIds /\ c.backup \in Texts /\ c.backup \in Copies(c.id) /\ c.id \in used
  BY <1>1, CopiesAre DEF Call, SyncInv, CopiesAreUsed
<1>6. SyncType'
  <2>1. calls' \in [Calls -> Call \cup {NoCall}]
    <3>1. [c EXCEPT !.kind = "read back"] \in Call
      BY <1>1 DEF Call
    <3>2. QED
      BY <1>3, <3>1 DEF SyncInv, SyncType
  <2>2. server' \in [BackupIds -> Place]
    BY <1>2, <1>5 DEF SyncInv, SyncType, Place
  <2>3. QED
    BY <1>1, <2>1, <2>2 DEF SyncInv, SyncType
<1>7. CopiesAreUsed'
  BY <1>1, <1>2, <1>4, <1>5 DEF SyncInv, SyncType, CopiesAreUsed
<1>8. ASSUME NEW i \in BackupIds, NEW a \in Copies(i)', Readable(a) PROVE a \in Copies(i)
  <2>1. CASE a = archive'[i]
    BY <1>1, <2>1, CopiesAre
  <2>2. CASE a = server'[i]
    <3>1. CASE i = c.id
      BY <1>2, <1>5, <1>8, <2>2, <3>1, CopiesAre DEF SyncInv, SyncType, Readable
    <3>2. CASE i # c.id
      BY <1>2, <2>2, <3>2, CopiesAre DEF SyncInv, SyncType
    <3>3. QED
      BY <3>1, <3>2
  <2>3. ASSUME NEW u \in Calls, calls'[u] # NoCall, calls'[u].id = i, a = calls'[u].backup
        PROVE  a \in Copies(i)
    BY <1>4, <2>3, CopiesAre
  <2>4. QED
    BY <1>8, <2>1, <2>2, <2>3, CopiesWillBe
<1>9. UploadedStays'
  <2> SUFFICES ASSUME NEW s \in stored PROVE server'[s[1]] = s[2]
    BY <1>1 DEF UploadedStays
  <2>1. s[1] \in BackupIds /\ s[2] \in Texts /\ server[s[1]] = s[2]
    BY DEF SyncInv, SyncType, UploadedStays
  <2>2. server[s[1]] # Missing
    BY <2>1, TextsAreReadable
  <2>3. QED
    BY <1>2, <2>1, <2>2 DEF SyncInv, SyncType
<1>10. QED
  BY <1>6, <1>7, <1>8, <1>9, NothingNew DEF SyncInv

\* A call ends: it was the last look at the server, or a download that is saved.
LEMMA RestoreEndStep ==
  ASSUME SyncInv, NEW t \in Calls, ReadBack(t) \/ SaveDownload(t) \/ CallFails(t)
  PROVE  SyncInv'
<1> DEFINE c == calls[t]
<1>1. /\ c \in Call /\ c # NoCall
      /\ calls' = [calls EXCEPT ![t] = NoCall]
      /\ UNCHANGED <<server, used>>
  BY KindsAreOfCalls DEF ReadBack, SaveDownload, CallFails, Keep, Returns, SyncInv, SyncType
<1>2. /\ c.id \in BackupIds /\ c.backup \in Texts /\ c.id \in used /\ c.backup \in Copies(c.id)
  BY <1>1, CopiesAre DEF Call, SyncInv, CopiesAreUsed
<1>3. \/ archive' = archive
      \/ archive[c.id] = Missing /\ archive' = [archive EXCEPT ![c.id] = c.backup]
  BY <1>2 DEF ReadBack, SaveDownload, CallFails, Keep, SyncInv, SyncType
<1>4. \/ stored' = stored
      \/ server[c.id] = c.backup /\ stored' = stored \cup {<<c.id, c.backup>>}
  BY DEF ReadBack, SaveDownload, CallFails
<1>5. ASSUME NEW u \in Calls, calls'[u] # NoCall PROVE calls'[u] = calls[u] /\ calls[u] # NoCall
  BY <1>1, <1>5 DEF SyncInv, SyncType
<1>6. SyncType'
  BY <1>1, <1>2, <1>3, <1>4 DEF SyncInv, SyncType, Place
<1>7. CopiesAreUsed'
  BY <1>1, <1>2, <1>3, <1>5 DEF SyncInv, SyncType, CopiesAreUsed
<1>8. UploadedStays'
  BY <1>1, <1>4 DEF SyncInv, UploadedStays
<1>9. ASSUME NEW i \in BackupIds, NEW a \in Copies(i)', Readable(a) PROVE a \in Copies(i)
  <2>1. CASE a = archive'[i]
    BY <1>2, <1>3, <2>1, CopiesAre DEF SyncInv, SyncType
  <2>2. CASE a = server'[i]
    BY <1>1, <2>2, CopiesAre
  <2>3. ASSUME NEW u \in Calls, calls'[u] # NoCall, calls'[u].id = i, a = calls'[u].backup
        PROVE  a \in Copies(i)
    BY <1>5, <2>3, CopiesAre
  <2>4. QED
    BY <1>9, <2>1, <2>2, <2>3, CopiesWillBe
<1>10. QED
  BY <1>6, <1>7, <1>8, <1>9, NothingNew DEF SyncInv

\* A copy is deleted or damaged, here or on the server.
LEMMA LossStep ==
  ASSUME SyncInv, NEW id \in BackupIds, DeleteRemote(id) \/ RemoveLocal(id) \/ DiskDamages(id)
  PROVE  SyncInv'
<1>1. UNCHANGED <<calls, used>>
  BY DEF DeleteRemote, RemoveLocal, DiskDamages, LocalOnly, Discard, Spoil
<1>2. /\ \/ archive' = archive
         \/ /\ archive[id] # Missing
            /\ \E a \in {Missing, Damaged} : archive' = [archive EXCEPT ![id] = a]
      /\ \/ server' = server /\ stored' = stored
         \/ server' = [server EXCEPT ![id] = Missing] /\ stored' = {s \in stored : s[1] # id}
  BY DEF DeleteRemote, RemoveLocal, DiskDamages, LocalOnly, Discard, Spoil, Readable
<1>3. SyncType'
  BY <1>1, <1>2 DEF SyncInv, SyncType, Place
<1>4. CopiesAreUsed'
  BY <1>1, <1>2 DEF SyncInv, SyncType, CopiesAreUsed
<1>5. UploadedStays'
  BY <1>2 DEF SyncInv, SyncType, UploadedStays
<1>6. ASSUME NEW i \in BackupIds, NEW a \in Copies(i)', Readable(a) PROVE a \in Copies(i)
  <2>1. CASE a = archive'[i] \/ a = server'[i]
    BY <1>2, <1>6, <2>1, CopiesAre DEF SyncInv, SyncType, Readable
  <2>2. CASE \E u \in Calls : calls'[u] # NoCall /\ calls'[u].id = i /\ a = calls'[u].backup
    BY <1>1, <2>2, CopiesAre
  <2>3. QED
    BY <1>6, <2>1, <2>2, CopiesWillBe
<1>7. QED
  BY <1>3, <1>4, <1>5, <1>6, NothingNew DEF SyncInv

\* A backup under a new id, here or on another machine.
LEMMA NewStep ==
  ASSUME SyncInv, NEW id \in BackupIds, NEW b \in Texts, UploadElsewhere(id, b) \/ Save(id, b)
  PROVE  SyncInv'
<1>1. /\ id \notin used /\ used' = used \cup {id} /\ UNCHANGED <<calls, stored>>
      /\ \/ server' = [server EXCEPT ![id] = b] /\ archive' = archive
         \/ archive' = [archive EXCEPT ![id] = b] /\ server' = server
  BY DEF UploadElsewhere, Save, Archive, LocalOnly
<1>2. SyncType' /\ CopiesAreUsed'
  BY <1>1 DEF SyncInv, SyncType, Place, CopiesAreUsed
<1>3. UploadedStays'
  <2> SUFFICES ASSUME NEW s \in stored PROVE server'[s[1]] = s[2]
    BY <1>1 DEF UploadedStays
  <2>1. s[1] \in BackupIds /\ s[2] \in Texts /\ server[s[1]] = s[2]
    BY DEF SyncInv, SyncType, UploadedStays
  <2>2. s[1] # id
    BY <1>1, <2>1, TextsAreReadable DEF SyncInv, CopiesAreUsed
  <2>3. QED
    BY <1>1, <2>1, <2>2 DEF SyncInv, SyncType
<1>4. ASSUME NEW i \in BackupIds, NEW a \in Copies(i)', Readable(a)
      PROVE  a \in Copies(i) \/ (i = id /\ a = b)
  <2>1. CASE a = archive'[i] \/ a = server'[i]
    BY <1>1, <2>1, CopiesAre DEF SyncInv, SyncType
  <2>2. CASE \E u \in Calls : calls'[u] # NoCall /\ calls'[u].id = i /\ a = calls'[u].backup
    BY <1>1, <2>2, CopiesAre
  <2>3. QED
    BY <1>4, <2>1, <2>2, CopiesWillBe
<1>5. QED
  BY <1>1, <1>2, <1>3, <1>4, OneNew DEF SyncInv

(************************** theorems about backups ***************************)

\* Whatever calls of several machines are mixed and lost, an id names one backup and
\* what was reported as stored is there (backup.rs:393, 526; backup_webdav.rs:267-336).
THEOREM BackupsAgree == SyncSpec => []CopiesAgree
<1>1. ASSUME SyncInv, [SyncNext]_syncVars PROVE SyncInv'
  <2>1. CASE UNCHANGED syncVars
    BY <1>1, <2>1 DEF syncVars, SyncInv, SyncType, CopiesAreUsed, IdNamesOneBackup, Copies, UploadedStays
  <2>2. CASE SyncNext
    BY <1>1, <2>2, StartStep, PutStep, RestoreEndStep, LossStep, NewStep DEF SyncNext
  <2>3. QED
    BY <1>1, <2>1, <2>2
<1>2. SyncInv => CopiesAgree
  BY DEF SyncInv, CopiesAgree
<1>3. QED
  BY <1>1, <1>2, SyncBegins, PTL DEF SyncSpec

=============================================================================
