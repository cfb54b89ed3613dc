---------------------------- MODULE PendingImports ----------------------------
(* Imports that links ask for: src-tauri/src/protocol.rs.  The operating system *)
(* hands links to the running application; they wait in a queue until a window  *)
(* confirms or dismisses them.  The queue's lock is not held during an import,  *)
(* so links, confirmations and dismissals of several windows come in between.   *)
EXTENDS Integers, FiniteSets

CONSTANTS
  Sources,         \* addresses that links resolve to
  Invalid,         \* a link that does not resolve, or is too long
  Windows,         \* who may have a confirmation under way
  MaxPending,      \* the length of the queue
  LastId           \* bound on the ids that are handed out

ASSUME QueueBounds == MaxPending \in Nat \ {0} /\ LastId \in Nat /\ Invalid \notin Sources

VARIABLES
  sequence,        \* the last id
  items,           \* the queue, whose order only the window shows: [id, source, importing]
  importing        \* window -> the item that profiles::import is at work on, or Idle

importVars == <<sequence, items, importing>>

Idle  == [id |-> 0]
Queue == [sequence |-> sequence, items |-> items]
Becomes(q) == sequence' = q.sequence /\ items' = q.items
Without(id) == {item \in items : item.id # id}
Marked(id, b) == {[item EXCEPT !.importing = IF item.id = id THEN b ELSE @] : item \in items}

\* Queue::push: a link that cannot be queued is logged and forgotten.
Push(q, link) ==
  IF \/ link = Invalid
     \/ \E item \in q.items : item.source = link
     \/ Cardinality(q.items) >= MaxPending
  THEN q
  ELSE [sequence |-> q.sequence + 1,
        items |-> q.items \cup {[id |-> q.sequence + 1, source |-> link, importing |-> FALSE]}]

\* enqueue_args: the links of one start of the executable, under one lock; one that
\* is not there is like one that cannot be queued.
EnqueueArgs(first, second) ==
  /\ sequence + 2 <= LastId
  /\ Becomes(Push(Push(Queue, first), second))
  /\ UNCHANGED importing

\* Mutant: a request that is being imported can be dismissed.
DismissAlways(id) ==
  /\ items' = Without(id)
  /\ UNCHANGED <<sequence, importing>>

\* dismiss_profile_import.
Dismiss(id) ==
  /\ \A item \in items : item.id = id => ~item.importing
  /\ items' = Without(id)
  /\ UNCHANGED <<sequence, importing>>

\* begin_import, in confirm_profile_import; then the lock is released.
Confirm(w, id) ==
  /\ importing[w] = Idle
  /\ \E item \in items :
       /\ item.id = id /\ ~item.importing
       /\ items' = Marked(id, TRUE)
       /\ importing' = [importing EXCEPT ![w] = item]
  /\ UNCHANGED sequence

\* profiles::import returns and finish_import follows.
ImportEnds(w, success) ==
  /\ importing[w] # Idle
  /\ LET id == importing[w].id IN items' = IF success THEN Without(id) ELSE Marked(id, FALSE)
  /\ importing' = [importing EXCEPT ![w] = Idle]
  /\ UNCHANGED sequence

ImportsStart == sequence = 0 /\ items = {} /\ importing = [w \in Windows |-> Idle]

Links == Sources \cup {Invalid}

ImportsNext ==
  \/ \E first, second \in Links : EnqueueArgs(first, second)
  \/ \E id \in 1 .. LastId : Dismiss(id)
  \/ \E w \in Windows, id \in 1 .. LastId : Confirm(w, id)
  \/ \E w \in Windows, success \in BOOLEAN : ImportEnds(w, success)

ImportsSpec == ImportsStart /\ [][ImportsNext]_importVars

\* However links repeat and windows confirm, retry and dismiss, a source is imported
\* by one of them at a time, and while it is it stays in the queue, where it keeps
\* the same link out: begin_import, finish_import and dismiss_profile_import look
\* at a flag that was set under another hold of the lock (protocol.rs:52, 59, 92).
OneImportAtATime ==
  \A w \in Windows : importing[w] # Idle =>
    /\ [importing[w] EXCEPT !.importing = TRUE] \in items
    /\ \A v \in Windows \ {w} :
         importing[v] # Idle => importing[v].source # importing[w].source
=============================================================================
