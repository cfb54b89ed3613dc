-------------------------- MODULE SystemProxyProofs --------------------------
(* What holds of the system proxy and its guard between commands, for any ports, *)
(* any number of guard generations and whatever can fail.                        *)
EXTENDS SystemProxy, TLAPS

(********************************** plans ************************************)

\* Every plan, of a save, an installation or a rollback, keeps this order.
Rank(step) ==
  CASE step \in {"regenerate", "stopCore", "boot"} -> 1
    [] step \in {"persist", "retireGuard"} -> 2
    [] step \in {"undoMemory", "clear"} -> 3
    [] step \in {"undoFiles", "resume"} -> 4
    [] step = "apply" -> 5
    [] step = "restartGuard" -> 6
    [] step = "reload" -> 7
    [] step \in {"hotkeys", "launch"} -> 8

Ordered(s) == \A i, j \in 1..Len(s) : i < j => Rank(s[i]) < Rank(s[j])
Has(s, step) == \E i \in 1..Len(s) : s[i] = step
Todo(step) == Has(plan, step)

(****************************** the invariant ********************************)

\* What the steps that are left say of how the command got here.
PlanInv ==
  /\ Ordered(plan)
  /\ \A step \in {"stopCore", "retireGuard", "clear"} : Todo(step) => Todo("launch")
  /\ Todo("launch") => "core" \in tried /\ trouble = "none"
  /\ Todo("resume") => Todo("apply")
  /\ Todo("undoMemory") \/ Todo("undoFiles") =>
       /\ "core" \notin tried /\ trouble # "none" /\ Todo("restartGuard")
       /\ "apply" \in tried => Todo("apply")
  /\ Todo("boot") => \A step \in Steps : Todo(step) => step = "boot"
  /\ plan # <<>> /\ trouble # "none" /\ "core" \notin tried /\ ~Todo("undoMemory") =>
       settings = before.settings
  /\ trouble = "none" /\ tried \cap {"core", "apply"} = {} /\ Todo("restartGuard")
       /\ ~Todo("apply") => ~settings.proxy

DownInv ==
  /\ plan = <<>> => tried = {} /\ trouble = "none"
  /\ ~up => /\ plan = <<>> /\ quit = "no"
            /\ generation = 0 /\ loops = [g \in Generations |-> NoLoop]

\* A loop of the current generation runs.
Watched == \E g \in Generations : g = generation /\ loops[g] # NoLoop
Untouched == plan # <<>> /\ tried \cap {"core", "apply"} = {}

\* The guard is as configured, or will be restarted; until a command has touched the
\* proxy the guard is the one of the settings it replaces.
GuardInv ==
  /\ up => \/ Watched <=> Guarded(settings)
           \/ Todo("restartGuard") \/ Todo("launch")
  /\ Untouched /\ Watched => Guarded(before.settings)

TakesEffect(s) == (IF s.proxy THEN os = Expected(s) ELSE ~os.on) \/ Guarded(s)

\* The proxy suits the settings the command replaces until the command has touched
\* it, and the settings in memory once it has.
ProxyInv ==
  up /\ quit = "no" /\ ~spoiled /\ ~foreign =>
    /\ Untouched => TakesEffect(before.settings)
    /\ ~Todo("apply") /\ ~Todo("launch") /\ ~Todo("undoMemory") => TakesEffect(settings)

IInv == TypeOK /\ DownInv /\ PlanInv /\ GuardInv /\ ProxyInv

(***************************** lemmas on plans *******************************)

LEMMA Empty == ~(\E step : Has(<<>>, step)) /\ Ordered(<<>>)
  BY DEF Has, Ordered

\* The first step comes off, and none before it is left.
LEMMA First ==
  ASSUME NEW s \in Seq(Steps), s # <<>>, Ordered(s)
  PROVE  /\ Tail(s) \in Seq(Steps) /\ Ordered(Tail(s))
         /\ Has(s, Head(s)) /\ Head(s) \in Steps
         /\ \A step : Has(Tail(s), step) => Has(s, step) /\ Rank(Head(s)) < Rank(step)
         /\ \A step : Has(s, step) => step = Head(s) \/ Has(Tail(s), step)
<1>1. /\ Len(s) \in Nat \ {0} /\ Head(s) = s[1] /\ Len(Tail(s)) = Len(s) - 1
      /\ \A i \in 1..Len(Tail(s)) : Tail(s)[i] = s[i + 1]
      /\ Tail(s) \in Seq(Steps)
  OBVIOUS
<1>2. Ordered(Tail(s))
  BY <1>1 DEF Ordered
<1>3. Has(s, Head(s)) /\ Head(s) \in Steps
  BY <1>1 DEF Has
<1>4. ASSUME NEW step, Has(Tail(s), step) PROVE Has(s, step) /\ Rank(Head(s)) < Rank(step)
  BY <1>1, <1>4 DEF Has, Ordered
<1>5. ASSUME NEW step, Has(s, step) PROVE step = Head(s) \/ Has(Tail(s), step)
  <2>1. PICK i \in 1..Len(s) : s[i] = step
    BY <1>5 DEF Has
  <2>2. CASE i = 1
    BY <1>1, <2>1, <2>2
  <2>3. CASE i # 1
    <3>1. i - 1 \in 1..Len(Tail(s)) /\ Tail(s)[i - 1] = step
      BY <1>1, <2>1, <2>3
    <3> QED
      BY <3>1 DEF Has
  <2> QED
    BY <2>2, <2>3
<1> QED
  BY <1>1, <1>2, <1>3, <1>4, <1>5

\* A step that is made on a condition.
LEMMA Alone ==
  ASSUME NEW step \in Steps
  PROVE  <<step>> \in Seq(Steps) /\ Ordered(<<step>>) /\ \A x : Has(<<step>>, x) <=> x = step
BY DEF Ordered, Has

\* Two plans, one after the other.
LEMMA Joined ==
  ASSUME NEW s \in Seq(Steps), NEW t \in Seq(Steps), Ordered(s), Ordered(t),
         \A x, y : Has(s, x) /\ Has(t, y) => Rank(x) < Rank(y)
  PROVE  /\ s \o t \in Seq(Steps) /\ Ordered(s \o t)
         /\ \A x : Has(s \o t, x) <=> Has(s, x) \/ Has(t, x)
<1>1. /\ s \o t \in Seq(Steps) /\ Len(s) \in Nat /\ Len(t) \in Nat
      /\ Len(s \o t) = Len(s) + Len(t)
      /\ \A i \in 1..Len(s) : (s \o t)[i] = s[i]
      /\ \A i \in 1..Len(t) : (s \o t)[Len(s) + i] = t[i]
  OBVIOUS
<1>2. \A i \in 1..Len(s \o t) :
        \/ i \in 1..Len(s) /\ (s \o t)[i] = s[i]
        \/ i - Len(s) \in 1..Len(t) /\ (s \o t)[i] = t[i - Len(s)] /\ i > Len(s)
  <2>1. TAKE i \in 1..Len(s \o t)
  <2>2. CASE i <= Len(s)
    BY <1>1, <2>2
  <2>3. CASE i > Len(s)
    <3>1. i - Len(s) \in 1..Len(t) /\ i = Len(s) + (i - Len(s))
      BY <1>1, <2>3
    <3> QED
      BY <1>1, <2>3, <3>1
  <2> QED
    BY <1>1, <2>2, <2>3
<1>3. Ordered(s \o t)
  <2> SUFFICES ASSUME NEW i \in 1..Len(s \o t), NEW j \in 1..Len(s \o t), i < j
               PROVE  Rank((s \o t)[i]) < Rank((s \o t)[j])
    BY DEF Ordered
  <2>1. CASE j <= Len(s)
    BY <1>1, <2>1 DEF Ordered
  <2>2. CASE i > Len(s)
    <3>1. /\ i - Len(s) \in 1..Len(t) /\ j - Len(s) \in 1..Len(t) /\ i - Len(s) < j - Len(s)
          /\ (s \o t)[i] = t[i - Len(s)] /\ (s \o t)[j] = t[j - Len(s)]
      BY <1>1, <1>2, <2>2
    <3> QED
      BY <3>1 DEF Ordered
  <2>3. CASE i <= Len(s) /\ j > Len(s)
    <3>1. Has(s, (s \o t)[i]) /\ Has(t, (s \o t)[j])
      BY <1>1, <1>2, <2>3 DEF Has
    <3> QED
      BY <3>1
  <2> QED
    BY <1>1, <2>1, <2>2, <2>3
<1>4. ASSUME NEW x, Has(s \o t, x) PROVE Has(s, x) \/ Has(t, x)
  BY <1>2, <1>4 DEF Has
<1>5. ASSUME NEW x, Has(s, x) PROVE Has(s \o t, x)
  BY <1>1, <1>5 DEF Has
<1>6. ASSUME NEW x, Has(t, x) PROVE Has(s \o t, x)
  <2>1. PICK i \in 1..Len(t) : t[i] = x
    BY <1>6 DEF Has
  <2>2. Len(s) + i \in 1..Len(s \o t) /\ (s \o t)[Len(s) + i] = x
    BY <1>1, <2>1
  <2> QED
    BY <2>2 DEF Has
<1> QED
  BY <1>1, <1>3, <1>4, <1>5, <1>6

\* A step that is made on a condition, before the others.
LEMMA Optional ==
  ASSUME NEW c \in BOOLEAN, NEW step \in Steps
  PROVE  LET s == IF c THEN <<step>> ELSE <<>> IN
         s \in Seq(Steps) /\ Ordered(s) /\ \A x : Has(s, x) <=> c /\ x = step
BY Alone, Empty

LEMMA UndoProxyPlan ==
  ASSUME NEW effects
  PROVE  /\ UndoProxy(effects) \in Seq(Steps) /\ Ordered(UndoProxy(effects))
         /\ \A step : Has(UndoProxy(effects), step) <=>
              step = "restartGuard" \/ (step = "apply" /\ "apply" \in effects)
<1> DEFINE apply == IF "apply" \in effects THEN <<"apply">> ELSE <<>>
<1>1. /\ apply \in Seq(Steps) /\ Ordered(apply)
      /\ \A x : Has(apply, x) <=> "apply" \in effects /\ x = "apply"
  BY Optional DEF Steps
<1>2. /\ <<"restartGuard">> \in Seq(Steps) /\ Ordered(<<"restartGuard">>)
      /\ \A x : Has(<<"restartGuard">>, x) <=> x = "restartGuard"
  BY Alone DEF Steps
<1>3. \A x, y : Has(apply, x) /\ Has(<<"restartGuard">>, y) => Rank(x) < Rank(y)
  BY <1>1, <1>2 DEF Rank
<1> HIDE DEF apply
<1>4. /\ apply \o <<"restartGuard">> \in Seq(Steps) /\ Ordered(apply \o <<"restartGuard">>)
      /\ \A x : Has(apply \o <<"restartGuard">>, x) <=>
           Has(apply, x) \/ Has(<<"restartGuard">>, x)
  BY <1>1, <1>2, <1>3, Joined
<1> QED
  BY <1>1, <1>2, <1>4 DEF UndoProxy, apply

\* What is left to do after an error.
UndoSteps(effects) ==
  IF "core" \in effects THEN {"resume", "apply", "restartGuard"}
  ELSE {"undoMemory", "undoFiles", "restartGuard"} \cup (effects \cap {"apply", "reload"})

LEMMA UndoPlan ==
  ASSUME NEW effects
  PROVE  /\ Undo(effects) \in Seq(Steps) /\ Ordered(Undo(effects))
         /\ \A step : Has(Undo(effects), step) <=> step \in UndoSteps(effects)
<1>1. CASE "core" \in effects
  <2>1. Undo(effects) = <<"resume", "apply", "restartGuard">>
    BY <1>1 DEF Undo
  <2> QED
    BY <1>1, <2>1 DEF UndoSteps, Steps, Ordered, Has, Rank
<1>2. CASE "core" \notin effects
  <2> DEFINE first == <<"undoMemory", "undoFiles">>
             then == UndoProxy(effects)
             last == IF "reload" \in effects THEN <<"reload">> ELSE <<>>
  <2>1. /\ first \in Seq(Steps) /\ Ordered(first)
        /\ \A x : Has(first, x) <=> x \in {"undoMemory", "undoFiles"}
    BY DEF Steps, Ordered, Has, Rank
  <2>2. /\ then \in Seq(Steps) /\ Ordered(then)
        /\ \A x : Has(then, x) <=>
             x = "restartGuard" \/ (x = "apply" /\ "apply" \in effects)
    BY UndoProxyPlan
  <2>3. /\ last \in Seq(Steps) /\ Ordered(last)
        /\ \A x : Has(last, x) <=> "reload" \in effects /\ x = "reload"
    BY Optional DEF Steps
  <2>4. Undo(effects) = (first \o then) \o last
    BY <1>2 DEF Undo
  <2> HIDE DEF first, then, last
  <2>5. \A x, y : Has(first, x) /\ Has(then, y) => Rank(x) < Rank(y)
    BY <2>1, <2>2 DEF Rank
  <2>6. /\ first \o then \in Seq(Steps) /\ Ordered(first \o then)
        /\ \A x : Has(first \o then, x) <=> Has(first, x) \/ Has(then, x)
    BY <2>1, <2>2, <2>5, Joined
  <2>7. \A x, y : Has(first \o then, x) /\ Has(last, y) => Rank(x) < Rank(y)
    BY <2>1, <2>2, <2>3, <2>6 DEF Rank
  <2>8. /\ (first \o then) \o last \in Seq(Steps) /\ Ordered((first \o then) \o last)
        /\ \A x : Has((first \o then) \o last, x) <=> Has(first \o then, x) \/ Has(last, x)
    BY <2>3, <2>6, <2>7, Joined
  <2> QED
    BY <1>2, <2>1, <2>2, <2>3, <2>4, <2>6, <2>8 DEF UndoSteps
<1> QED
  BY <1>1, <1>2

\* What a save has to do.
LEMMA SavePlanned ==
  ASSUME NEW prev \in Settings, NEW next \in Settings
  PROVE  /\ SavePlan(prev, next) \in Seq(Steps) /\ Ordered(SavePlan(prev, next))
         /\ \A step : Has(SavePlan(prev, next), step) =>
              step \in {"regenerate", "persist", "apply", "restartGuard", "reload", "hotkeys"}
         /\ Has(SavePlan(prev, next), "persist") /\ Has(SavePlan(prev, next), "restartGuard")
         /\ Has(SavePlan(prev, next), "apply") <=> next.proxy \/ prev.proxy
         /\ Has(SavePlan(prev, next), "regenerate") <=> next.port # prev.port
         /\ Has(SavePlan(prev, next), "reload") <=> next.port # prev.port
<1> DEFINE new == next.port # prev.port
           on == next.proxy \/ prev.proxy
           a == IF new THEN <<"regenerate">> ELSE <<>>
           b == IF on THEN <<"apply">> ELSE <<>>
           c == IF new THEN <<"reload">> ELSE <<>>
           p1 == a \o <<"persist">>
           p2 == p1 \o b
           p3 == p2 \o <<"restartGuard">>
           p4 == p3 \o c
           p5 == p4 \o <<"hotkeys">>
<1>1. SavePlan(prev, next) = p5
  BY DEF SavePlan
<1>2. new \in BOOLEAN /\ on \in BOOLEAN
  BY DEF Settings
<1>3. /\ a \in Seq(Steps) /\ Ordered(a) /\ \A x : Has(a, x) <=> new /\ x = "regenerate"
      /\ b \in Seq(Steps) /\ Ordered(b) /\ \A x : Has(b, x) <=> on /\ x = "apply"
      /\ c \in Seq(Steps) /\ Ordered(c) /\ \A x : Has(c, x) <=> new /\ x = "reload"
  <2>1. {"regenerate", "apply", "reload"} \subseteq Steps
    BY DEF Steps
  <2> HIDE DEF new, on
  <2> QED
    BY <1>2, <2>1, Optional
<1>4. \A step \in {"persist", "restartGuard", "hotkeys"} :
        /\ <<step>> \in Seq(Steps) /\ Ordered(<<step>>)
        /\ \A x : Has(<<step>>, x) <=> x = step
  BY Alone DEF Steps
<1> HIDE DEF new, on, a, b, c
<1>5. /\ p1 \in Seq(Steps) /\ Ordered(p1)
      /\ \A x : Has(p1, x) => x \in {"regenerate", "persist"}
      /\ Has(p1, "persist") /\ (Has(p1, "regenerate") <=> new)
  <2>1. \A x, y : Has(a, x) /\ Has(<<"persist">>, y) => Rank(x) < Rank(y)
    BY <1>3, <1>4 DEF Rank
  <2>2. /\ a \o <<"persist">> \in Seq(Steps) /\ Ordered(a \o <<"persist">>)
        /\ \A x : Has(a \o <<"persist">>, x) <=> Has(a, x) \/ Has(<<"persist">>, x)
    BY <1>3, <1>4, <2>1, Joined
  <2> QED
    BY <1>3, <1>4, <2>2
<1> HIDE DEF p1
<1>6. /\ p2 \in Seq(Steps) /\ Ordered(p2)
      /\ \A x : Has(p2, x) => x \in {"regenerate", "persist", "apply"}
      /\ Has(p2, "persist") /\ (Has(p2, "regenerate") <=> new)
      /\ Has(p2, "apply") <=> on
  <2>1. \A x, y : Has(p1, x) /\ Has(b, y) => Rank(x) < Rank(y)
    BY <1>3, <1>5 DEF Rank
  <2>2. /\ p1 \o b \in Seq(Steps) /\ Ordered(p1 \o b)
        /\ \A x : Has(p1 \o b, x) <=> Has(p1, x) \/ Has(b, x)
    BY <1>3, <1>5, <2>1, Joined
  <2>3. \A x : Has(p2, x) <=> Has(p1, x) \/ (on /\ x = "apply")
    BY <1>3, <2>2
  <2>4. p2 \in Seq(Steps) /\ Ordered(p2)
    BY <2>2
  <2> HIDE DEF p2
  <2> QED
    BY <1>5, <2>3, <2>4
<1> HIDE DEF p2
<1>7. /\ p3 \in Seq(Steps) /\ Ordered(p3)
      /\ \A x : Has(p3, x) => x \in {"regenerate", "persist", "apply", "restartGuard"}
      /\ Has(p3, "persist") /\ (Has(p3, "regenerate") <=> new)
      /\ Has(p3, "restartGuard")
      /\ Has(p3, "apply") <=> on
  <2>1. \A x, y : Has(p2, x) /\ Has(<<"restartGuard">>, y) => Rank(x) < Rank(y)
    BY <1>4, <1>6 DEF Rank
  <2>2. /\ p2 \o <<"restartGuard">> \in Seq(Steps) /\ Ordered(p2 \o <<"restartGuard">>)
        /\ \A x : Has(p2 \o <<"restartGuard">>, x) <=> Has(p2, x) \/ Has(<<"restartGuard">>, x)
    BY <1>4, <1>6, <2>1, Joined
  <2> QED
    BY <1>4, <1>6, <2>2
<1> HIDE DEF p3
<1>8. /\ p4 \in Seq(Steps) /\ Ordered(p4)
      /\ \A x : Has(p4, x) =>
           x \in {"regenerate", "persist", "apply", "restartGuard", "reload"}
      /\ Has(p4, "persist") /\ (Has(p4, "regenerate") <=> new) /\ (Has(p4, "reload") <=> new)
      /\ Has(p4, "restartGuard")
      /\ Has(p4, "apply") <=> on
  <2>1. \A x, y : Has(p3, x) /\ Has(c, y) => Rank(x) < Rank(y)
    BY <1>3, <1>7 DEF Rank
  <2>2. /\ p3 \o c \in Seq(Steps) /\ Ordered(p3 \o c)
        /\ \A x : Has(p3 \o c, x) <=> Has(p3, x) \/ Has(c, x)
    BY <1>3, <1>7, <2>1, Joined
  <2> QED
    BY <1>3, <1>7, <2>2
<1> HIDE DEF p4
<1>9. /\ p5 \in Seq(Steps) /\ Ordered(p5)
      /\ \A x : Has(p5, x) =>
           x \in {"regenerate", "persist", "apply", "restartGuard", "reload", "hotkeys"}
      /\ Has(p5, "persist") /\ (Has(p5, "regenerate") <=> new) /\ (Has(p5, "reload") <=> new)
      /\ Has(p5, "restartGuard")
      /\ Has(p5, "apply") <=> on
  <2>1. \A x, y : Has(p4, x) /\ Has(<<"hotkeys">>, y) => Rank(x) < Rank(y)
    BY <1>4, <1>8 DEF Rank
  <2>2. /\ p4 \o <<"hotkeys">> \in Seq(Steps) /\ Ordered(p4 \o <<"hotkeys">>)
        /\ \A x : Has(p4 \o <<"hotkeys">>, x) <=> Has(p4, x) \/ Has(<<"hotkeys">>, x)
    BY <1>4, <1>8, <2>1, Joined
  <2> QED
    BY <1>4, <1>8, <2>2
<1> HIDE DEF p5
<1> QED
  BY <1>1, <1>9 DEF on, new

(************************** the steps of a command ***************************)

ControlTypes ==
  /\ plan \in Seq(Steps)
  /\ IF plan = <<>> THEN before = None ELSE before \in Captures
  /\ tried \subseteq {"apply", "reload", "core"}
  /\ trouble \in {"none", "failed", "broken"}

\* A step leaves the settings alone, unless it is the one that takes them back.
Restores ==
  IF Head(plan) = "undoMemory" THEN settings' = before.settings ELSE settings' = settings

\* A step is made: with it the command has tried what it had, and perhaps the step.
Proceeds(effects, errors) ==
  /\ plan # <<>> /\ Goes(Tail(plan), effects, errors) /\ Restores
  /\ tried \subseteq effects /\ effects \subseteq {"apply", "reload", "core"}
  /\ effects \ tried \subseteq {Head(plan)}
  /\ errors = trouble \/ (errors = "broken" /\ trouble # "none")
  /\ errors = "none" /\ Head(plan) = "apply" => "apply" \in effects

LEMMA Going ==
  ASSUME TypeOK, PlanInv, NEW effects, NEW errors, Proceeds(effects, errors)
  PROVE  /\ plan' \in Seq(Steps) /\ Ordered(plan')
         /\ \A step : Todo(step)' => Todo(step) /\ Rank(Head(plan)) < Rank(step)
         /\ \A step : Todo(step) => step = Head(plan) \/ Todo(step)'
         /\ Todo(Head(plan)) /\ Head(plan) \in Steps
         /\ IF plan' = <<>> THEN before' = None /\ tried' = {} /\ trouble' = "none"
            ELSE before' = before /\ tried' = effects /\ trouble' = errors
<1>1. plan \in Seq(Steps) /\ plan # <<>> /\ Ordered(plan) /\ plan' = Tail(plan)
  BY DEF TypeOK, PlanInv, Proceeds, Goes
<1>2. /\ Tail(plan) \in Seq(Steps) /\ Ordered(Tail(plan))
      /\ Has(plan, Head(plan)) /\ Head(plan) \in Steps
      /\ \A step : Has(Tail(plan), step) => Has(plan, step) /\ Rank(Head(plan)) < Rank(step)
      /\ \A step : Has(plan, step) => step = Head(plan) \/ Has(Tail(plan), step)
  BY <1>1, First
<1> QED
  BY <1>1, <1>2 DEF Todo, Proceeds, Goes

LEMMA CoreStays ==
  ASSUME TypeOK, PlanInv, NEW effects, NEW errors, Proceeds(effects, errors)
  PROVE  "core" \in effects <=> "core" \in tried
<1>1. Head(plan) \in Steps
  BY Going
<1> QED
  BY <1>1 DEF Steps, Proceeds

LEMMA StillUntouched ==
  ASSUME TypeOK, PlanInv, NEW effects, NEW errors, Proceeds(effects, errors), Untouched'
  PROVE  Untouched /\ before' = before
<1>1. plan' # <<>> /\ tried' \cap {"core", "apply"} = {}
  BY DEF Untouched
<1>2. before' = before /\ tried' = effects
  BY <1>1, Going
<1>3. plan # <<>> /\ tried \cap {"core", "apply"} = {}
  BY <1>1, <1>2 DEF Proceeds
<1> QED
  BY <1>2, <1>3 DEF Untouched

LEMMA ProceedsKeepsTypes ==
  ASSUME TypeOK, PlanInv, NEW effects, NEW errors, Proceeds(effects, errors)
  PROVE  ControlTypes' /\ (plan' = <<>> => tried' = {} /\ trouble' = "none")
BY Going DEF TypeOK, ControlTypes, Proceeds

LEMMA ProceedsKeepsPlan ==
  ASSUME TypeOK, PlanInv, NEW effects, NEW errors, Proceeds(effects, errors)
  PROVE  PlanInv'
<1>1. Ordered(plan)'
  BY Going
<1>2. ASSUME NEW step \in {"stopCore", "retireGuard", "clear"}, Todo(step)'
      PROVE  Todo("launch")'
  BY <1>2, Going DEF PlanInv, Rank
<1>3. ASSUME Todo("launch")' PROVE "core" \in tried' /\ trouble' = "none"
  <2>1. plan' # <<>>
    BY <1>3, Empty DEF Todo
  <2> QED
    BY <1>3, <2>1, Going DEF PlanInv, Proceeds
<1>4. Todo("resume")' => Todo("apply")'
  BY Going DEF PlanInv, Rank
<1>5. ASSUME Todo("undoMemory")' \/ Todo("undoFiles")'
      PROVE  /\ "core" \notin tried' /\ trouble' # "none" /\ Todo("restartGuard")'
             /\ "apply" \in tried' => Todo("apply")'
  <2>1. plan' # <<>>
    BY <1>5, Empty DEF Todo
  <2>2. Todo("undoMemory") \/ Todo("undoFiles")
    BY <1>5, Going
  <2>3. Head(plan) \notin {"core", "apply", "restartGuard"}
    BY <1>5, Going DEF Rank, Steps
  <2>4. /\ "core" \notin tried /\ trouble # "none" /\ Todo("restartGuard")
        /\ "apply" \in tried => Todo("apply")
    BY <2>2 DEF PlanInv
  <2>5. tried' = effects /\ trouble' = errors
    BY <2>1, Going
  <2>6. "core" \notin effects /\ ("apply" \in effects => "apply" \in tried) /\ errors # "none"
    BY <2>3, <2>4, CoreStays DEF Proceeds
  <2>7. Todo("restartGuard")' /\ (Todo("apply") => Todo("apply")')
    BY <2>3, <2>4, Going
  <2> QED
    BY <2>4, <2>5, <2>6, <2>7
<1>6. ASSUME Todo("boot")' PROVE FALSE
  <2>1. Head(plan) = "boot"
    BY <1>6, Going DEF PlanInv
  <2> QED
    BY <1>6, <2>1, Going DEF Rank
<1>7. ASSUME plan' # <<>>, trouble' # "none", "core" \notin tried', ~Todo("undoMemory")'
      PROVE  settings' = (before.settings)'
  <2>1. CASE Head(plan) = "undoMemory"
    BY <1>7, <2>1, Going DEF Proceeds, Restores
  <2>2. CASE Head(plan) # "undoMemory"
    <3>1. ~Todo("undoMemory") /\ plan # <<>> /\ trouble # "none" /\ "core" \notin tried
      BY <1>7, <2>2, Going DEF Proceeds
    <3>2. settings = before.settings
      BY <3>1 DEF PlanInv
    <3> QED
      BY <1>7, <2>2, <3>2, Going DEF Proceeds, Restores
  <2> QED
    BY <2>1, <2>2
<1>8. ASSUME trouble' = "none", tried' \cap {"core", "apply"} = {}, Todo("restartGuard")',
             ~Todo("apply")'
      PROVE  ~settings'.proxy
  <2>1. plan' # <<>>
    BY <1>8, Empty DEF Todo
  <2>2. trouble = "none" /\ tried \cap {"core", "apply"} = {} /\ Todo("restartGuard")
    BY <1>8, <2>1, Going DEF Proceeds
  <2>3. Head(plan) # "apply"
    BY <1>8, <2>1, Going DEF Proceeds
  <2>4. Head(plan) # "undoMemory"
    BY <2>2, Going DEF PlanInv
  <2> QED
    BY <1>8, <2>2, <2>3, <2>4, Going DEF PlanInv, Proceeds, Restores
<1> QED
  BY <1>1, <1>2, <1>3, <1>4, <1>5, <1>6, <1>7, <1>8 DEF PlanInv

LEMMA ProceedsKeepsGuard ==
  ASSUME TypeOK, PlanInv, GuardInv, NEW effects, NEW errors, Proceeds(effects, errors),
         Head(plan) \notin {"restartGuard", "retireGuard", "launch"}, UNCHANGED <<up, guards>>
  PROVE  GuardInv'
<1>1. Watched' <=> Watched
  BY DEF Watched, guards
<1>2. ASSUME up' PROVE (Watched <=> Guarded(settings))' \/ Todo("restartGuard")' \/ Todo("launch")'
  <2>1. CASE Head(plan) = "undoMemory"
    BY <2>1, Going DEF PlanInv
  <2>2. CASE Head(plan) # "undoMemory"
    <3>1. settings' = settings
      BY <2>2 DEF Proceeds, Restores
    <3> QED
      BY <1>1, <1>2, <3>1, Going DEF GuardInv, Guarded
  <2> QED
    BY <2>1, <2>2
<1>3. ASSUME Untouched', Watched' PROVE Guarded(before.settings)'
  <2>1. Untouched /\ before' = before
    BY <1>3, StillUntouched
  <2> QED
    BY <1>1, <1>3, <2>1 DEF GuardInv, Guarded
<1> QED
  BY <1>2, <1>3 DEF GuardInv

LEMMA ProceedsKeepsProxy ==
  ASSUME TypeOK, PlanInv, ProxyInv, NEW effects, NEW errors, Proceeds(effects, errors),
         Head(plan) \notin {"apply", "launch"}, UNCHANGED <<up, os, quit, foreign>>,
         spoiled' = spoiled \/ spoiled' = TRUE
  PROVE  ProxyInv'
<1> SUFFICES ASSUME up', quit' = "no", ~spoiled', ~foreign'
             PROVE  /\ Untouched' => TakesEffect(before.settings)'
                    /\ ~Todo("apply")' /\ ~Todo("launch")' /\ ~Todo("undoMemory")' =>
                         TakesEffect(settings)'
  BY DEF ProxyInv
<1>1. /\ Untouched => TakesEffect(before.settings)
      /\ ~Todo("apply") /\ ~Todo("launch") /\ ~Todo("undoMemory") => TakesEffect(settings)
  BY DEF ProxyInv
<1>2. ASSUME Untouched' PROVE TakesEffect(before.settings)'
  <2>1. Untouched /\ before' = before
    BY <1>2, StillUntouched
  <2> QED
    BY <1>1, <2>1 DEF TakesEffect, Expected, Guarded
<1>3. ASSUME ~Todo("apply")', ~Todo("launch")', ~Todo("undoMemory")' PROVE TakesEffect(settings)'
  <2>1. ~Todo("apply") /\ ~Todo("launch")
    BY <1>3, Going
  <2>2. CASE Head(plan) = "undoMemory"
    <3>1. Untouched /\ settings' = before.settings
      BY <2>1, <2>2, Going DEF PlanInv, Untouched, Proceeds, Restores
    <3> QED
      BY <1>1, <3>1 DEF TakesEffect, Expected, Guarded
  <2>3. CASE Head(plan) # "undoMemory"
    <3>1. ~Todo("undoMemory") /\ settings' = settings
      BY <1>3, <2>3, Going DEF Proceeds, Restores
    <3> QED
      BY <1>1, <2>1, <3>1 DEF TakesEffect, Expected, Guarded
  <2> QED
    BY <2>2, <2>3
<1> QED
  BY <1>2, <1>3

\* Types of what only a command changes, and what a command that has returned leaves.
ControlInv == ControlTypes /\ (plan = <<>> => tried = {} /\ trouble = "none")

\* The first error of a command puts its rollback in the place of what was left.
LEMMA FirstError ==
  ASSUME TypeOK, PlanInv, GuardInv, ProxyInv, plan # <<>>, trouble = "none", NEW effects,
         tried \subseteq effects, effects \subseteq {"apply", "reload", "core"},
         Goes(Undo(effects), effects, "failed"),
         UNCHANGED <<up, settings, os, guards, quit, spoiled, foreign>>
  PROVE  ControlInv' /\ PlanInv' /\ GuardInv' /\ ProxyInv'
<1>1. /\ plan' \in Seq(Steps) /\ Ordered(plan')
      /\ \A step : Todo(step)' <=> step \in UndoSteps(effects)
  BY UndoPlan DEF Goes, Todo
<1>2. Todo("restartGuard")' /\ plan' # <<>>
  BY <1>1, Empty DEF UndoSteps, Todo
<1>3. before' = before /\ tried' = effects /\ trouble' = "failed"
  BY <1>2 DEF Goes
<1>4. ControlInv'
  BY <1>1, <1>2, <1>3 DEF TypeOK, ControlTypes, ControlInv
<1>5. PlanInv'
  <2>1. CASE "core" \in effects
    BY <1>1, <1>2, <1>3, <2>1 DEF PlanInv, UndoSteps
  <2>2. CASE "core" \notin effects
    BY <1>1, <1>2, <1>3, <2>2 DEF PlanInv, UndoSteps
  <2> QED
    BY <2>1, <2>2
<1>6. Untouched' => Untouched
  BY <1>2, <1>3 DEF Untouched
<1>7. GuardInv'
  BY <1>2, <1>3, <1>6 DEF GuardInv, Watched, Guarded, guards
<1>8. ProxyInv'
  <2>1. Todo("undoMemory")' \/ Todo("apply")'
    BY <1>1 DEF UndoSteps
  <2> QED
    BY <1>3, <1>6, <2>1 DEF ProxyInv, TakesEffect, Expected, Guarded
<1> QED
  BY <1>4, <1>5, <1>7, <1>8

\* So does every error of a command keep the invariants: those of a rollback leave
\* their mark.
LEMMA ErrorKeeps ==
  ASSUME TypeOK, PlanInv, GuardInv, ProxyInv, plan # <<>>, NEW effects,
         FailsWith(effects), tried \subseteq effects, effects \ tried \subseteq {Head(plan)},
         effects \subseteq {"apply", "reload", "core"},
         Head(plan) \notin {"restartGuard", "retireGuard", "undoMemory"},
         UNCHANGED <<up, settings, os, guards, quit, foreign>>
  PROVE  ControlInv' /\ PlanInv' /\ GuardInv' /\ ProxyInv' /\ spoiled' \in BOOLEAN
<1>1. CASE trouble = "none"
  BY <1>1, FirstError DEF FailsWith, TypeOK
<1>2. CASE trouble # "none"
  <2>1. Proceeds(effects, "broken") /\ spoiled' = TRUE
    BY <1>2 DEF FailsWith, Proceeds, Restores
  <2>2. Head(plan) # "launch"
    BY <1>2, <2>1, Going DEF PlanInv
  <2>3. ControlInv' /\ PlanInv' /\ GuardInv'
    BY <2>1, <2>2, ProceedsKeepsTypes, ProceedsKeepsPlan, ProceedsKeepsGuard DEF ControlInv
  <2> QED
    BY <2>1, <2>3 DEF ProxyInv
<1> QED
  BY <1>1, <1>2

\* A step that succeeds, and has nothing to do with the proxy or the guard.
LEMMA SuccessKeeps ==
  ASSUME TypeOK, PlanInv, GuardInv, ProxyInv, plan # <<>>, NEW effects,
         Goes(Tail(plan), effects, trouble), Restores,
         tried \subseteq effects, effects \ tried \subseteq {Head(plan)},
         effects \subseteq {"apply", "reload", "core"},
         Head(plan) \notin {"apply", "restartGuard", "retireGuard", "clear", "launch"},
         UNCHANGED <<up, os, guards, quit, spoiled, foreign>>
  PROVE  ControlInv' /\ PlanInv' /\ GuardInv' /\ ProxyInv'
<1>1. Proceeds(effects, trouble)
  BY DEF Proceeds
<1> QED
  BY <1>1, ProceedsKeepsTypes, ProceedsKeepsPlan, ProceedsKeepsGuard, ProceedsKeepsProxy
     DEF ControlInv

\* The types of what the application, the files and the system keep.
OutsideTypes ==
  /\ up \in BOOLEAN
  /\ settings \in Settings /\ saved \in Settings
  /\ runtime \in Ports /\ core \in Ports \cup {Down} /\ os \in Proxies
  /\ quit \in {"no", "cleared", "stopped"}
  /\ spoiled \in BOOLEAN /\ foreign \in BOOLEAN /\ raced \in BOOLEAN

GuardTypes ==
  /\ generation \in 0..MaxGen
  /\ loops \in [Generations -> Loops]
  /\ \A g \in Generations : loops[g] # NoLoop => g <= generation

LEMMA Types == TypeOK <=> OutsideTypes /\ GuardTypes /\ ControlTypes
BY DEF TypeOK, OutsideTypes, GuardTypes, ControlTypes

LEMMA GuardTypesFrame == ASSUME GuardTypes, UNCHANGED guards PROVE GuardTypes'
BY DEF GuardTypes, guards

LEMMA AtHead ==
  ASSUME IInv, NEW step, At(step)
  PROVE  /\ TypeOK /\ PlanInv /\ GuardInv /\ ProxyInv /\ OutsideTypes /\ GuardTypes
         /\ plan # <<>> /\ Head(plan) = step /\ Todo(step) /\ up
         /\ before \in Captures /\ tried \subseteq {"apply", "reload", "core"}
<1>1. TypeOK /\ PlanInv /\ GuardInv /\ ProxyInv /\ plan # <<>> /\ Head(plan) = step /\ up
  BY DEF IInv, At, DownInv
<1>2. Has(plan, Head(plan))
  BY <1>1, First DEF TypeOK, PlanInv
<1> QED
  BY <1>1, <1>2, Types DEF TypeOK, Todo

LEMMA Rejoin ==
  ASSUME OutsideTypes', GuardTypes', ControlInv', PlanInv', GuardInv', ProxyInv', up'
  PROVE  IInv'
BY DEF IInv, ControlInv, DownInv, TypeOK, OutsideTypes, GuardTypes, ControlTypes

\* A step that has nothing to do with the proxy or the guard, and what it does to
\* the files and to the core.
LEMMA OrdinaryStep ==
  ASSUME IInv, NEW step, At(step),
         step \notin {"apply", "restartGuard", "retireGuard", "clear", "launch"},
         NEW effects \in {tried, tried \cup {step}}, effects \subseteq {"apply", "reload", "core"},
         \/ Goes(Tail(plan), effects, trouble) /\ Restores /\ UNCHANGED spoiled
         \/ FailsWith(effects) /\ step # "undoMemory" /\ settings' = settings,
         UNCHANGED <<up, os, guards, quit, foreign>>,
         saved' \in Settings, runtime' \in Ports, core' \in Ports \cup {Down}, raced' \in BOOLEAN
  PROVE  IInv'
<1>1. /\ TypeOK /\ PlanInv /\ GuardInv /\ ProxyInv /\ OutsideTypes /\ GuardTypes
      /\ plan # <<>> /\ Head(plan) = step /\ up /\ before \in Captures
      /\ tried \subseteq effects /\ effects \ tried \subseteq {Head(plan)}
  BY AtHead
<1>2. /\ ControlInv' /\ PlanInv' /\ GuardInv' /\ ProxyInv'
      /\ settings' \in {settings, before.settings} /\ spoiled' \in BOOLEAN
  <2>1. CASE Goes(Tail(plan), effects, trouble) /\ Restores /\ UNCHANGED spoiled
    <3>1. ControlInv' /\ PlanInv' /\ GuardInv' /\ ProxyInv'
      BY <1>1, <2>1, SuccessKeeps
    <3> QED
      BY <1>1, <2>1, <3>1 DEF Restores, OutsideTypes
  <2>2. CASE FailsWith(effects) /\ step # "undoMemory" /\ settings' = settings
    BY <1>1, <2>2, ErrorKeeps
  <2> QED
    BY <2>1, <2>2
<1>3. OutsideTypes' /\ GuardTypes' /\ up'
  BY <1>1, <1>2, GuardTypesFrame DEF OutsideTypes, Captures
<1> QED
  BY <1>2, <1>3, Rejoin

\* The conversions of a captured file, a setting and the core stay in their types.
LEMMA Parts ==
  ASSUME IInv
  PROVE  /\ settings \in Settings /\ saved \in Settings /\ settings.port \in Ports
         /\ runtime \in Ports /\ core \in Ports \cup {Down} /\ raced \in BOOLEAN
         /\ tried \subseteq {"apply", "reload", "core"}
         /\ Expected(settings) \in Proxies
BY DEF IInv, TypeOK, Settings, Proxies, Expected

LEMMA PlainStep ==
  ASSUME IInv, NEW step, At(step),
         step \notin {"apply", "restartGuard", "retireGuard", "clear", "launch"},
         (Done /\ Restores) \/ (Fail /\ step # "undoMemory" /\ settings' = settings),
         UNCHANGED <<up, os, guards, quit, foreign>>,
         saved' \in Settings, runtime' \in Ports, core' \in Ports \cup {Down}, raced' \in BOOLEAN
  PROVE  IInv'
<1> DEFINE effects == tried
<1>1. \/ Goes(Tail(plan), effects, trouble) /\ Restores /\ UNCHANGED spoiled
      \/ FailsWith(effects) /\ step # "undoMemory" /\ settings' = settings
  BY DEF Done, Fail
<1>2. effects \in {tried, tried \cup {step}} /\ effects \subseteq {"apply", "reload", "core"}
  BY Parts
<1> HIDE DEF effects
<1> QED
  BY <1>1, <1>2, OrdinaryStep

LEMMA RegenerateStep == ASSUME IInv, Regenerate PROVE IInv'
<1>1. /\ At("regenerate") /\ UNCHANGED <<up, os, guards, quit, foreign>>
      /\ settings' = settings /\ saved' \in Settings /\ runtime' \in Ports
      /\ core' \in Ports \cup {Down} /\ raced' \in BOOLEAN
      /\ (Done /\ Restores) \/ Fail
  BY Parts DEF Regenerate, Restores, At
<1> QED
  BY <1>1, PlainStep

LEMMA PersistStep == ASSUME IInv, Persist PROVE IInv'
<1>1. /\ At("persist") /\ UNCHANGED <<up, os, guards, quit, foreign>>
      /\ settings' = settings /\ saved' \in Settings /\ runtime' \in Ports
      /\ core' \in Ports \cup {Down} /\ raced' \in BOOLEAN
      /\ (Done /\ Restores) \/ Fail
  BY Parts DEF Persist, Restores, At, outside
<1> QED
  BY <1>1, PlainStep

LEMMA ReloadStep == ASSUME IInv, Reload PROVE IInv'
<1> DEFINE effects == tried \cup {"reload"}
<1>1. /\ At("reload") /\ UNCHANGED <<up, os, guards, quit, foreign>>
      /\ settings' = settings /\ saved' \in Settings /\ runtime' \in Ports
      /\ core' \in Ports \cup {Down} /\ raced' \in BOOLEAN
      /\ \/ Goes(Tail(plan), effects, trouble) /\ Restores /\ UNCHANGED spoiled
         \/ FailsWith(effects)
  BY Parts DEF Reload, DoneTrying, FailTrying, Restores, At
<1>2. effects \subseteq {"apply", "reload", "core"}
  BY Parts
<1> HIDE DEF effects
<1> QED
  BY <1>1, <1>2, OrdinaryStep DEF effects

LEMMA HotkeysStep == ASSUME IInv, Hotkeys PROVE IInv'
<1>1. /\ At("hotkeys") /\ UNCHANGED <<up, os, guards, quit, foreign>>
      /\ settings' = settings /\ saved' \in Settings /\ runtime' \in Ports
      /\ core' \in Ports \cup {Down} /\ raced' \in BOOLEAN
      /\ (Done /\ Restores) \/ Fail
  BY Parts DEF Hotkeys, Restores, At, outside
<1> QED
  BY <1>1, PlainStep

LEMMA StopCoreStep == ASSUME IInv, StopCore PROVE IInv'
<1>1. /\ At("stopCore") /\ UNCHANGED <<up, os, guards, quit, foreign>>
      /\ settings' = settings /\ saved' \in Settings /\ runtime' \in Ports
      /\ core' \in Ports \cup {Down} /\ raced' \in BOOLEAN
      /\ (Done /\ Restores) \/ Fail
  BY Parts DEF StopCore, Restores, At
<1> QED
  BY <1>1, PlainStep

LEMMA ResumeStep == ASSUME IInv, Resume PROVE IInv'
<1>1. /\ At("resume") /\ UNCHANGED <<up, os, guards, quit, foreign>>
      /\ settings' = settings /\ saved' \in Settings /\ runtime' \in Ports
      /\ core' \in Ports \cup {Down} /\ raced' \in BOOLEAN
      /\ (Done /\ Restores) \/ Fail
  BY Parts DEF Resume, Restores, At
<1> QED
  BY <1>1, PlainStep

LEMMA UndoMemoryStep == ASSUME IInv, UndoMemory PROVE IInv'
<1>1. /\ At("undoMemory") /\ UNCHANGED <<up, os, guards, quit, foreign>>
      /\ saved' \in Settings /\ runtime' \in Ports
      /\ core' \in Ports \cup {Down} /\ raced' \in BOOLEAN
      /\ Done /\ Restores
  BY Parts DEF UndoMemory, Restores, At, outside
<1> QED
  BY <1>1, PlainStep

LEMMA ApplyStep == ASSUME IInv, Apply PROVE IInv'
<1> DEFINE effects == tried \cup {"apply"}
<1>1. /\ TypeOK /\ PlanInv /\ GuardInv /\ ProxyInv /\ OutsideTypes /\ GuardTypes
      /\ plan # <<>> /\ Head(plan) = "apply" /\ up
      /\ tried \subseteq {"apply", "reload", "core"}
  BY AtHead DEF Apply
<1>2. UNCHANGED <<up, settings, saved, runtime, core, guards, quit, raced>>
  BY DEF Apply
<1>3. /\ effects \subseteq {"apply", "reload", "core"} /\ tried \subseteq effects
      /\ effects \ tried \subseteq {Head(plan)} /\ "apply" \in effects
  BY <1>1
<1>4. \/ /\ os' = Expected(settings) /\ foreign' = FALSE /\ spoiled' = spoiled
         /\ Goes(Tail(plan), effects, trouble)
      \/ FailsWith(effects) /\ UNCHANGED <<os, foreign>>
  BY DEF Apply, SetProxy, DoneTrying, FailTrying
<1> HIDE DEF effects
<1>5. GuardTypes' /\ up'
  BY <1>1, <1>2, GuardTypesFrame
<1>6. CASE /\ os' = Expected(settings) /\ foreign' = FALSE /\ spoiled' = spoiled
           /\ Goes(Tail(plan), effects, trouble)
  <2>1. Proceeds(effects, trouble)
    BY <1>1, <1>2, <1>3, <1>6 DEF Proceeds, Restores
  <2>2. ControlInv' /\ PlanInv' /\ GuardInv'
    BY <1>1, <1>2, <2>1, ProceedsKeepsTypes, ProceedsKeepsPlan, ProceedsKeepsGuard DEF ControlInv
  <2>3. ~Untouched'
    BY <1>1, <1>3, <2>1, Going DEF Untouched
  <2>4. TakesEffect(settings)'
    BY <1>2, <1>6 DEF TakesEffect, Expected
  <2>5. OutsideTypes'
    BY <1>1, <1>2, <1>6, Parts DEF OutsideTypes
  <2> QED
    BY <1>5, <2>2, <2>3, <2>4, <2>5, Rejoin DEF ProxyInv
<1>7. CASE FailsWith(effects) /\ UNCHANGED <<os, foreign>>
  <2>1. ControlInv' /\ PlanInv' /\ GuardInv' /\ ProxyInv' /\ spoiled' \in BOOLEAN
    BY <1>1, <1>2, <1>3, <1>7, ErrorKeeps
  <2>2. OutsideTypes'
    BY <1>1, <1>2, <1>7, <2>1 DEF OutsideTypes
  <2> QED
    BY <1>5, <2>1, <2>2, Rejoin
<1> QED
  BY <1>4, <1>6, <1>7

\* The guard that starts is the one the settings ask for.
LEMMA GuardStarts ==
  ASSUME GuardTypes, RestartGuard, settings' = settings
  PROVE  GuardTypes' /\ (Watched' <=> Guarded(settings)')
<1>1. generation \in Nat /\ generation + 1 \in Generations /\ generation' = generation + 1
  BY ProxyAssumption DEF GuardTypes, RestartGuard, Generations
<1>2. loops' = [loops EXCEPT ![generation + 1] =
                  IF Guarded(settings) THEN [at |-> "asleep"] ELSE NoLoop]
  BY DEF RestartGuard
<1>3. NoLoop \in Loops /\ [at |-> "asleep"] \in Loops /\ [at |-> "asleep"] # NoLoop
  BY DEF NoLoop, Loops
<1>4. generation' \in 0..MaxGen
  BY <1>1 DEF Generations
<1>5. loops' \in [Generations -> Loops]
  BY <1>1, <1>2, <1>3 DEF GuardTypes
<1>6. ASSUME NEW g \in Generations, loops'[g] # NoLoop PROVE g <= generation'
  BY <1>1, <1>2, <1>6 DEF GuardTypes, Generations
<1>7. Watched' <=> loops'[generation + 1] # NoLoop
  BY <1>1 DEF Watched
<1>8. Watched' <=> Guarded(settings)
  BY <1>1, <1>2, <1>3, <1>7 DEF GuardTypes
<1> QED
  BY <1>4, <1>5, <1>6, <1>8 DEF GuardTypes, Guarded

LEMMA GuardsStep == ASSUME IInv, Guards PROVE IInv'
<1>1. /\ TypeOK /\ PlanInv /\ GuardInv /\ ProxyInv /\ OutsideTypes /\ GuardTypes
      /\ plan # <<>> /\ Head(plan) = "restartGuard" /\ Todo("restartGuard") /\ up
      /\ tried \subseteq {"apply", "reload", "core"}
  BY AtHead DEF Guards
<1>2. /\ UNCHANGED <<up, settings, saved, runtime, core, os, quit, foreign, raced, spoiled>>
      /\ Goes(Tail(plan), tried, trouble) /\ RestartGuard
  BY DEF Guards, Done, outside
<1>3. Proceeds(tried, trouble)
  BY <1>1, <1>2 DEF Proceeds, Restores
<1>4. ControlInv' /\ PlanInv' /\ ProxyInv'
  BY <1>1, <1>2, <1>3, ProceedsKeepsTypes, ProceedsKeepsPlan, ProceedsKeepsProxy DEF ControlInv
<1>5. GuardTypes' /\ (Watched' <=> Guarded(settings)')
  BY <1>1, <1>2, GuardStarts
<1>6. ASSUME Untouched', Watched' PROVE Guarded(before.settings)'
  <2>1. Untouched /\ before' = before
    BY <1>1, <1>3, <1>6, StillUntouched
  <2>2. ~Todo("apply") /\ ~Todo("undoMemory")
    BY <1>1, <1>3, Going DEF Rank
  <2>3. Guarded(settings)
    BY <1>2, <1>5, <1>6 DEF Guarded
  <2>4. trouble # "none"
    BY <1>1, <2>1, <2>2, <2>3 DEF PlanInv, Untouched, Guarded
  <2>5. settings = before.settings
    BY <1>1, <2>1, <2>2, <2>4 DEF PlanInv, Untouched
  <2> QED
    BY <2>1, <2>3, <2>5 DEF Guarded
<1>7. GuardInv'
  BY <1>5, <1>6 DEF GuardInv
<1>8. OutsideTypes' /\ up'
  BY <1>1, <1>2 DEF OutsideTypes
<1> QED
  BY <1>4, <1>5, <1>7, <1>8, Rejoin

LEMMA UndoFilesStep == ASSUME IInv, UndoFiles PROVE IInv'
<1>1. /\ TypeOK /\ PlanInv /\ GuardInv /\ ProxyInv /\ OutsideTypes /\ GuardTypes
      /\ plan # <<>> /\ Head(plan) = "undoFiles" /\ Todo("undoFiles") /\ up
      /\ At("undoFiles") /\ before \in Captures
  BY AtHead DEF UndoFiles
<1>2. /\ UNCHANGED <<up, settings, core, os, guards, quit, foreign, raced>>
      /\ saved' \in Settings /\ runtime' \in Ports
  BY <1>1 DEF UndoFiles, OutsideTypes, Captures
<1>3. CASE Done
  <2>1. Restores /\ core' \in Ports \cup {Down} /\ raced' \in BOOLEAN
    BY <1>1, <1>2 DEF Restores, OutsideTypes
  <2> QED
    BY <1>1, <1>2, <1>3, <2>1, PlainStep
<1>4. CASE Goes(UndoProxy(tried), tried, "broken") /\ spoiled' = TRUE
  <2>1. /\ plan' \in Seq(Steps) /\ Ordered(plan')
        /\ \A step : Todo(step)' <=> step = "restartGuard" \/ (step = "apply" /\ "apply" \in tried)
    BY <1>4, UndoProxyPlan DEF Goes, Todo
  <2>2. plan' # <<>>
    BY <2>1, Empty DEF Todo
  <2>3. before' = before /\ tried' = tried /\ trouble' = "broken"
    BY <1>4, <2>2 DEF Goes
  <2>4. ControlInv'
    BY <1>1, <2>1, <2>2, <2>3 DEF ControlInv, ControlTypes, TypeOK
  <2>5. /\ Tail(plan) \in Seq(Steps)
        /\ \A step : Todo(step) => step = "undoFiles" \/ Rank("undoFiles") < Rank(step)
    BY <1>1, First DEF TypeOK, PlanInv, Todo
  <2>6. trouble # "none" /\ "core" \notin tried /\ ~Todo("undoMemory")
    BY <1>1, <2>5 DEF PlanInv, Rank
  <2>7. settings = before.settings
    BY <1>1, <2>6 DEF PlanInv
  <2>8. PlanInv'
    BY <1>2, <2>1, <2>3, <2>7 DEF PlanInv
  <2>9. GuardInv'
    BY <1>1, <1>2, <2>1, <2>3 DEF GuardInv, Untouched, Watched, Guarded, guards
  <2>10. OutsideTypes' /\ GuardTypes' /\ ProxyInv' /\ up'
    BY <1>1, <1>2, <1>4, GuardTypesFrame DEF OutsideTypes, ProxyInv
  <2> QED
    BY <2>4, <2>8, <2>9, <2>10, Rejoin
<1> QED
  BY <1>3, <1>4 DEF UndoFiles

LEMMA RetireGuardStep == ASSUME IInv, RetireGuard PROVE IInv'
<1>1. /\ TypeOK /\ PlanInv /\ ProxyInv /\ OutsideTypes /\ GuardTypes
      /\ plan # <<>> /\ Head(plan) = "retireGuard" /\ Todo("retireGuard") /\ up
      /\ tried \subseteq {"apply", "reload", "core"}
  BY AtHead DEF RetireGuard
<1>2. /\ UNCHANGED <<up, settings, saved, runtime, core, os, loops, quit, foreign, raced, spoiled>>
      /\ Goes(Tail(plan), tried, trouble)
  BY DEF RetireGuard, Done, outside
<1>3. Proceeds(tried, trouble)
  BY <1>1, <1>2 DEF Proceeds, Restores
<1>4. ControlInv' /\ PlanInv' /\ ProxyInv'
  BY <1>1, <1>2, <1>3, ProceedsKeepsTypes, ProceedsKeepsPlan, ProceedsKeepsProxy DEF ControlInv
<1>5. Todo("launch")'
  BY <1>1, <1>3, Going DEF PlanInv
<1>6. GuardInv'
  BY <1>4, <1>5 DEF GuardInv, PlanInv, Untouched
<1>7. GuardTypes'
  BY <1>1, <1>2, ProxyAssumption DEF GuardTypes, RetireGuard, Generations
<1>8. OutsideTypes' /\ up'
  BY <1>1, <1>2 DEF OutsideTypes
<1> QED
  BY <1>4, <1>6, <1>7, <1>8, Rejoin

\* The proxy is cleared by an installer, that will end the application or put it right,
\* and by quit.
LEMMA ClearsTypes ==
  ASSUME OutsideTypes, NEW s \in Settings, Clears(s)
  PROVE  os' \in Proxies /\ foreign' \in BOOLEAN
<1>1. s.port \in Ports
  BY DEF Settings
<1>2. [on |-> FALSE, port |-> s.port] \in Proxies
  BY <1>1 DEF Proxies
<1> QED
  BY <1>2 DEF OutsideTypes, Clears, SetProxy

LEMMA ClearStep == ASSUME IInv, Clear PROVE IInv'
<1>1. /\ TypeOK /\ PlanInv /\ GuardInv /\ OutsideTypes /\ GuardTypes
      /\ plan # <<>> /\ Head(plan) = "clear" /\ Todo("clear") /\ up /\ before \in Captures
      /\ tried \subseteq {"apply", "reload", "core"}
  BY AtHead DEF Clear
<1>2. /\ UNCHANGED <<up, settings, saved, runtime, core, guards, quit, raced, spoiled>>
      /\ Goes(Tail(plan), tried, trouble) /\ Clears(before.settings)
  BY DEF Clear, Done
<1>3. Proceeds(tried, trouble)
  BY <1>1, <1>2 DEF Proceeds, Restores
<1>4. ControlInv' /\ PlanInv' /\ GuardInv'
  BY <1>1, <1>2, <1>3, ProceedsKeepsTypes, ProceedsKeepsPlan, ProceedsKeepsGuard DEF ControlInv
<1>5. Todo("launch")'
  BY <1>1, <1>3, Going DEF PlanInv
<1>6. ProxyInv'
  BY <1>4, <1>5 DEF ProxyInv, PlanInv, Untouched
<1>7. OutsideTypes' /\ GuardTypes' /\ up'
  BY <1>1, <1>2, ClearsTypes, GuardTypesFrame DEF OutsideTypes, Captures
<1> QED
  BY <1>4, <1>6, <1>7, Rejoin

(**************************** beginnings and ends ****************************)

\* Where no command runs only the guard and the proxy have something to say.
LEMMA IdlePlan ==
  ASSUME plan = <<>>
  PROVE  /\ \A step : ~Todo(step)
         /\ ~Untouched
         /\ tried = {} /\ trouble = "none" => PlanInv
BY Empty DEF Todo, Untouched, PlanInv

\* No command runs and the application is down.
LEMMA GoneStep == ASSUME IInv, NEW c \in Ports \cup {Down}, Gone(c) PROVE IInv'
<1>1. OutsideTypes /\ GuardTypes
  BY Types DEF IInv
<1>2. OutsideTypes'
  BY <1>1 DEF Gone, OutsideTypes, history
<1>3. GuardTypes'
  <2>1. NoLoop \in Loops /\ 0 \in 0..MaxGen
    BY ProxyAssumption DEF Loops
  <2> QED
    BY <2>1 DEF Gone, GuardTypes
<1>4. ControlTypes' /\ DownInv'
  BY DEF Gone, ControlTypes, DownInv
<1>5. PlanInv'
  BY Empty DEF Gone, PlanInv, Todo
<1>6. GuardInv' /\ ProxyInv'
  BY DEF Gone, GuardInv, ProxyInv, Untouched
<1> QED
  BY <1>2, <1>3, <1>4, <1>5, <1>6
     DEF IInv, TypeOK, OutsideTypes, GuardTypes, ControlTypes

LEMMA LaunchStep == ASSUME IInv, Launch PROVE IInv'
<1>1. CASE Gone(core)
  BY <1>1, Parts, GoneStep
<1>2. CASE Fail /\ UNCHANGED <<up, settings, saved, outside, guards, quit, foreign, raced>>
  <2> DEFINE effects == tried
  <2>1. /\ TypeOK /\ PlanInv /\ GuardInv /\ ProxyInv /\ OutsideTypes /\ GuardTypes
        /\ plan # <<>> /\ Head(plan) = "launch" /\ up
    BY AtHead DEF Launch
  <2>2. /\ FailsWith(effects) /\ tried \subseteq effects /\ effects \ tried \subseteq {Head(plan)}
        /\ effects \subseteq {"apply", "reload", "core"}
    BY <1>2, Parts DEF Fail
  <2>3. UNCHANGED <<up, settings, saved, runtime, core, os, guards, quit, foreign, raced>>
    BY <1>2 DEF outside
  <2> HIDE DEF effects
  <2>4. ControlInv' /\ PlanInv' /\ GuardInv' /\ ProxyInv' /\ spoiled' \in BOOLEAN
    BY <2>1, <2>2, <2>3, ErrorKeeps
  <2>5. OutsideTypes' /\ GuardTypes' /\ up'
    BY <2>1, <2>3, <2>4, GuardTypesFrame DEF OutsideTypes
  <2> QED
    BY <2>4, <2>5, Rejoin
<1> QED
  BY <1>1, <1>2 DEF Launch

LEMMA BootStep == ASSUME IInv, Boot PROVE IInv'
<1>1. /\ OutsideTypes /\ GuardTypes /\ plan = <<>> /\ tried = {} /\ trouble = "none" /\ quit = "no"
      /\ settings \in Settings
  BY Types DEF IInv, DownInv, Boot, OutsideTypes
<1>2. /\ up' = TRUE /\ UNCHANGED <<settings, saved, runtime, core, tried, trouble, quit>>
      /\ plan' = <<"boot">> /\ before' = Now /\ RestartGuard
  BY DEF Boot
<1>3. GuardTypes' /\ (Watched' <=> Guarded(settings)')
  BY <1>1, <1>2, GuardStarts
<1>4. /\ plan' \in Seq(Steps) /\ Ordered(plan') /\ plan' # <<>>
      /\ \A step : Todo(step)' <=> step = "boot"
  BY <1>2, Alone DEF Todo, Steps
<1>5. before' \in Captures /\ before'.settings = settings
  BY <1>1, <1>2 DEF Now, Captures, OutsideTypes
<1>6. ControlInv'
  BY <1>1, <1>2, <1>4, <1>5 DEF ControlInv, ControlTypes
<1>7. PlanInv'
  BY <1>1, <1>2, <1>4 DEF PlanInv
<1>8. GuardInv'
  BY <1>2, <1>3, <1>5 DEF GuardInv, Guarded
<1>9. OutsideTypes'
  <2>1. os' \in Proxies /\ foreign' \in BOOLEAN /\ spoiled' \in BOOLEAN
    BY <1>1, Parts DEF Boot, SetProxy, OutsideTypes, Proxies
  <2> QED
    BY <1>1, <1>2, <2>1 DEF OutsideTypes, Boot
<1>10. ~spoiled' /\ ~foreign' => TakesEffect(settings)'
  BY <1>1, <1>2 DEF Boot, SetProxy, TakesEffect, Expected, Settings
<1>11. TakesEffect(settings)' => TakesEffect(before.settings)'
  BY <1>2, <1>5 DEF TakesEffect, Expected, Guarded
<1>12. ProxyInv'
  BY <1>10, <1>11 DEF ProxyInv
<1> QED
  BY <1>2, <1>3, <1>6, <1>7, <1>8, <1>9, <1>12, Rejoin

LEMMA BootCoreStep == ASSUME IInv, BootCore PROVE IInv'
<1>1. /\ TypeOK /\ PlanInv /\ GuardInv /\ ProxyInv /\ OutsideTypes /\ GuardTypes
      /\ Todo("boot") /\ up /\ settings.port \in Ports
  BY AtHead, Parts DEF BootCore
<1>2. \A step \in {"apply", "launch", "undoMemory", "restartGuard"} : ~Todo(step)
  BY <1>1 DEF PlanInv, Steps
<1>3. /\ plan' = <<>> /\ before' = None /\ tried' = {} /\ trouble' = "none"
      /\ UNCHANGED <<up, settings, saved, os, guards, quit, foreign, raced>>
      /\ runtime' \in {runtime, settings.port} /\ core' \in {core, settings.port}
      /\ spoiled' \in {spoiled, TRUE}
  BY DEF BootCore, Goes
<1>4. ControlInv'
  BY <1>3 DEF ControlInv, ControlTypes
<1>5. PlanInv' /\ (\A step : ~Todo(step)') /\ ~Untouched'
  BY <1>3, Empty DEF PlanInv, Todo, Untouched
<1>6. GuardInv'
  BY <1>1, <1>2, <1>3, <1>5 DEF GuardInv, Watched, Guarded, guards
<1>7. ProxyInv'
  <2>1. up /\ quit = "no" /\ ~spoiled /\ ~foreign => TakesEffect(settings)
    BY <1>1, <1>2 DEF ProxyInv
  <2>2. TakesEffect(settings) => TakesEffect(settings)'
    BY <1>3 DEF TakesEffect, Expected, Guarded
  <2>3. spoiled => spoiled'
    BY <1>3
  <2> QED
    BY <1>3, <1>5, <2>1, <2>2, <2>3 DEF ProxyInv
<1>8. OutsideTypes' /\ GuardTypes' /\ up'
  BY <1>1, <1>3, GuardTypesFrame DEF OutsideTypes
<1> QED
  BY <1>4, <1>5, <1>6, <1>7, <1>8, Rejoin

LEMMA SaveStep == ASSUME IInv, NEW next \in Settings, Save(next) PROVE IInv'
<1>1. /\ OutsideTypes /\ GuardTypes /\ PlanInv /\ GuardInv /\ ProxyInv /\ plan = <<>> /\ up
      /\ settings \in Settings
  BY Types DEF IInv, Save, Idle, OutsideTypes
<1>2. /\ UNCHANGED <<up, saved, runtime, core, os, guards, quit, spoiled, foreign, raced>>
      /\ settings' = next /\ before' = Now /\ plan' = SavePlan(settings, next)
      /\ tried' = {} /\ trouble' = "none"
  BY DEF Save, outside, history
<1>3. /\ plan' \in Seq(Steps) /\ Ordered(plan')
      /\ \A step : Todo(step)' =>
           step \in {"regenerate", "persist", "apply", "restartGuard", "reload", "hotkeys"}
      /\ Todo("restartGuard")'
      /\ Todo("apply")' <=> next.proxy \/ settings.proxy
  BY <1>1, <1>2, SavePlanned DEF Todo
<1>4. plan' # <<>>
  BY <1>3, Empty DEF Todo
<1>5. before' \in Captures /\ before'.settings = settings
  BY <1>1, <1>2 DEF Now, Captures, OutsideTypes
<1>6. ControlInv'
  BY <1>2, <1>3, <1>4, <1>5 DEF ControlInv, ControlTypes
<1>7. PlanInv'
  BY <1>2, <1>3 DEF PlanInv
<1>8. Watched' => Guarded(settings)
  BY <1>1, <1>2, IdlePlan DEF GuardInv, Watched, guards
<1>9. GuardInv'
  BY <1>3, <1>5, <1>8 DEF GuardInv, Guarded
<1>10. ProxyInv'
  <2>1. up /\ quit = "no" /\ ~spoiled /\ ~foreign => TakesEffect(settings)
    BY <1>1, IdlePlan DEF ProxyInv
  <2>2. TakesEffect(settings) => TakesEffect(before.settings)'
    BY <1>2, <1>5 DEF TakesEffect, Expected, Guarded
  <2>3. TakesEffect(settings) /\ ~Todo("apply")' => TakesEffect(settings)'
    BY <1>2, <1>3 DEF TakesEffect, Expected, Guarded
  <2> QED
    BY <1>2, <2>1, <2>2, <2>3 DEF ProxyInv
<1>11. OutsideTypes' /\ GuardTypes' /\ up'
  BY <1>1, <1>2, GuardTypesFrame DEF OutsideTypes
<1> QED
  BY <1>6, <1>7, <1>9, <1>10, <1>11, Rejoin

LEMMA InstallStep == ASSUME IInv, Install PROVE IInv'
<1>1. /\ OutsideTypes /\ GuardTypes /\ up /\ settings \in Settings
  BY Types DEF IInv, Install, OutsideTypes
<1>2. /\ UNCHANGED <<up, settings, saved, runtime, core, os, guards, quit, spoiled, foreign, raced>>
      /\ before' = Now /\ plan' = <<"stopCore", "retireGuard", "clear", "launch">>
      /\ tried' = {"core"} /\ trouble' = "none"
  BY DEF Install, outside, history
<1>3. /\ plan' \in Seq(Steps) /\ Ordered(plan') /\ plan' # <<>>
      /\ \A step : Todo(step)' <=> step \in {"stopCore", "retireGuard", "clear", "launch"}
  BY <1>2 DEF Todo, Has, Ordered, Rank, Steps
<1>4. before' \in Captures
  BY <1>1, <1>2 DEF Now, Captures, OutsideTypes
<1>5. ControlInv' /\ PlanInv'
  BY <1>2, <1>3, <1>4 DEF ControlInv, ControlTypes, PlanInv
<1>6. GuardInv' /\ ProxyInv'
  BY <1>2, <1>3 DEF GuardInv, ProxyInv, Untouched
<1>7. OutsideTypes' /\ GuardTypes' /\ up'
  BY <1>1, <1>2, GuardTypesFrame DEF OutsideTypes
<1> QED
  BY <1>5, <1>6, <1>7, Rejoin

(************************** guard loops, quit, others ************************)

\* Those who are not the command leave its plan, and what the plan says, alone.
LEMMA PlanFrame ==
  ASSUME ControlTypes, DownInv, PlanInv, UNCHANGED <<settings, control>>,
         up' = up, (~up => UNCHANGED <<quit, guards>>)
  PROVE  ControlTypes' /\ DownInv' /\ PlanInv' /\ (Untouched' <=> Untouched)
         /\ \A step : Todo(step)' <=> Todo(step)
BY DEF ControlTypes, DownInv, PlanInv, Todo, Untouched, control, guards

LEMMA Apart ==
  ASSUME OutsideTypes', GuardTypes', ControlTypes', DownInv', PlanInv', GuardInv', ProxyInv'
  PROVE  IInv'
BY DEF IInv, TypeOK, OutsideTypes, GuardTypes, ControlTypes

\* A loop ends only if it is out of date, or the settings want no guard.
LEMMA LoopMoves ==
  ASSUME IInv, NEW g \in Generations, NEW loop \in Loops, loops[g] # NoLoop, Moves(g, loop),
         loop # NoLoop \/ g # generation \/ ~Guarded(settings), LoopOnly,
         os' \in Proxies, foreign' \in BOOLEAN
  PROVE  /\ OutsideTypes' /\ GuardTypes' /\ ControlTypes' /\ DownInv' /\ PlanInv' /\ GuardInv'
         /\ Untouched' <=> Untouched
         /\ \A step : Todo(step)' <=> Todo(step)
         /\ UNCHANGED <<up, quit, spoiled, settings, before>>
<1>1. /\ OutsideTypes /\ GuardTypes /\ ControlTypes /\ DownInv /\ PlanInv /\ GuardInv
  BY Types DEF IInv
<1>2. /\ UNCHANGED <<up, settings, saved, runtime, core, generation, quit, spoiled, raced>>
      /\ UNCHANGED control /\ before' = before
  BY DEF LoopOnly, control
<1>3. up
  BY <1>1 DEF DownInv
<1>4. /\ ControlTypes' /\ DownInv' /\ PlanInv' /\ (Untouched' <=> Untouched)
      /\ \A step : Todo(step)' <=> Todo(step)
  BY <1>1, <1>2, <1>3, PlanFrame
<1>5. loops' = [loops EXCEPT ![g] = loop] /\ loops \in [Generations -> Loops]
  BY <1>1 DEF Moves, GuardTypes
<1>6. GuardTypes'
  BY <1>1, <1>2, <1>5 DEF GuardTypes
<1>7. /\ Watched' => Watched
      /\ Guarded(settings) => (Watched' <=> Watched)
  BY <1>2, <1>5 DEF Watched
<1>8. GuardInv'
  BY <1>1, <1>2, <1>4, <1>7 DEF GuardInv, Guarded
<1>9. OutsideTypes'
  BY <1>1, <1>2 DEF OutsideTypes
<1> QED
  BY <1>2, <1>4, <1>6, <1>8, <1>9

\* What a loop writes while it is up to date is what the settings in memory say: the
\* command that runs has restarted the guard, or replaces settings that had one.
LEMMA GuardLoopStep == ASSUME IInv, NEW g \in Generations, Guard(g) PROVE IInv'
<1>1. OutsideTypes /\ GuardTypes /\ GuardInv /\ ProxyInv /\ Expected(settings) \in Proxies
  BY Types, Parts DEF IInv
<1>2. loops[g] \in Loops /\ LoopOnly
  BY <1>1 DEF GuardTypes, Guard, CheckGeneration, CheckSettings, Look, Repair
<1>3. /\ NoLoop \in Loops /\ [at |-> "asleep"] \in Loops /\ [at |-> "current"] \in Loops
      /\ \A want \in Proxies : /\ [at |-> "looking", want |-> want] \in Loops
                               /\ [at |-> "drifted", want |-> want] \in Loops
      /\ NoLoop.at = "none"
      /\ \A loop \in Loops : loop.at \in {"looking", "drifted"} => loop.want \in Proxies
  BY DEF Loops, NoLoop
<1>4. CASE \E loop \in Loops :
             /\ Moves(g, loop) /\ loops[g] # NoLoop /\ UNCHANGED <<os, foreign>>
             /\ loop # NoLoop \/ g # generation \/ ~Guarded(settings)
  <2>1. PICK loop \in Loops :
          /\ Moves(g, loop) /\ loops[g] # NoLoop /\ UNCHANGED <<os, foreign>>
          /\ loop # NoLoop \/ g # generation \/ ~Guarded(settings)
    BY <1>4
  <2>2. os' \in Proxies /\ foreign' \in BOOLEAN
    BY <1>1, <2>1 DEF OutsideTypes
  <2>3. /\ OutsideTypes' /\ GuardTypes' /\ ControlTypes' /\ DownInv' /\ PlanInv' /\ GuardInv'
        /\ Untouched' <=> Untouched
        /\ \A step : Todo(step)' <=> Todo(step)
        /\ UNCHANGED <<up, quit, spoiled, settings, before>>
    BY <1>2, <2>1, <2>2, LoopMoves
  <2>4. ProxyInv'
    BY <1>1, <2>1, <2>3 DEF ProxyInv, TakesEffect, Expected, Guarded
  <2> QED
    BY <2>3, <2>4, Apart
<1>5. CASE CheckGeneration(g)
  <2>1. loops[g] # NoLoop
    BY <1>3, <1>5 DEF CheckGeneration
  <2>2. [at |-> "current"] # NoLoop
    BY DEF NoLoop
  <2> QED
    BY <1>3, <1>4, <1>5, <2>1, <2>2 DEF CheckGeneration
<1>6. CASE CheckSettings(g)
  <2>1. loops[g] # NoLoop
    BY <1>3, <1>6 DEF CheckSettings
  <2>2. [at |-> "looking", want |-> Expected(settings)] # NoLoop
    BY DEF NoLoop
  <2> QED
    BY <1>1, <1>3, <1>4, <1>6, <2>1, <2>2 DEF CheckSettings
<1>7. CASE Look(g)
  <2>1. loops[g] # NoLoop /\ loops[g].want \in Proxies
    BY <1>2, <1>3, <1>7 DEF Look
  <2>2. [at |-> "drifted", want |-> loops[g].want] # NoLoop /\ [at |-> "asleep"] # NoLoop
    BY DEF NoLoop
  <2> QED
    BY <1>3, <1>4, <1>7, <2>1, <2>2 DEF Look
<1>8. CASE Repair(g)
  <2>1. loops[g] # NoLoop /\ loops[g].want \in Proxies
    BY <1>2, <1>3, <1>8 DEF Repair
  <2>2. [at |-> "asleep"] # NoLoop
    BY DEF NoLoop
  <2>3. CASE UNCHANGED <<os, foreign>>
    BY <1>3, <1>4, <1>8, <2>1, <2>2, <2>3 DEF Repair
  <2>4. CASE os' = loops[g].want /\ OutOfDate(g)
    <3>1. os' \in Proxies /\ foreign' \in BOOLEAN
      BY <2>1, <2>4 DEF OutOfDate
    <3>2. /\ OutsideTypes' /\ GuardTypes' /\ ControlTypes' /\ DownInv' /\ PlanInv' /\ GuardInv'
          /\ Untouched' <=> Untouched
          /\ \A step : Todo(step)' <=> Todo(step)
          /\ UNCHANGED <<up, quit, spoiled, settings, before>>
      BY <1>2, <1>3, <1>8, <2>1, <2>2, <3>1, LoopMoves DEF Repair
    <3>3. ~foreign' => g = generation /\ os' = Expected(settings) /\ Watched
      BY <2>1, <2>4 DEF OutOfDate, Watched
    <3>4. ~foreign' /\ Untouched => Guarded(before.settings)
      BY <1>1, <3>3 DEF GuardInv
    <3>5. ~foreign' => TakesEffect(settings)'
      BY <3>2, <3>3 DEF TakesEffect, Expected
    <3>6. ProxyInv'
      BY <3>2, <3>4, <3>5 DEF ProxyInv, TakesEffect, Guarded
    <3> QED
      BY <3>2, <3>6, Apart
  <2> QED
    BY <1>8, <2>3, <2>4 DEF Repair
<1> QED
  BY <1>5, <1>6, <1>7, <1>8 DEF Guard

\* Quit, the core and the user change none of what the plan and the guard say.
LEMMA BesideStep ==
  ASSUME IInv, UNCHANGED <<up, settings, saved, runtime, guards, control, spoiled>>,
         ~up => quit' = quit, quit' \in {"no", "cleared", "stopped"},
         core' \in Ports \cup {Down}, os' \in Proxies, foreign' \in BOOLEAN, raced' \in BOOLEAN,
         (os' = os /\ foreign' = foreign /\ (quit' = "no" => quit = "no"))
           \/ quit' # "no" \/ foreign'
  PROVE  IInv'
<1>1. /\ OutsideTypes /\ GuardTypes /\ ControlTypes /\ DownInv /\ PlanInv /\ GuardInv /\ ProxyInv
  BY Types DEF IInv
<1>2. /\ ControlTypes' /\ DownInv' /\ PlanInv' /\ (Untouched' <=> Untouched)
      /\ \A step : Todo(step)' <=> Todo(step)
  BY <1>1, PlanFrame
<1>3. OutsideTypes' /\ GuardTypes' /\ before' = before
  BY <1>1, GuardTypesFrame DEF OutsideTypes, control
<1>4. GuardInv'
  BY <1>1, <1>2, <1>3 DEF GuardInv, Watched, Guarded, guards
<1>5. ProxyInv'
  BY <1>1, <1>2, <1>3 DEF ProxyInv, TakesEffect, Expected, Guarded
<1> QED
  BY <1>2, <1>3, <1>4, <1>5, Apart

(******************************** theorems ***********************************)

LEMMA ProxyStarts == Init => IInv
<1> SUFFICES ASSUME Init PROVE IInv
  OBVIOUS
<1>1. OutsideTypes
  BY DEF Init, OutsideTypes, Settings
<1>2. GuardTypes
  <2>1. NoLoop \in Loops /\ 0 \in 0..MaxGen
    BY ProxyAssumption DEF Loops
  <2> QED
    BY <2>1 DEF Init, GuardTypes
<1>3. ControlTypes /\ DownInv
  BY DEF Init, ControlTypes, DownInv
<1>4. PlanInv /\ ~Untouched
  BY IdlePlan DEF Init
<1>5. GuardInv /\ ProxyInv
  BY <1>4 DEF Init, GuardInv, ProxyInv
<1> QED
  BY <1>1, <1>2, <1>3, <1>4, <1>5
     DEF IInv, TypeOK, OutsideTypes, GuardTypes, ControlTypes

LEMMA ProxySteps == IInv /\ [Next]_vars => IInv'
<1> SUFFICES ASSUME IInv, [Next]_vars PROVE IInv'
  OBVIOUS
<1>1. OutsideTypes /\ core \in Ports \cup {Down} /\ raced \in BOOLEAN
  BY Types DEF IInv, OutsideTypes
<1>2. CASE \E next \in Settings : Save(next)
  BY <1>2, SaveStep
<1>3. CASE Install
  BY <1>3, InstallStep
<1>4. CASE Command
  BY <1>4, RegenerateStep, PersistStep, ApplyStep, GuardsStep, ReloadStep, HotkeysStep,
     UndoMemoryStep, UndoFilesStep, StopCoreStep, RetireGuardStep, ClearStep, LaunchStep,
     ResumeStep, BootCoreStep DEF Command
<1>5. CASE \E g \in Generations : Guard(g)
  BY <1>5, GuardLoopStep
<1>6. CASE Boot
  BY <1>6, BootStep
<1>7. CASE Killed \/ Exit
  BY <1>1, <1>7, GoneStep DEF Killed, Exit
<1>8. CASE QuitClear
  <2>1. /\ UNCHANGED <<up, settings, saved, runtime, guards, control, spoiled, raced, core>>
        /\ up /\ quit' = "cleared" /\ Clears(settings)
    BY <1>8 DEF QuitClear, QuitOnly
  <2>2. os' \in Proxies /\ foreign' \in BOOLEAN
    BY <1>1, <2>1, ClearsTypes DEF OutsideTypes
  <2> QED
    BY <1>1, <2>1, <2>2, BesideStep
<1>9. CASE QuitStop
  <2>1. /\ UNCHANGED <<up, settings, saved, runtime, guards, control, spoiled, raced, os, foreign>>
        /\ quit = "cleared" /\ quit' = "stopped" /\ core' \in {Down, core}
    BY <1>9 DEF QuitStop, QuitOnly
  <2>2. up
    BY <2>1 DEF IInv, DownInv
  <2> QED
    BY <1>1, <2>1, <2>2, BesideStep DEF OutsideTypes
<1>10. CASE CoreStops \/ CoreStarts
  <2>1. /\ UNCHANGED <<up, settings, saved, runtime, os, guards, control, quit, spoiled, foreign>>
        /\ core' \in {Down, runtime} /\ raced' \in BOOLEAN
    BY <1>10 DEF CoreStops, CoreStarts, Idle
  <2> QED
    BY <1>1, <2>1, BesideStep DEF OutsideTypes
<1>11. CASE Drift
  <2>1. /\ UNCHANGED <<up, settings, saved, runtime, core, guards, control, quit, spoiled, raced>>
        /\ os' \in Proxies /\ foreign' = TRUE
    BY <1>11 DEF Drift
  <2> QED
    BY <1>1, <2>1, BesideStep DEF OutsideTypes
<1>12. CASE UNCHANGED vars
  <2>1. UNCHANGED <<up, settings, saved, runtime, core, os, guards, control, quit, spoiled,
                    foreign, raced>>
    BY <1>12 DEF vars, outside, history
  <2> QED
    BY <1>1, <2>1, BesideStep DEF OutsideTypes
<1> QED
  BY <1>2, <1>3, <1>4, <1>5, <1>6, <1>7, <1>8, <1>9, <1>10, <1>11, <1>12 DEF Next

LEMMA InvHolds == Spec => []IInv
BY ProxyStarts, ProxySteps, PTL DEF Spec

\* The types of the settings, the files, the core, the proxy, the guard's loops and
\* the plan of the running command; a loop never has a generation that is still to
\* come.
THEOREM ProxyTypes == Spec => []TypeOK
<1>1. IInv => TypeOK
  BY DEF IInv
<1> QED
  BY <1>1, InvHolds, PTL

\* Between commands the guard is on exactly when the settings want one, and the
\* system proxy is what they say, or the guard will see to it: after saves, their
\* rollbacks, installations of an update that failed and restarts, in any order.
THEOREM SettingsHold == Spec => []SettingsTakeEffect
<1>1. ASSUME IInv PROVE SettingsTakeEffect
  <2>1. plan = <<>> => (\A step : ~Todo(step)) /\ GuardInv /\ ProxyInv
    BY <1>1, IdlePlan DEF IInv
  <2>2. GuardAsConfigured
    BY <2>1 DEF GuardAsConfigured, Settled, Idle, GuardInv, Watched
  <2>3. ProxyAsConfigured
    BY <2>1 DEF ProxyAsConfigured, Settled, Idle, ProxyInv, TakesEffect
  <2> QED
    BY <2>2, <2>3 DEF SettingsTakeEffect
<1> QED
  BY <1>1, InvHolds, PTL

(******************************** the ports **********************************)

\* What is left to do about the files and the core.
PlannedPorts ==
  /\ Todo("persist") \/ Todo("regenerate") => "core" \notin tried /\ trouble = "none"
  /\ Todo("reload") => "core" \notin tried
  /\ Todo("resume") => "core" \in tried
  /\ Todo("undoMemory") => Todo("undoFiles")
  /\ Todo("undoMemory") /\ "reload" \in tried => Todo("reload")

\* A command captures files that agree with the settings it replaces.
CapturedPorts ==
  up /\ ~spoiled /\ plan # <<>> /\ ~Todo("boot") =>
    before.saved = before.settings /\ before.runtime = before.settings.port

\* The files agree with memory, but for those the command has still to write.
FilePorts ==
  /\ ~up \/ Todo("boot") => saved = settings
  /\ up /\ ~spoiled /\ ~Todo("boot") /\ ~Todo("undoFiles") =>
       /\ Todo("persist") \/ saved = settings
       /\ Todo("regenerate") \/ runtime = settings.port

\* The core has the old port until a command has tried to reload it, and then the new.
CorePorts ==
  up /\ ~spoiled /\ ~raced /\ ~Todo("boot") =>
    /\ plan # <<>> /\ tried \cap {"core", "reload"} = {} => core \in {Down, before.settings.port}
    /\ ~Todo("reload") /\ ~Todo("undoMemory") => core \in {Down, settings.port}

PortsInv == PlannedPorts /\ CapturedPorts /\ FilePorts /\ CorePorts

LEMMA ProceedsNotBoot ==
  ASSUME TypeOK, PlanInv, NEW effects, NEW errors, Proceeds(effects, errors),
         Head(plan) # "boot"
  PROVE  ~Todo("boot") /\ ~Todo("boot")'
<1>1. ~Todo("boot")
  BY Going DEF PlanInv
<1> QED
  BY <1>1, Going

LEMMA ProceedsKeepsPlanned ==
  ASSUME TypeOK, PlanInv, PlannedPorts, NEW effects, NEW errors, Proceeds(effects, errors)
  PROVE  PlannedPorts'
<1>1. ASSUME NEW step, Todo(step)'
      PROVE  /\ Todo(step) /\ tried' = effects /\ trouble' = errors
             /\ "core" \in tried' <=> "core" \in tried
  <2>1. plan' # <<>>
    BY <1>1, Empty DEF Todo
  <2> QED
    BY <1>1, <2>1, Going, CoreStays
<1>2. trouble = "none" => errors = "none"
  BY DEF Proceeds
<1>3. (Todo("persist") \/ Todo("regenerate"))' => "core" \notin tried' /\ trouble' = "none"
  BY <1>1, <1>2 DEF PlannedPorts
<1>4. /\ Todo("reload")' => "core" \notin tried'
      /\ Todo("resume")' => "core" \in tried'
  BY <1>1 DEF PlannedPorts
<1>5. ASSUME Todo("undoMemory")'
      PROVE  Todo("undoFiles")' /\ ("reload" \in tried' => Todo("reload")')
  <2>1. Todo("undoMemory") /\ tried' = effects
    BY <1>1, <1>5
  <2>2. Head(plan) \notin {"reload", "undoFiles"}
    BY <1>5, Going DEF Rank
  <2> QED
    BY <2>1, <2>2, Going DEF PlannedPorts, Proceeds
<1> QED
  BY <1>3, <1>4, <1>5 DEF PlannedPorts

\* What a step that succeeds has to do for the ports.
LEMMA ProceedsKeepsPorts ==
  ASSUME TypeOK, PlanInv, PortsInv, up, up' = up, NEW effects, Proceeds(effects, trouble),
         Head(plan) # "boot", spoiled' = spoiled, raced' = raced \/ raced' = FALSE,
         \/ saved' = saved /\ Head(plan) \notin {"persist", "undoFiles"}
         \/ saved' = settings' \/ spoiled,
         \/ runtime' = runtime /\ Head(plan) \notin {"regenerate", "undoFiles"}
         \/ runtime' = settings'.port \/ spoiled,
         \/ core' \in {core, Down} /\ raced' = raced /\ Head(plan) # "reload"
         \/ core' \in {Down, settings'.port} /\ effects \cap {"core", "reload"} # {}
         \/ spoiled
  PROVE  PortsInv'
<1>1. PlannedPorts'
  BY ProceedsKeepsPlanned DEF PortsInv
<1>2. ~Todo("boot") /\ ~Todo("boot")'
  BY ProceedsNotBoot
<1>3. plan # <<>>
  BY DEF Proceeds
<1>4. plan' # <<>> => before' = before /\ tried' = effects
  BY Going
<1>5. CapturedPorts'
  BY <1>2, <1>3, <1>4 DEF PortsInv, CapturedPorts
<1>6. FilePorts'
  <2> SUFFICES ASSUME ~spoiled, ~Todo("undoFiles")'
               PROVE  /\ Todo("persist")' \/ saved' = settings'
                      /\ Todo("regenerate")' \/ runtime' = settings'.port
    BY <1>2 DEF FilePorts
  <2>1. Head(plan) # "undoMemory"
    BY Going DEF PortsInv, PlannedPorts
  <2>2. settings' = settings
    BY <2>1 DEF Proceeds, Restores
  <2>3. CASE Head(plan) = "undoFiles"
    BY <2>3
  <2>4. CASE Head(plan) # "undoFiles"
    <3>1. ~Todo("undoFiles")
      BY <2>4, Going
    <3>2. /\ Todo("persist") \/ saved = settings
          /\ Todo("regenerate") \/ runtime = settings.port
      BY <1>2, <3>1 DEF PortsInv, FilePorts
    <3>3. Todo("persist") => Head(plan) = "persist" \/ Todo("persist")'
      BY Going
    <3>4. Todo("regenerate") => Head(plan) = "regenerate" \/ Todo("regenerate")'
      BY Going
    <3> QED
      BY <2>2, <3>2, <3>3, <3>4
  <2> QED
    BY <2>3, <2>4
<1>7. CorePorts'
  <2> SUFFICES ASSUME ~spoiled, ~raced'
               PROVE  /\ plan' # <<>> /\ tried' \cap {"core", "reload"} = {} =>
                           core' \in {Down, before'.settings.port}
                      /\ ~Todo("reload")' /\ ~Todo("undoMemory")' =>
                           core' \in {Down, settings'.port}
    BY DEF CorePorts
  <2>1. CASE core' \in {Down, settings'.port} /\ effects \cap {"core", "reload"} # {}
    BY <1>4, <2>1
  <2>2. CASE core' \in {core, Down} /\ raced' = raced /\ Head(plan) # "reload"
    <3>1. /\ tried \cap {"core", "reload"} = {} => core \in {Down, before.settings.port}
          /\ ~Todo("reload") /\ ~Todo("undoMemory") => core \in {Down, settings.port}
      BY <1>2, <1>3, <2>2 DEF PortsInv, CorePorts
    <3>2. plan' # <<>> /\ tried' \cap {"core", "reload"} = {} =>
            core' \in {Down, before'.settings.port}
      BY <1>4, <2>2, <3>1 DEF Proceeds
    <3>3. ASSUME ~Todo("reload")', ~Todo("undoMemory")' PROVE core' \in {Down, settings'.port}
      <4>1. ~Todo("reload")
        BY <2>2, <3>3, Going
      <4>2. CASE Head(plan) = "undoMemory"
        <5>1. tried \cap {"core", "reload"} = {}
          BY <4>1, <4>2, Going DEF PortsInv, PlannedPorts, PlanInv
        <5>2. settings' = before.settings
          BY <4>2 DEF Proceeds, Restores
        <5> QED
          BY <2>2, <3>1, <5>1, <5>2
      <4>3. CASE Head(plan) # "undoMemory"
        <5>1. ~Todo("undoMemory") /\ settings' = settings
          BY <3>3, <4>3, Going DEF Proceeds, Restores
        <5> QED
          BY <2>2, <3>1, <4>1, <5>1
      <4> QED
        BY <4>2, <4>3
    <3> QED
      BY <3>2, <3>3
  <2> QED
    BY <2>1, <2>2
<1> QED
  BY <1>1, <1>5, <1>6, <1>7 DEF PortsInv

\* The rollback a command starts has the files to restore, and the core to reload if
\* the command has tried to.
LEMMA ErrorKeepsPorts ==
  ASSUME TypeOK, PlanInv, PortsInv, up, plan # <<>>, NEW effects, FailsWith(effects),
         tried \subseteq effects, effects \ tried \subseteq {Head(plan)},
         effects \subseteq {"apply", "reload", "core"},
         Head(plan) \notin {"boot", "undoMemory"},
         UNCHANGED <<up, settings, saved, runtime, raced>>,
         \/ core' \in {core, Down}
         \/ Head(plan) = "reload" /\ "reload" \in effects
  PROVE  PortsInv'
<1>0. Has(plan, Head(plan)) /\ Head(plan) \in Steps
  BY First DEF TypeOK, PlanInv
<1>1. Todo(Head(plan)) /\ ~Todo("boot") /\ ("core" \in effects <=> "core" \in tried)
  BY <1>0 DEF Todo, PlanInv, Steps
<1>2. CASE trouble # "none"
  <2>1. Proceeds(effects, "broken") /\ spoiled' = TRUE
    BY <1>2 DEF FailsWith, Proceeds, Restores
  <2>2. PlannedPorts' /\ ~Todo("boot")'
    BY <2>1, ProceedsKeepsPlanned, ProceedsNotBoot DEF PortsInv
  <2> QED
    BY <2>1, <2>2 DEF PortsInv, CapturedPorts, FilePorts, CorePorts
<1>3. CASE trouble = "none"
  <2>1. Goes(Undo(effects), effects, "failed") /\ spoiled' = spoiled
    BY <1>3 DEF FailsWith
  <2>2. \A step : Todo(step)' <=> step \in UndoSteps(effects)
    BY <2>1, UndoPlan DEF Goes, Todo
  <2>3. plan' # <<>>
    BY <2>2, Empty DEF UndoSteps, Todo
  <2>4. before' = before /\ tried' = effects /\ ~Todo("boot")'
    BY <2>1, <2>2, <2>3 DEF Goes, UndoSteps
  <2>5. PlannedPorts'
    BY <2>2, <2>4 DEF PlannedPorts, UndoSteps
  <2>6. CapturedPorts'
    BY <1>1, <2>1, <2>4 DEF PortsInv, CapturedPorts
  <2>7. CASE "core" \notin effects
    <3>1. Todo("undoFiles")' /\ Todo("undoMemory")'
      BY <2>2, <2>7 DEF UndoSteps
    <3>2. FilePorts'
      BY <2>4, <3>1 DEF FilePorts
    <3>3. CorePorts'
      BY <1>1, <2>1, <2>4, <3>1 DEF PortsInv, CorePorts
    <3> QED
      BY <2>5, <2>6, <3>2, <3>3 DEF PortsInv
  <2>8. CASE "core" \in effects
    <3>1. /\ ~Todo("persist") /\ ~Todo("regenerate") /\ ~Todo("undoFiles")
          /\ ~Todo("reload") /\ ~Todo("undoMemory")
      BY <1>1, <2>8 DEF PlanInv, PortsInv, PlannedPorts
    <3>2. FilePorts'
      BY <1>1, <2>1, <2>4, <3>1 DEF PortsInv, FilePorts
    <3>3. core' \in {core, Down}
      BY <1>1, <3>1
    <3>4. CorePorts'
      BY <1>1, <2>1, <2>4, <2>8, <3>1, <3>3 DEF PortsInv, CorePorts
    <3> QED
      BY <2>5, <2>6, <3>2, <3>4 DEF PortsInv
  <2> QED
    BY <2>7, <2>8
<1> QED
  BY <1>2, <1>3

LEMMA DonePorts ==
  ASSUME IInv, PortsInv, NEW step, At(step), step \notin {"boot", "reload", "apply"},
         Done, Restores, UNCHANGED <<up, raced>>,
         \/ saved' = saved /\ step \notin {"persist", "undoFiles"}
         \/ saved' = settings' \/ spoiled,
         \/ runtime' = runtime /\ step \notin {"regenerate", "undoFiles"}
         \/ runtime' = settings'.port \/ spoiled,
         core' \in {core, Down} \/ (core' = settings'.port /\ "core" \in tried) \/ spoiled
  PROVE  PortsInv'
<1> DEFINE effects == tried
<1>1. /\ TypeOK /\ PlanInv /\ plan # <<>> /\ Head(plan) = step /\ up
      /\ effects \subseteq {"apply", "reload", "core"}
  BY AtHead
<1>2. Proceeds(effects, trouble) /\ spoiled' = spoiled
  BY <1>1 DEF Proceeds, Done
<1>3. "core" \in tried => effects \cap {"core", "reload"} # {}
  OBVIOUS
<1> HIDE DEF effects
<1> QED
  BY <1>1, <1>2, <1>3, ProceedsKeepsPorts

LEMMA FailPorts ==
  ASSUME IInv, PortsInv, NEW step, At(step), step \notin {"boot", "undoMemory"}, Fail,
         UNCHANGED <<up, settings, saved, runtime, raced>>, core' \in {core, Down}
  PROVE  PortsInv'
<1> DEFINE effects == tried
<1>1. /\ TypeOK /\ PlanInv /\ plan # <<>> /\ Head(plan) = step /\ up
      /\ effects \subseteq {"apply", "reload", "core"}
      /\ tried \subseteq effects /\ effects \ tried \subseteq {Head(plan)}
  BY AtHead
<1>2. FailsWith(effects)
  BY DEF Fail
<1> HIDE DEF effects
<1> QED
  BY <1>1, <1>2, ErrorKeepsPorts

\* By then the files are written.
LEMMA FilesWritten ==
  ASSUME IInv, PortsInv, NEW step \in {"resume", "reload"}, At(step)
  PROVE  runtime = settings.port \/ spoiled
<1>1. /\ plan \in Seq(Steps) /\ Ordered(plan) /\ plan # <<>> /\ Head(plan) = step /\ up
  BY AtHead DEF TypeOK, PlanInv
<1>2. \A x : Todo(x) => x = step \/ Rank(step) < Rank(x)
  BY <1>1, First DEF Todo
<1>3. ~Todo("regenerate") /\ ~Todo("undoFiles") /\ ~Todo("boot")
  BY <1>2 DEF Rank
<1> QED
  BY <1>1, <1>3 DEF PortsInv, FilePorts

LEMMA CommandPorts == ASSUME IInv, PortsInv, Command, ~Launch, ~BootCore PROVE PortsInv'
<1>1. CASE Regenerate
  <2>1. CASE runtime' = settings.port /\ Done
    BY <1>1, <2>1, DonePorts DEF Regenerate, Restores, At
  <2>2. CASE Fail /\ UNCHANGED runtime
    BY <1>1, <2>2, FailPorts DEF Regenerate
  <2> QED
    BY <1>1, <2>1, <2>2 DEF Regenerate
<1>2. CASE Persist
  <2>1. CASE saved' = settings /\ Done
    BY <1>2, <2>1, DonePorts DEF Persist, Restores, At, outside
  <2>2. CASE Fail /\ UNCHANGED saved
    BY <1>2, <2>2, FailPorts DEF Persist, outside
  <2> QED
    BY <1>2, <2>1, <2>2 DEF Persist
<1>3. CASE Apply
  <2> DEFINE effects == tried \cup {"apply"}
  <2>1. /\ TypeOK /\ PlanInv /\ plan # <<>> /\ Head(plan) = "apply" /\ up
        /\ tried \subseteq {"apply", "reload", "core"}
    BY <1>3, AtHead DEF Apply
  <2>2. /\ effects \subseteq {"apply", "reload", "core"} /\ tried \subseteq effects
        /\ effects \ tried \subseteq {Head(plan)} /\ "apply" \in effects
    BY <2>1
  <2>3. UNCHANGED <<up, settings, saved, runtime, core, raced>>
    BY <1>3 DEF Apply
  <2>4. \/ Goes(Tail(plan), effects, trouble) /\ spoiled' = spoiled
        \/ FailsWith(effects)
    BY <1>3 DEF Apply, DoneTrying, FailTrying
  <2> HIDE DEF effects
  <2>5. CASE Goes(Tail(plan), effects, trouble) /\ spoiled' = spoiled
    <3>1. Proceeds(effects, trouble)
      BY <2>1, <2>2, <2>3, <2>5 DEF Proceeds, Restores
    <3> QED
      BY <2>1, <2>3, <2>5, <3>1, ProceedsKeepsPorts
  <2>6. CASE FailsWith(effects)
    BY <2>1, <2>2, <2>3, <2>6, ErrorKeepsPorts
  <2> QED
    BY <2>4, <2>5, <2>6
<1>4. CASE Guards \/ RetireGuard \/ Clear
  <2>1. /\ At("restartGuard") \/ At("retireGuard") \/ At("clear")
        /\ Done /\ UNCHANGED <<up, settings, saved, runtime, core, raced>>
    BY <1>4 DEF Guards, RetireGuard, Clear, outside
  <2> QED
    BY <2>1, DonePorts DEF Restores, At
<1>5. CASE Reload
  <2> DEFINE effects == tried \cup {"reload"}
  <2>1. /\ TypeOK /\ PlanInv /\ plan # <<>> /\ Head(plan) = "reload" /\ up
        /\ tried \subseteq {"apply", "reload", "core"}
    BY <1>5, AtHead DEF Reload
  <2>2. /\ effects \subseteq {"apply", "reload", "core"} /\ tried \subseteq effects
        /\ effects \ tried \subseteq {Head(plan)} /\ "reload" \in effects
    BY <2>1
  <2>3. UNCHANGED <<up, settings, saved, runtime>> /\ (runtime = settings.port \/ spoiled)
    BY <1>5, FilesWritten DEF Reload
  <2>4. \/ /\ Goes(Tail(plan), effects, trouble) /\ spoiled' = spoiled
           /\ core' \in {Down, runtime} /\ (raced' = raced \/ raced' = FALSE)
        \/ FailsWith(effects) /\ raced' = raced
    BY <1>5 DEF Reload, DoneTrying, FailTrying
  <2>5. effects \cap {"core", "reload"} # {}
    BY <2>2
  <2> HIDE DEF effects
  <2>6. CASE /\ Goes(Tail(plan), effects, trouble) /\ spoiled' = spoiled
             /\ core' \in {Down, runtime} /\ (raced' = raced \/ raced' = FALSE)
    <3>1. Proceeds(effects, trouble)
      BY <2>1, <2>2, <2>3, <2>6 DEF Proceeds, Restores
    <3> QED
      BY <2>1, <2>3, <2>5, <2>6, <3>1, ProceedsKeepsPorts
  <2>7. CASE FailsWith(effects) /\ raced' = raced
    BY <2>1, <2>2, <2>3, <2>7, ErrorKeepsPorts
  <2> QED
    BY <2>4, <2>6, <2>7
<1>6. CASE Hotkeys
  <2>1. CASE Done
    BY <1>6, <2>1, DonePorts DEF Hotkeys, Restores, At, outside
  <2>2. CASE Fail
    BY <1>6, <2>2, FailPorts DEF Hotkeys, outside
  <2> QED
    BY <1>6, <2>1, <2>2 DEF Hotkeys
<1>7. CASE UndoMemory
  BY <1>7, DonePorts DEF UndoMemory, Restores, At, outside
<1>8. CASE UndoFiles
  <2>1. /\ plan \in Seq(Steps) /\ Ordered(plan) /\ plan # <<>> /\ Head(plan) = "undoFiles" /\ up
        /\ PlanInv /\ Todo("undoFiles")
    BY <1>8, AtHead DEF TypeOK, PlanInv, UndoFiles
  <2>2. \A x : Todo(x) => x = "undoFiles" \/ Rank("undoFiles") < Rank(x)
    BY <2>1, First DEF Todo
  <2>3. ~Todo("undoMemory") /\ ~Todo("boot")
    BY <2>2 DEF Rank
  <2>4. settings = before.settings
    BY <2>1, <2>3 DEF PlanInv
  <2>5. spoiled \/ (before.saved = settings /\ before.runtime = settings.port)
    BY <2>1, <2>3, <2>4 DEF PortsInv, CapturedPorts
  <2>6. UNCHANGED <<up, settings, core, raced>>
    BY <1>8 DEF UndoFiles
  <2>7. CASE saved' = before.saved /\ runtime' = before.runtime /\ Done
    BY <1>8, <2>1, <2>5, <2>6, <2>7, DonePorts DEF Restores, UndoFiles
  <2>8. CASE Goes(UndoProxy(tried), tried, "broken") /\ spoiled' = TRUE
    <3>1. \A step : Todo(step)' <=> step = "restartGuard" \/ (step = "apply" /\ "apply" \in tried)
      BY <2>8, UndoProxyPlan DEF Goes, Todo
    <3> QED
      BY <2>1, <2>6, <2>8, <3>1 DEF PortsInv, PlannedPorts, CapturedPorts, FilePorts, CorePorts
  <2> QED
    BY <1>8, <2>7, <2>8 DEF UndoFiles
<1>9. CASE StopCore
  <2>1. CASE core' = Down /\ Done
    BY <1>9, <2>1, DonePorts DEF StopCore, Restores, At
  <2>2. CASE core' \in {core, Down} /\ Fail
    BY <1>9, <2>2, FailPorts DEF StopCore
  <2> QED
    BY <1>9, <2>1, <2>2 DEF StopCore
<1>10. CASE Resume
  <2>1. CASE core' \in {core, runtime} /\ Done
    <3>1. /\ At("resume") /\ UNCHANGED <<up, settings, saved, runtime, raced>> /\ Restores
          /\ runtime = settings.port \/ spoiled
      BY <1>10, FilesWritten DEF Resume, Restores, At
    <3>2. "core" \in tried
      BY <3>1, AtHead DEF PortsInv, PlannedPorts
    <3> QED
      BY <2>1, <3>1, <3>2, DonePorts
  <2>2. CASE Fail /\ UNCHANGED core
    BY <1>10, <2>2, FailPorts DEF Resume
  <2> QED
    BY <1>10, <2>1, <2>2 DEF Resume
<1> QED
  BY <1>1, <1>2, <1>3, <1>4, <1>5, <1>6, <1>7, <1>8, <1>9, <1>10 DEF Command

LEMMA GonePorts == ASSUME NEW c, Gone(c) PROVE PortsInv'
BY Empty DEF Gone, PortsInv, PlannedPorts, CapturedPorts, FilePorts, CorePorts, Todo

LEMMA LaunchPorts == ASSUME IInv, PortsInv, Launch PROVE PortsInv'
<1>1. CASE Gone(core)
  BY <1>1, GonePorts
<1>2. CASE Fail /\ UNCHANGED <<up, settings, saved, outside, guards, quit, foreign, raced>>
  <2>1. At("launch") /\ UNCHANGED <<up, settings, saved, runtime, core, raced>>
    BY <1>2 DEF Launch, outside
  <2> QED
    BY <1>2, <2>1, FailPorts
<1> QED
  BY <1>1, <1>2 DEF Launch

LEMMA BootPorts == ASSUME IInv, PortsInv, Boot PROVE PortsInv'
<1>1. tried = {} /\ trouble = "none"
  BY DEF IInv, DownInv, Boot
<1>2. UNCHANGED <<settings, saved, tried, trouble>> /\ ~up /\ up' /\ plan' = <<"boot">>
  BY DEF Boot
<1>3. \A step : Todo(step)' <=> step = "boot"
  BY <1>2, Alone DEF Todo, Steps
<1>4. saved = settings
  BY <1>2 DEF PortsInv, FilePorts
<1> QED
  BY <1>1, <1>2, <1>3, <1>4 DEF PortsInv, PlannedPorts, CapturedPorts, FilePorts, CorePorts

LEMMA BootCorePorts == ASSUME IInv, PortsInv, BootCore PROVE PortsInv'
<1>1. Todo("boot") /\ up
  BY AtHead DEF BootCore
<1>2. saved = settings
  BY <1>1 DEF PortsInv, FilePorts
<1>3. /\ plan' = <<>> /\ UNCHANGED <<up, settings, saved, raced>>
      /\ (runtime' = settings.port /\ core' = settings.port) \/ spoiled'
  BY DEF BootCore, Goes
<1>4. \A step : ~Todo(step)'
  BY <1>3, Empty DEF Todo
<1> QED
  BY <1>1, <1>2, <1>3, <1>4 DEF PortsInv, PlannedPorts, CapturedPorts, FilePorts, CorePorts

\* Between commands the ports agree.
LEMMA IdlePorts ==
  ASSUME PortsInv, plan = <<>>, up, ~spoiled
  PROVE  /\ saved = settings /\ runtime = settings.port
         /\ ~raced => core \in {Down, settings.port}
BY IdlePlan DEF PortsInv, FilePorts, CorePorts

LEMMA SavePorts == ASSUME IInv, PortsInv, NEW next \in Settings, Save(next) PROVE PortsInv'
<1>1. plan = <<>> /\ up /\ settings \in Settings
  BY DEF IInv, TypeOK, Save, Idle
<1>2. /\ UNCHANGED <<up, saved, runtime, core, spoiled, raced>>
      /\ settings' = next /\ before' = Now /\ plan' = SavePlan(settings, next)
      /\ tried' = {} /\ trouble' = "none"
  BY DEF Save, outside, history
<1>3. /\ \A step : Todo(step)' =>
           step \in {"regenerate", "persist", "apply", "restartGuard", "reload", "hotkeys"}
      /\ Todo("persist")'
      /\ Todo("regenerate")' <=> next.port # settings.port
      /\ Todo("reload")' <=> next.port # settings.port
  BY <1>1, <1>2, SavePlanned DEF Todo
<1>4. /\ ~Todo("boot")' /\ ~Todo("undoMemory")' /\ ~Todo("undoFiles")' /\ ~Todo("resume")'
  BY <1>3
<1>5. before'.settings = settings /\ before'.saved = saved /\ before'.runtime = runtime
  BY <1>2 DEF Now
<1>6. PlannedPorts'
  BY <1>2, <1>4 DEF PlannedPorts
<1>7. CapturedPorts'
  BY <1>1, <1>2, <1>5, IdlePorts DEF CapturedPorts
<1>8. FilePorts'
  BY <1>1, <1>2, <1>3, <1>4, IdlePorts DEF FilePorts
<1>9. CorePorts'
  BY <1>1, <1>2, <1>3, <1>5, IdlePorts DEF CorePorts
<1> QED
  BY <1>6, <1>7, <1>8, <1>9 DEF PortsInv

LEMMA InstallPorts == ASSUME IInv, PortsInv, Install PROVE PortsInv'
<1>1. plan = <<>> /\ up
  BY DEF Install, Idle
<1>2. /\ UNCHANGED <<up, settings, saved, runtime, core, spoiled, raced>>
      /\ before' = Now /\ plan' = <<"stopCore", "retireGuard", "clear", "launch">>
      /\ tried' = {"core"} /\ trouble' = "none"
  BY DEF Install, outside, history
<1>3. \A step : Todo(step)' <=> step \in {"stopCore", "retireGuard", "clear", "launch"}
  BY <1>2 DEF Todo, Has
<1>4. before'.settings = settings /\ before'.saved = saved /\ before'.runtime = runtime
  BY <1>2 DEF Now
<1>5. PlannedPorts' /\ ~Todo("boot")'
  BY <1>3 DEF PlannedPorts
<1>6. CapturedPorts'
  BY <1>1, <1>2, <1>4, IdlePorts DEF CapturedPorts
<1>7. FilePorts' /\ CorePorts'
  BY <1>1, <1>2, <1>5, IdlePorts DEF FilePorts, CorePorts
<1> QED
  BY <1>5, <1>6, <1>7 DEF PortsInv

\* Beside the commands only the core moves: it ends, or it starts with the runtime
\* configuration, and is raced if a command is on its way.
LEMMA BesidePorts ==
  ASSUME IInv, PortsInv, UNCHANGED <<up, settings, saved, runtime, control, spoiled>>,
         \/ UNCHANGED <<core, raced>>
         \/ core' = Down
         \/ core' = runtime /\ up /\ (raced' \/ plan = <<>>)
  PROVE  PortsInv'
<1>1. \A step : Todo(step)' <=> Todo(step)
  BY DEF Todo, control
<1>2. UNCHANGED <<plan, before, tried, trouble>>
  BY DEF control
<1>3. PlannedPorts' /\ CapturedPorts' /\ FilePorts'
  BY <1>1, <1>2 DEF PortsInv, PlannedPorts, CapturedPorts, FilePorts
<1>4. CorePorts'
  <2>1. CASE UNCHANGED <<core, raced>> \/ core' = Down
    BY <1>1, <1>2, <2>1 DEF PortsInv, CorePorts
  <2>2. CASE core' = runtime /\ up /\ (raced' \/ plan = <<>>)
    BY <1>2, <2>2, IdlePorts DEF CorePorts
  <2> QED
    BY <2>1, <2>2
<1> QED
  BY <1>3, <1>4 DEF PortsInv

LEMMA PortsStart == Init => PortsInv
<1> SUFFICES ASSUME Init PROVE PortsInv
  OBVIOUS
<1>1. \A step : ~Todo(step)
  BY IdlePlan DEF Init
<1> QED
  BY <1>1 DEF Init, PortsInv, PlannedPorts, CapturedPorts, FilePorts, CorePorts

LEMMA PortsStep == IInv /\ PortsInv /\ [Next]_vars => PortsInv'
<1> SUFFICES ASSUME IInv, PortsInv, [Next]_vars PROVE PortsInv'
  OBVIOUS
<1>1. CASE \E next \in Settings : Save(next)
  BY <1>1, SavePorts
<1>2. CASE Install
  BY <1>2, InstallPorts
<1>3. CASE Command
  BY <1>3, CommandPorts, LaunchPorts, BootCorePorts
<1>4. CASE \E g \in Generations : Guard(g)
  <2>1. UNCHANGED <<up, settings, saved, runtime, control, spoiled, core, raced>>
    BY <1>4 DEF Guard, CheckGeneration, CheckSettings, Look, Repair, LoopOnly
  <2> QED
    BY <2>1, BesidePorts
<1>5. CASE Boot
  BY <1>5, BootPorts
<1>6. CASE Killed \/ Exit
  BY <1>6, GonePorts DEF Killed, Exit
<1>7. CASE QuitClear \/ QuitStop
  <2>1. /\ UNCHANGED <<up, settings, saved, runtime, control, spoiled, raced>>
        /\ core' \in {core, Down}
    BY <1>7 DEF QuitClear, QuitStop, QuitOnly
  <2> QED
    BY <2>1, BesidePorts
<1>8. CASE CoreStops
  BY <1>8, BesidePorts DEF CoreStops
<1>9. CASE CoreStarts
  BY <1>9, BesidePorts DEF CoreStarts, Idle
<1>10. CASE Drift
  BY <1>10, BesidePorts DEF Drift
<1>11. CASE UNCHANGED vars
  BY <1>11, BesidePorts DEF vars, outside, history
<1> QED
  BY <1>1, <1>2, <1>3, <1>4, <1>5, <1>6, <1>7, <1>8, <1>9, <1>10, <1>11 DEF Next

\* Between commands settings.json, the runtime configuration and the core use the port
\* of the settings in memory, which is the one the system proxy names, whichever step
\* of which command failed; excepted are a rollback that failed and a core that was
\* started while a command that failed later had its configuration in place.
THEOREM PortsHold == Spec => []PortsAgree
<1>1. ASSUME PortsInv PROVE PortsAgree
  BY <1>1, IdlePorts DEF PortsAgree, Settled, Idle
<1>2. Spec => []PortsInv
  BY InvHolds, PortsStart, PortsStep, PTL DEF Spec
<1> QED
  BY <1>1, <1>2, PTL
=============================================================================
