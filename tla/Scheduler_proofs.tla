-------------------------- MODULE Scheduler_proofs --------------------------
(***************************************************************************)
(* Proofs about Scheduler: its type invariant, that callbacks of one task  *)
(* never overlap, that a closed done channel means quiescence, and that    *)
(* the cadence of every task is kept, for every set of tasks and workers,  *)
(* every interval and every clock bound.                                   *)
(***************************************************************************)
EXTENDS Scheduler, TLAPS

\* Moving an instant forward by a whole number of intervals yields an instant.
LEMMA AdvanceNat ==
    ASSUME NEW n \in Nat, NEW a \in Nat, NEW i \in Nat \ {0}, n <= a
    PROVE  n + ((a - n) \div i + 1) * i \in Nat
<1>1. (a - n) \div i \in Nat
  OBVIOUS
<1>2. \A k, j \in Nat : (k + 1) * j \in Nat
  OBVIOUS
<1> QED
  BY <1>1, <1>2

\* The type invariant is inductive: every action of the callers, the loop and
\* the callback goroutines keeps the variables in their ranges.
LEMMA TypeStep == TypeOK /\ [Next]_vars => TypeOK'
<1> SUFFICES ASSUME TypeOK, [Next]_vars PROVE TypeOK'
  OBVIOUS
<1> USE IntervalAssumption, DelayAssumption, ClockAssumption DEF TypeOK, LoopPcs, NoTimer
<1>1. CASE Tick
  BY <1>1 DEF Tick, taskVars
<1>2. ASSUME NEW t \in Tasks, Schedule(t) PROVE TypeOK'
  BY <1>2 DEF Schedule
<1>3. ASSUME NEW t \in Tasks, TriggerCheck(t) PROVE TypeOK'
  BY <1>3 DEF TriggerCheck, taskVars
<1>t. CASE TriggerStore
  <2>1. caller' \in [pc : {"idle", "lock", "load", "notify"}, task : Tasks \union {NoTask}]
    BY <1>t DEF TriggerStore, IdleCaller
  <2>2. mu' \in BOOLEAN
    BY <1>t, Zenon DEF TriggerStore
  <2>3. triggered' \in [Tasks -> BOOLEAN] /\ owed' \in [Tasks -> BOOLEAN]
    BY <1>t DEF TriggerStore
  <2>4. UNCHANGED <<now, registered, next, running, closed, wake, done, loop, worker>>
    BY <1>t DEF TriggerStore
  <2> QED
    BY <2>1, <2>2, <2>3, <2>4
<1>4. CASE TriggerLoad
  BY <1>4 DEF TriggerLoad
<1>5. CASE TriggerNotify
  BY <1>5 DEF TriggerNotify, taskVars, IdleCaller
<1>6. CASE Close
  BY <1>6 DEF Close, taskVars
<1>7. CASE NextRun
  <2>0. UNCHANGED <<now, taskVars, closed, mu, wake, done, caller, worker, owed>>
    BY <1>7, Zenon DEF NextRun
  <2>1. CASE loop' = [loop EXCEPT !.pc = "select", !.timer = NoTimer]
    BY <2>0, <2>1 DEF taskVars
  <2>2. ASSUME NEW t \in registered, loop' = [loop EXCEPT !.pc = "select", !.timer = MaxOf(next[t], now)]
        PROVE  TypeOK'
    <3>1. MaxOf(next[t], now) \in Nat
      BY DEF MaxOf
    <3> QED
      BY <2>0, <2>2, <3>1 DEF taskVars
  <2>3. \/ loop' = [loop EXCEPT !.pc = "select", !.timer = NoTimer]
        \/ \E t \in registered : loop' = [loop EXCEPT !.pc = "select", !.timer = MaxOf(next[t], now)]
    BY <1>7, Zenon DEF NextRun
  <2> QED
    BY <2>1, <2>2, <2>3, Zenon
<1>8. CASE SelectWake
  BY <1>8 DEF SelectWake, taskVars
<1>9. CASE SelectStop
  BY <1>9 DEF SelectStop, taskVars
<1>10. CASE SelectTimer
  <2>1. PICK at \in 0..now :
          LET due == {t \in registered : next[t] <= at}
          IN  /\ next' = [t \in Tasks |-> IF t \in due THEN Advance(t, at) ELSE next[t]]
              /\ loop' = [pc |-> "start", timer |-> NoTimer, due |-> due, cur |-> NoTask]
    BY <1>10 DEF SelectTimer
  <2>2. \A t \in Tasks : next[t] <= at => Advance(t, at) \in Nat
    <3> SUFFICES ASSUME NEW t \in Tasks, next[t] <= at PROVE Advance(t, at) \in Nat
      OBVIOUS
    <3>1. next[t] \in Nat /\ at \in Nat /\ Interval[t] \in Nat \ {0}
      OBVIOUS
    <3> QED
      BY ONLY <3>1, AdvanceNat, next[t] <= at DEF Advance
  <2>3. next' \in [Tasks -> Nat]
    BY <2>1, <2>2
  <2> QED
    BY <1>10, <2>1, <2>3 DEF SelectTimer
<1>11. ASSUME NEW t \in Tasks, StartTask(t) PROVE TypeOK'
  <2>1. loop' \in [pc : LoopPcs, timer : Nat \union {NoTimer}, due : SUBSET Tasks, cur : Tasks \union {NoTask}]
    <3>1. \/ loop' = [loop EXCEPT !.due = loop.due \ {t}]
          \/ loop' = [loop EXCEPT !.pc = "clear", !.due = loop.due \ {t}, !.cur = t]
      BY <1>11, Zenon DEF StartTask
    <3>2. loop.due \ {t} \in SUBSET Tasks
      OBVIOUS
    <3> QED
      BY <3>1, <3>2
  <2>2. running' \in [Tasks -> BOOLEAN] /\ mu' \in BOOLEAN
    <3>1. \/ UNCHANGED <<running, mu>>
          \/ running' = [running EXCEPT ![t] = TRUE] /\ mu' = TRUE
      BY <1>11, Zenon DEF StartTask
    <3> QED
      BY <3>1
  <2> QED
    BY <1>11, <2>1, <2>2 DEF StartTask
<1>12. CASE ClearTrigger
  BY <1>12 DEF ClearTrigger
<1>13. ASSUME NEW w \in Workers, Launch(w) PROVE TypeOK'
  <2>1. worker' \in [Workers -> [pc : {"idle", "run", "swap", "advance", "notify"},
                                 task : Tasks \union {NoTask}]]
    BY <1>13 DEF Launch
  <2>2. running' \in [Tasks -> BOOLEAN] /\ owed' \in [Tasks -> BOOLEAN]
    BY <1>13 DEF Launch
  <2> QED
    BY <1>13, <2>1, <2>2 DEF Launch
<1>14. CASE EndTurn
  BY <1>14 DEF EndTurn, taskVars
<1>15. CASE LoopExit
  BY <1>15 DEF LoopExit, taskVars
<1>16. ASSUME NEW w \in Workers, FinishTask(w) PROVE TypeOK'
  <2>1. worker' \in [Workers -> [pc : {"idle", "run", "swap", "advance", "notify"},
                                 task : Tasks \union {NoTask}]]
    BY <1>16 DEF FinishTask
  <2>2. running' \in [Tasks -> BOOLEAN]
    BY <1>16 DEF FinishTask
  <2> QED
    BY <1>16, <2>1, <2>2 DEF FinishTask
<1>17. ASSUME NEW w \in Workers, SwapTrigger(w) PROVE TypeOK'
  <2>1. worker' \in [Workers -> [pc : {"idle", "run", "swap", "advance", "notify"},
                                 task : Tasks \union {NoTask}]]
    BY <1>17 DEF SwapTrigger, IdleWorker
  <2>2. triggered' \in [Tasks -> BOOLEAN]
    BY <1>17 DEF SwapTrigger
  <2> QED
    BY <1>17, <2>1, <2>2 DEF SwapTrigger
<1>18. ASSUME NEW w \in Workers, AdvanceTriggered(w) PROVE TypeOK'
  <2>1. worker'[w] \in [pc : {"idle", "run", "swap", "advance", "notify"}, task : Tasks \union {NoTask}]
    BY <1>18 DEF AdvanceTriggered
  <2>2. next' \in [Tasks -> Nat]
    BY <1>18 DEF AdvanceTriggered
  <2>3. worker' = [worker EXCEPT ![w] = worker'[w]]
    BY <1>18 DEF AdvanceTriggered
  <2> QED
    BY <1>18, <2>1, <2>2, <2>3 DEF AdvanceTriggered
<1>19. ASSUME NEW w \in Workers, FinishNotify(w) PROVE TypeOK'
  BY <1>19 DEF FinishNotify, taskVars, IdleWorker
<1>20. CASE UNCHANGED vars
  BY <1>20 DEF vars
<1> QED
  BY <1>1, <1>2, <1>3, <1>t, <1>4, <1>5, <1>6, <1>7, <1>8, <1>9, <1>10, <1>11, <1>12, <1>13,
     <1>14, <1>15, <1>16, <1>17, <1>18, <1>19, <1>20
     DEF Next, CallerNext, LoopNext, WorkerNext

\* The initial state of NewScheduler is well typed.
LEMMA TypeInit == Init => TypeOK
<1> SUFFICES ASSUME Init PROVE TypeOK
  OBVIOUS
<1>1. now \in Nat /\ registered \in SUBSET Tasks /\ next \in [Tasks -> Nat]
  BY DEF Init
<1>2. /\ running \in [Tasks -> BOOLEAN]
      /\ triggered \in [Tasks -> BOOLEAN]
      /\ owed \in [Tasks -> BOOLEAN]
  BY DEF Init
<1>3. closed \in BOOLEAN /\ mu \in BOOLEAN /\ wake \in BOOLEAN /\ done \in BOOLEAN
  BY DEF Init
<1>4. loop \in [pc : LoopPcs, timer : Nat \union {NoTimer}, due : SUBSET Tasks, cur : Tasks \union {NoTask}]
  BY DEF Init, LoopPcs
<1>5. caller \in [pc : {"idle", "lock", "load", "notify"}, task : Tasks \union {NoTask}]
  BY DEF Init, IdleCaller
<1>6. worker \in [Workers -> [pc : {"idle", "run", "swap", "advance", "notify"},
                              task : Tasks \union {NoTask}]]
  BY DEF Init, IdleWorker
<1> QED
  BY <1>1, <1>2, <1>3, <1>4, <1>5, <1>6 DEF TypeOK

\* Type correctness of the scheduler for every value of its constants.
THEOREM TypeCorrect == Spec => []TypeOK
BY TypeInit, TypeStep, PTL DEF Spec

-----------------------------------------------------------------------------
\* The strengthening of NonReentrant and DoneIsQuiescent: running[t] is set
\* exactly on behalf of one goroutine, which is either the callback of t or the
\* loop between its compare-and-swap and workers.Go; the loop stops only once
\* the scheduler is closed.
StartInv ==
    /\ \A w \in Workers : worker[w].pc = "run" => worker[w].task \in Tasks /\ running[worker[w].task]
    /\ loop.pc \in {"clear", "launch"} =>
         /\ loop.cur \in Tasks
         /\ running[loop.cur]
         /\ \A w \in Workers : worker[w].pc = "run" => worker[w].task # loop.cur
    /\ loop.pc \in {"wait", "exited"} => closed
    /\ done => loop.pc = "exited"

IInv == TypeOK /\ StartInv /\ NonReentrant /\ DoneIsQuiescent

\* A new scheduler satisfies the inductive invariant.
LEMMA IInvInit == Init => IInv
<1> SUFFICES ASSUME Init PROVE IInv
  OBVIOUS
<1>1. TypeOK
  BY TypeInit
<1>2. \A w \in Workers : worker[w].pc = "idle"
  BY DEF Init, IdleWorker
<1>3. loop.pc = "nextRun" /\ ~done
  BY DEF Init
<1> QED
  BY <1>1, <1>2, <1>3 DEF IInv, StartInv, NonReentrant, DoneIsQuiescent

\* One case per action; only StartTask, Launch, FinishTask and LoopExit disturb
\* a conjunct of the strengthening.
LEMMA IInvStep == IInv /\ [Next]_vars => IInv'
<1> SUFFICES ASSUME IInv, [Next]_vars PROVE (StartInv /\ NonReentrant /\ DoneIsQuiescent)'
  BY TypeStep DEF IInv
<1> USE DEF IInv, TypeOK, LoopPcs, StartInv, NonReentrant, DoneIsQuiescent
<1>1. CASE Tick \/ (\E t \in Tasks : Schedule(t) \/ TriggerCheck(t)) \/ TriggerStore \/ TriggerLoad \/ TriggerNotify \/ Close
  BY <1>1 DEF Tick, Schedule, TriggerCheck, TriggerStore, TriggerLoad, TriggerNotify, Close, taskVars
<1>2. CASE NextRun
  <2>1. loop'.pc = "select" /\ loop.pc = "nextRun"
    <3>1. loop.pc = "nextRun"
      BY <1>2, Zenon DEF NextRun
    <3>2. \/ loop' = [loop EXCEPT !.pc = "select", !.timer = NoTimer]
          \/ \E t \in registered : loop' = [loop EXCEPT !.pc = "select", !.timer = MaxOf(next[t], now)]
      BY <1>2, Zenon DEF NextRun
    <3>3. loop'.pc = "select"
      <4>1. CASE loop' = [loop EXCEPT !.pc = "select", !.timer = NoTimer]
        BY <4>1
      <4>2. ASSUME NEW t \in registered, loop' = [loop EXCEPT !.pc = "select", !.timer = MaxOf(next[t], now)]
            PROVE  loop'.pc = "select"
        BY <4>2
      <4> QED
        BY <3>2, <4>1, <4>2, Zenon
    <3> QED
      BY <3>1, <3>3
  <2>2. UNCHANGED <<running, closed, done, worker>>
    BY <1>2, Zenon DEF NextRun, taskVars
  <2> QED
    BY <2>1, <2>2
<1>21. CASE SelectWake
  BY <1>21 DEF SelectWake, taskVars
<1>22. CASE SelectStop
  BY <1>22 DEF SelectStop, taskVars
<1>23. CASE EndTurn
  BY <1>23 DEF EndTurn, taskVars
<1>3. CASE SelectTimer
  BY <1>3 DEF SelectTimer
<1>4. ASSUME NEW t \in Tasks, StartTask(t) PROVE (StartInv /\ NonReentrant /\ DoneIsQuiescent)'
  <2>1. CASE SkipStart(t)
    BY <1>4, <2>1 DEF StartTask
  <2>2. CASE ~SkipStart(t)
    <3>1. /\ running' = [running EXCEPT ![t] = TRUE] /\ ~running[t]
          /\ loop'.pc = "clear" /\ loop'.cur = t /\ loop.pc = "start"
          /\ UNCHANGED <<closed, worker, done>>
      BY <1>4, <2>2 DEF StartTask, SkipStart
    <3>2. \A w \in Workers : worker[w].pc = "run" => worker[w].task # t
      BY <3>1
    <3> QED
      BY <3>1, <3>2
  <2> QED
    BY <2>1, <2>2
<1>5. CASE ClearTrigger
  BY <1>5 DEF ClearTrigger
<1>6. ASSUME NEW w \in Workers, Launch(w) PROVE (StartInv /\ NonReentrant /\ DoneIsQuiescent)'
  <2>1. /\ loop.pc = "launch" /\ loop'.pc = "start"
        /\ UNCHANGED <<closed, done>>
    BY <1>6 DEF Launch
  <2>2. CASE closed
    BY <1>6, <2>1, <2>2 DEF Launch
  <2>3. CASE ~closed
    <3>1. /\ worker' = [worker EXCEPT ![w] = [pc |-> "run", task |-> loop.cur]]
          /\ running' = running
      BY <1>6, <2>3 DEF Launch
    <3> QED
      BY <2>1, <3>1
  <2> QED
    BY <2>2, <2>3
<1>7. CASE LoopExit
  BY <1>7 DEF LoopExit, WorkersDone, taskVars
<1>8. ASSUME NEW w \in Workers, FinishTask(w) PROVE (StartInv /\ NonReentrant /\ DoneIsQuiescent)'
  BY <1>8 DEF FinishTask
<1>9. ASSUME NEW w \in Workers, SwapTrigger(w) \/ AdvanceTriggered(w) \/ FinishNotify(w)
      PROVE (StartInv /\ NonReentrant /\ DoneIsQuiescent)'
  <2>1. CASE SwapTrigger(w)
    <3>1. /\ \A v \in Workers : worker'[v] = worker[v] \/ worker'[v].pc \in {"advance", "idle"}
          /\ worker[w].pc = "swap" /\ UNCHANGED <<running, loop, done, closed>>
      BY <2>1 DEF SwapTrigger, IdleWorker
    <3> QED BY <3>1
  <2>2. CASE AdvanceTriggered(w)
    <3>1. /\ \A v \in Workers : worker'[v] = worker[v] \/ worker'[v].pc = "notify"
          /\ worker[w].pc = "advance" /\ UNCHANGED <<running, loop, done, closed>>
      BY <2>2 DEF AdvanceTriggered
    <3> QED BY <3>1
  <2>3. CASE FinishNotify(w)
    <3>1. /\ \A v \in Workers : worker'[v] = worker[v] \/ worker'[v].pc = "idle"
          /\ worker[w].pc = "notify" /\ UNCHANGED <<running, loop, done, closed>>
      BY <2>3 DEF FinishNotify, IdleWorker, taskVars
    <3> QED BY <3>1
  <2> QED BY <1>9, <2>1, <2>2, <2>3
<1>10. CASE UNCHANGED vars
  BY <1>10 DEF vars
<1> QED
  BY <1>1, <1>2, <1>21, <1>22, <1>23, <1>3, <1>4, <1>5, <1>6, <1>7, <1>8, <1>9, <1>10
     DEF Next, CallerNext, LoopNext, WorkerNext

\* Callbacks of one task never overlap, for every set of tasks, any number of
\* callback goroutines and any interleaving with Trigger, Close and finishTask.
THEOREM NonReentrancy == Spec => []NonReentrant
BY IInvInit, IInvStep, PTL DEF Spec, IInv

\* After done is closed no callback runs or can start.
THEOREM Quiescence == Spec => []DoneIsQuiescent
BY IInvInit, IInvStep, PTL DEF Spec, IInv

-----------------------------------------------------------------------------
(* The cadence.                                                            *)

\* A whole number of intervals is a multiple of the interval.
LEMMA WholeIntervals == ASSUME NEW k \in Nat, NEW i \in Nat \ {0} PROVE (k * i) % i = 0
OBVIOUS

\* What is left after the whole intervals is less than one.
LEMMA LastInterval ==
    ASSUME NEW a \in Nat, NEW i \in Nat \ {0}
    PROVE  (a \div i) \in Nat /\ (a \div i) * i <= a /\ a < (a \div i + 1) * i
<1>1. (a \div i) * i <= a
  OBVIOUS
<1>2. a < (a \div i + 1) * i
  OBVIOUS
<1>3. (a \div i) \in Nat
  OBVIOUS
<1> QED BY <1>1, <1>2, <1>3

\* A task taken at an instant moves by whole intervals, beyond that instant and by no more than
\* one interval.
LEMMA AdvanceWhole ==
    ASSUME NEW n \in Nat, NEW a \in Nat, NEW i \in Nat \ {0}, n <= a
    PROVE  LET m == n + ((a - n) \div i + 1) * i
           IN  m \in Nat /\ (m - n) % i = 0 /\ m <= a + i /\ m > a
<1> DEFINE b == a - n
           q == b \div i
           d == (q + 1) * i
<1>1. b \in Nat
  OBVIOUS
<1>2. q \in Nat /\ q * i <= b /\ b < (q + 1) * i
  BY <1>1, LastInterval
<1>3. q + 1 \in Nat /\ d \in Nat
  <2>1. \A k \in Nat : k + 1 \in Nat /\ (k + 1) * i \in Nat
    OBVIOUS
  <2> QED BY <1>2, <2>1
<1>4. d % i = 0
  BY <1>3, WholeIntervals
<1>5. d <= b + i
  <2>1. \A k \in Nat : (k + 1) * i = k * i + i
    OBVIOUS
  <2>2. q * i \in Nat
    <3>1. \A k \in Nat : k * i \in Nat
      OBVIOUS
    <3> QED BY <1>2, <3>1
  <2> QED BY <1>1, <1>2, <2>1, <2>2
<1>6. d > b
  BY <1>2
<1>7. b = a - n
  OBVIOUS
<1> HIDE DEF b, q, d
<1>8. n + d \in Nat /\ ((n + d) - n) % i = 0 /\ n + d <= a + i /\ n + d > a
  <2>1. (n + d) - n = d
    BY <1>3
  <2> QED BY <1>1, <1>3, <1>4, <1>5, <1>6, <1>7, <2>1
<1> QED BY <1>8 DEF d, q, b

\* The only turn of the loop that takes tasks, and what it does to them.
LEMMA TurnMoves ==
    ASSUME TypeOK, SelectTimer
    PROVE  \E at \in 0..now :
             /\ loop.timer <= at
             /\ loop'.due = {t \in registered : next[t] <= at}
             /\ \A t \in registered :
                  \/ next'[t] = next[t] /\ t \notin loop'.due
                  \/ /\ (next'[t] - next[t]) % Interval[t] = 0 /\ next'[t] \in Nat
                     /\ next[t] <= at /\ next'[t] <= at + Interval[t] /\ next'[t] > at
<1>1. PICK at \in 0..now :
        /\ loop.timer <= at
        /\ LET due == {t \in registered : next[t] <= at}
           IN  /\ next' = [t \in Tasks |-> IF t \in due THEN Advance(t, at) ELSE next[t]]
               /\ loop' = [pc |-> "start", timer |-> NoTimer, due |-> due, cur |-> NoTask]
  BY DEF SelectTimer
<1>2. loop'.due = {t \in registered : next[t] <= at}
  BY <1>1
<1>3. ASSUME NEW t \in registered
      PROVE  \/ next'[t] = next[t] /\ t \notin loop'.due
             \/ /\ (next'[t] - next[t]) % Interval[t] = 0 /\ next'[t] \in Nat
                /\ next[t] <= at /\ next'[t] <= at + Interval[t] /\ next'[t] > at
  <2>0. t \in Tasks /\ next[t] \in Nat /\ at \in Nat /\ Interval[t] \in Nat \ {0}
    BY IntervalAssumption DEF TypeOK
  <2>1. CASE next[t] <= at
    <3>1. next'[t] = Advance(t, at)
      BY <1>1, <2>0, <2>1
    <3>2. /\ Advance(t, at) \in Nat /\ (Advance(t, at) - next[t]) % Interval[t] = 0
          /\ Advance(t, at) <= at + Interval[t] /\ Advance(t, at) > at
      BY ONLY <2>0, <2>1, AdvanceWhole DEF Advance
    <3> QED BY <2>1, <3>1, <3>2
  <2>2. CASE ~(next[t] <= at)
    BY <1>1, <1>2, <2>0, <2>2
  <2> QED BY <2>1, <2>2
<1> QED BY <1>1, <1>2, <1>3

\* The next instant of a registered task moves to the present or by a turn of the loop.
LEMMA NextMoves ==
    ASSUME TypeOK, [Next]_vars
    PROVE  \/ SelectTimer
           \/ /\ \A t \in registered : next'[t] = next[t] \/ next'[t] = now
              /\ ~(loop.pc = "select" /\ loop'.pc = "start")
<1> USE DEF TypeOK, taskVars
<1>1. CASE Tick \/ (\E t \in Tasks : TriggerCheck(t)) \/ TriggerStore \/ TriggerNotify \/ Close
  <2>1. UNCHANGED <<next, loop>>
    BY <1>1, Zenon DEF Tick, TriggerCheck, TriggerStore, TriggerNotify, Close
  <2> QED BY <2>1
<1>2. ASSUME NEW t \in Tasks, Schedule(t)
      PROVE  loop' = loop /\ \A u \in registered : next'[u] = next[u]
  BY <1>2 DEF Schedule
<1>3. CASE TriggerLoad
  BY <1>3 DEF TriggerLoad
<1>4. CASE SelectWake \/ SelectStop \/ ClearTrigger \/ EndTurn \/ LoopExit
  BY <1>4 DEF SelectWake, SelectStop, ClearTrigger, EndTurn, LoopExit
<1>5. CASE NextRun
  BY <1>5 DEF NextRun
<1>6. ASSUME NEW t \in Tasks, StartTask(t) PROVE UNCHANGED next /\ loop.pc = "start"
  BY <1>6, Zenon DEF StartTask
<1>7. ASSUME NEW w \in Workers, Launch(w) PROVE UNCHANGED next /\ loop.pc = "launch"
  BY <1>7 DEF Launch
<1>8. ASSUME NEW w \in Workers, FinishTask(w) \/ SwapTrigger(w) \/ FinishNotify(w) PROVE UNCHANGED <<next, loop>>
  BY <1>8 DEF FinishTask, SwapTrigger, FinishNotify
<1>9. ASSUME NEW w \in Workers, AdvanceTriggered(w)
      PROVE  loop' = loop /\ \A t \in registered : next'[t] = next[t] \/ next'[t] = now
  BY <1>9 DEF AdvanceTriggered
<1>10. CASE UNCHANGED vars
  BY <1>10 DEF vars
<1> QED
  BY <1>1, <1>2, <1>3, <1>4, <1>5, <1>6, <1>7, <1>8, <1>9, <1>10 DEF Next, CallerNext, LoopNext, WorkerNext

\* The cadence of every task is kept, whatever its interval and however late the loop comes:
\* takeDue adds whole intervals, past the present by one at most, and a trigger sets the
\* present.
THEOREM Cadence == Spec => CadenceKept
<1>1. ASSUME TypeOK, [Next]_vars
      PROVE  [\A t \in registered :
                next'[t] # next[t] =>
                   \/ next'[t] = now
                   \/ /\ (next'[t] - next[t]) % Interval[t] = 0
                      /\ next[t] <= now
                      /\ next'[t] <= now + Interval[t]]_vars
  <2>0. now \in Nat /\ \A t \in registered : next[t] \in Nat /\ Interval[t] \in Nat \ {0}
    BY <1>1, IntervalAssumption DEF TypeOK
  <2>1. CASE SelectTimer
    BY <1>1, <2>0, <2>1, TurnMoves
  <2>2. CASE \A t \in registered : next'[t] = next[t] \/ next'[t] = now
    BY <2>2
  <2> QED BY <1>1, <2>1, <2>2, NextMoves
<1>2. TypeOK /\ [Next]_vars =>
        [\A t \in registered :
           next'[t] # next[t] =>
              \/ next'[t] = now
              \/ /\ (next'[t] - next[t]) % Interval[t] = 0
                 /\ next[t] <= now
                 /\ next'[t] <= now + Interval[t]]_vars
  BY <1>1
<1> QED BY <1>2, TypeCorrect, PTL DEF Spec, CadenceKept

\* A task the loop has taken is due again only after the instant it was taken at: an overdue
\* task is not taken once for every turn it has missed (takeDue).
THEOREM TakenOnce == Spec => NoBurst
<1>1. ASSUME TypeOK, [Next]_vars
      PROVE  [loop.pc = "select" /\ loop'.pc = "start" => \A t \in loop'.due : next'[t] > loop.timer]_vars
  <2>1. CASE SelectTimer
    <3>1. PICK at \in 0..now :
             /\ loop.timer <= at
             /\ loop'.due = {t \in registered : next[t] <= at}
             /\ \A t \in registered :
                  \/ next'[t] = next[t] /\ t \notin loop'.due
                  \/ /\ (next'[t] - next[t]) % Interval[t] = 0 /\ next'[t] \in Nat
                     /\ next[t] <= at /\ next'[t] <= at + Interval[t] /\ next'[t] > at
      BY <1>1, <2>1, TurnMoves
    <3>2. loop.timer \in Int /\ at \in Int
      BY <1>1 DEF TypeOK, NoTimer
    <3>3. ASSUME NEW t \in loop'.due PROVE next'[t] > loop.timer
      <4>1. next'[t] \in Nat /\ next'[t] > at
        BY <3>1, <3>3
      <4> QED BY <3>1, <3>2, <4>1
    <3> QED BY <3>3
  <2>2. CASE ~(loop.pc = "select" /\ loop'.pc = "start")
    BY <2>2
  <2> QED BY <1>1, <2>1, <2>2, NextMoves
<1>2. TypeOK /\ [Next]_vars =>
        [loop.pc = "select" /\ loop'.pc = "start" => \A t \in loop'.due : next'[t] > loop.timer]_vars
  BY <1>1
<1> QED BY <1>2, TypeCorrect, PTL DEF Spec, NoBurst
=============================================================================
