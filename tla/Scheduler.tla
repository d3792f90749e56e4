----------------------------- MODULE Scheduler -----------------------------
(***************************************************************************)
(* The process-wide scheduler of periodic maintenance work                 *)
(* (src/internal/service/tasks/scheduler.go).  One loop goroutine waits    *)
(* for the earliest task; callbacks run in goroutines of their own; any    *)
(* goroutine may call Schedule, Trigger and Close.                         *)
(*                                                                         *)
(* The mutex scheduler.mu is modelled by mu.  The atomics running,         *)
(* triggered and closed are read and written outside it as well, so every  *)
(* access to one of them that another goroutine can separate from the next *)
(* is a step of its own.                                                   *)
(***************************************************************************)
EXTENDS Integers, FiniteSets

CONSTANTS
    Tasks,      \* task names
    Workers,    \* bound: callback goroutines alive at the same time
    NoTask,     \* no task: an idle caller, worker or loop
    Interval,   \* interval of each task
    Delay,      \* initialDelay of each task, after negative values became 0
    MaxNow      \* bound: the last instant of the clock

ASSUME TaskAssumption == NoTask \notin Tasks
ASSUME IntervalAssumption == Interval \in [Tasks -> Nat \ {0}]
ASSUME DelayAssumption == Delay \in [Tasks -> Nat]
ASSUME ClockAssumption == MaxNow \in Nat

VARIABLES
    now,         \* the wall clock
    registered,  \* keys of scheduler.tasks
    next,        \* task.next
    running,     \* task.running
    triggered,   \* task.triggered
    closed,      \* scheduler.closed, with ctx cancelled and stop closed
    mu,          \* TRUE while a goroutine keeps scheduler.mu between two steps
    wake,        \* a token is in the wake channel (capacity 1)
    done,        \* the done channel is closed
    loop,        \* [pc, timer, due, cur] of the loop goroutine
    caller,      \* [pc, task] of the goroutine inside Schedule or Trigger
    worker,      \* [pc, task] of each callback goroutine
    owed         \* history: Trigger returned true and no run started since

taskVars == <<registered, next, running, triggered>>
vars == <<now, registered, next, running, triggered, closed, mu, wake, done,
          loop, caller, worker, owed>>

NoTimer == -1
IdleWorker == [pc |-> "idle", task |-> NoTask]
IdleCaller == [pc |-> "idle", task |-> NoTask]

MaxOf(a, b) == IF a >= b THEN a ELSE b

Init ==
    /\ now = 0
    /\ registered = {}
    /\ next = [t \in Tasks |-> 0]
    /\ running = [t \in Tasks |-> FALSE]
    /\ triggered = [t \in Tasks |-> FALSE]
    /\ closed = FALSE
    /\ mu = FALSE
    /\ wake = FALSE
    /\ done = FALSE
    /\ loop = [pc |-> "nextRun", timer |-> NoTimer, due |-> {}, cur |-> NoTask]
    /\ caller = IdleCaller
    /\ worker = [w \in Workers |-> IdleWorker]
    /\ owed = [t \in Tasks |-> FALSE]

Tick ==
    /\ now < MaxNow
    /\ now' = now + 1
    /\ UNCHANGED <<taskVars, closed, mu, wake, done, loop, caller, worker, owed>>

-----------------------------------------------------------------------------
(* Callers.                                                                *)

\* Mutant of Schedule: the initial delay is subtracted.
ScheduleBackwards(t) ==
    /\ caller.pc = "idle"
    /\ ~closed /\ ~mu
    /\ t \notin registered
    /\ registered' = registered \union {t}
    /\ \E at \in 0..now : next' = [next EXCEPT ![t] = at - Delay[t]]
    /\ caller' = [pc |-> "notify", task |-> t]
    /\ UNCHANGED <<now, running, triggered, closed, mu, wake, done, loop, worker, owed>>

\* Schedule: a closed scheduler and a duplicate name are rejected; the clock is
\* read, at some instant at, before the lock is taken.
Schedule(t) ==
    /\ caller.pc = "idle"
    /\ ~closed /\ ~mu
    /\ t \notin registered
    /\ registered' = registered \union {t}
    /\ \E at \in 0..now : next' = [next EXCEPT ![t] = at + Delay[t]]
    /\ caller' = [pc |-> "notify", task |-> t]
    /\ UNCHANGED <<now, running, triggered, closed, mu, wake, done, loop, worker, owed>>

\* Trigger, before it waits for mu: a closed scheduler is left alone.
TriggerCheck(t) ==
    /\ caller.pc = "idle" /\ ~closed
    /\ caller' = [pc |-> "lock", task |-> t]
    /\ UNCHANGED <<now, taskVars, closed, mu, wake, done, loop, worker, owed>>

\* Trigger, first part: under mu the flag is stored before running is read; an
\* unknown name is refused.
TriggerStore ==
    LET t == caller.task
    IN  /\ caller.pc = "lock" /\ ~mu
        /\ IF t \in registered
           THEN /\ mu' = TRUE
                /\ triggered' = [triggered EXCEPT ![t] = TRUE]
                /\ owed' = [owed EXCEPT ![t] = TRUE]
                /\ caller' = [caller EXCEPT !.pc = "load"]
           ELSE /\ caller' = IdleCaller
                /\ UNCHANGED <<mu, triggered, owed>>
        /\ UNCHANGED <<now, registered, next, running, closed, wake, done, loop, worker>>

\* Trigger, second part: a task that is not running becomes due at once.
TriggerLoad ==
    /\ caller.pc = "load"
    /\ next' = IF running[caller.task] THEN next
               ELSE [next EXCEPT ![caller.task] = now]
    /\ mu' = FALSE
    /\ caller' = [caller EXCEPT !.pc = "notify"]
    /\ UNCHANGED <<now, registered, running, triggered, closed, wake, done, loop, worker, owed>>

\* Mutant of TriggerNotify: the loop is not woken.
TriggerSilently ==
    /\ caller.pc = "notify"
    /\ caller' = IdleCaller
    /\ UNCHANGED <<now, taskVars, closed, mu, wake, done, loop, worker, owed>>

\* The last part of Schedule and Trigger: notify after the unlock.
TriggerNotify ==
    /\ caller.pc = "notify"
    /\ wake' = TRUE
    /\ caller' = IdleCaller
    /\ UNCHANGED <<now, taskVars, closed, mu, done, loop, worker, owed>>

\* Close: the body of stopOnce; waiting for done changes nothing.
Close ==
    /\ ~closed /\ ~mu
    /\ closed' = TRUE
    /\ UNCHANGED <<now, taskVars, mu, wake, done, loop, caller, worker, owed>>

-----------------------------------------------------------------------------
(* The loop goroutine.                                                     *)

\* nextRun and the arming of the timer; without a task no timer is armed.
NextRun ==
    /\ loop.pc = "nextRun" /\ ~mu
    /\ \/ /\ registered = {}
          /\ loop' = [loop EXCEPT !.pc = "select", !.timer = NoTimer]
       \/ \E t \in registered :
             /\ \A u \in registered : next[t] <= next[u]
             /\ loop' = [loop EXCEPT !.pc = "select", !.timer = MaxOf(next[t], now)]
    /\ UNCHANGED <<now, taskVars, closed, mu, wake, done, caller, worker, owed>>

SelectWake ==
    /\ loop.pc = "select" /\ wake
    /\ wake' = FALSE
    /\ loop' = [loop EXCEPT !.pc = "nextRun", !.timer = NoTimer]
    /\ UNCHANGED <<now, taskVars, closed, mu, done, caller, worker, owed>>

SelectStop ==
    /\ loop.pc = "select" /\ closed
    /\ loop' = [loop EXCEPT !.pc = "wait", !.timer = NoTimer]
    /\ UNCHANGED <<now, taskVars, closed, mu, wake, done, caller, worker, owed>>

\* Mutant of Advance: the interval counts from the present, off the cadence.
AdvanceFromPresent(t, at) == at + Interval[t]

\* Mutant of Advance: one interval only, so that missed turns are caught up.
AdvanceOnce(t, at) == next[t] + Interval[t]

\* The instant after which a task with this next, due at time at, runs again.
Advance(t, at) == next[t] + ((at - next[t]) \div Interval[t] + 1) * Interval[t]

\* takeDue(at) for the instant at which the timer fired, which may be earlier
\* than the instant at which the loop receives it.
SelectTimer ==
    /\ loop.pc = "select" /\ loop.timer # NoTimer /\ ~mu
    /\ \E at \in 0..now :
         /\ loop.timer <= at
         /\ LET due == {t \in registered : next[t] <= at}
            IN  /\ next' = [t \in Tasks |-> IF t \in due THEN Advance(t, at) ELSE next[t]]
                /\ loop' = [pc |-> "start", timer |-> NoTimer, due |-> due, cur |-> NoTask]
    /\ UNCHANGED <<now, registered, running, triggered, closed, mu, wake, done, caller, worker, owed>>

\* Mutant of SkipStart: no compare-and-swap on running.
SkipOnlyClosed(t) == closed

\* startTask does nothing for a task that runs, or once the scheduler is closed.
SkipStart(t) == closed \/ running[t]

\* startTask, up to the compare-and-swap: a closed scheduler and a task that is
\* still running are skipped.
StartTask(t) ==
    /\ loop.pc = "start" /\ t \in loop.due /\ ~mu
    /\ IF SkipStart(t)
       THEN /\ loop' = [loop EXCEPT !.due = @ \ {t}]
            /\ UNCHANGED <<running, mu>>
       ELSE /\ loop' = [loop EXCEPT !.pc = "clear", !.due = @ \ {t}, !.cur = t]
            /\ running' = [running EXCEPT ![t] = TRUE]
            /\ mu' = TRUE
    /\ UNCHANGED <<now, registered, next, triggered, closed, wake, done, caller, worker, owed>>

\* startTask: triggered.Store(false) and the unlock.
ClearTrigger ==
    /\ loop.pc = "clear"
    /\ triggered' = [triggered EXCEPT ![loop.cur] = FALSE]
    /\ mu' = FALSE
    /\ loop' = [loop EXCEPT !.pc = "launch"]
    /\ UNCHANGED <<now, registered, next, running, closed, wake, done, caller, worker, owed>>

\* startTask: the second look at closed, then workers.Go.
Launch(w) ==
    /\ loop.pc = "launch"
    /\ loop' = [loop EXCEPT !.pc = "start", !.cur = NoTask]
    /\ IF closed
       THEN /\ running' = [running EXCEPT ![loop.cur] = FALSE]
            /\ UNCHANGED <<worker, owed>>
       ELSE /\ worker[w].pc = "idle"
            /\ worker' = [worker EXCEPT ![w] = [pc |-> "run", task |-> loop.cur]]
            /\ owed' = [owed EXCEPT ![loop.cur] = FALSE]
            /\ UNCHANGED running
    /\ UNCHANGED <<now, registered, next, triggered, closed, mu, wake, done, caller>>

\* Every due task was handled: the loop starts over.
EndTurn ==
    /\ loop.pc = "start" /\ loop.due = {}
    /\ loop' = [loop EXCEPT !.pc = "nextRun"]
    /\ UNCHANGED <<now, taskVars, closed, mu, wake, done, caller, worker, owed>>

\* Mutant of WorkersDone: workers.Wait is left out.
WorkersIgnored == TRUE

\* workers.Wait returns once every callback goroutine has ended.
WorkersDone == \A w \in Workers : worker[w].pc = "idle"

\* workers.Wait returned; the deferred close(done) runs.
LoopExit ==
    /\ loop.pc = "wait"
    /\ WorkersDone
    /\ done' = TRUE
    /\ loop' = [loop EXCEPT !.pc = "exited"]
    /\ UNCHANGED <<now, taskVars, closed, mu, wake, caller, worker, owed>>

-----------------------------------------------------------------------------
(* A callback goroutine: task.run returns and finishTask is deferred.      *)

\* finishTask: running.Store(false).
FinishTask(w) ==
    /\ worker[w].pc = "run"
    /\ running' = [running EXCEPT ![worker[w].task] = FALSE]
    /\ worker' = [worker EXCEPT ![w].pc = "swap"]
    /\ UNCHANGED <<now, registered, next, triggered, closed, mu, wake, done, loop, caller, owed>>

\* finishTask: triggered.Swap(false) and the look at closed.
SwapTrigger(w) ==
    LET t == worker[w].task
    IN  /\ worker[w].pc = "swap"
        /\ triggered' = [triggered EXCEPT ![t] = FALSE]
        /\ worker' = [worker EXCEPT ![w] =
                        IF triggered[t] /\ ~closed THEN [pc |-> "advance", task |-> t]
                        ELSE IdleWorker]
        /\ UNCHANGED <<now, registered, next, running, closed, mu, wake, done, loop, caller, owed>>

\* finishTask: under mu the task becomes due again.
AdvanceTriggered(w) ==
    /\ worker[w].pc = "advance" /\ ~mu
    /\ next' = IF closed THEN next ELSE [next EXCEPT ![worker[w].task] = now]
    /\ worker' = [worker EXCEPT ![w].pc = "notify"]
    /\ UNCHANGED <<now, registered, running, triggered, closed, mu, wake, done, loop, caller, owed>>

\* Mutant of FinishNotify: a blocking send instead of the select with default.
FinishBlocking(w) ==
    /\ worker[w].pc = "notify" /\ ~wake
    /\ wake' = TRUE
    /\ worker' = [worker EXCEPT ![w] = IdleWorker]
    /\ UNCHANGED <<now, taskVars, closed, mu, done, loop, caller, owed>>

\* finishTask: notify after the unlock; the goroutine ends.
FinishNotify(w) ==
    /\ worker[w].pc = "notify"
    /\ wake' = TRUE
    /\ worker' = [worker EXCEPT ![w] = IdleWorker]
    /\ UNCHANGED <<now, taskVars, closed, mu, done, loop, caller, owed>>

-----------------------------------------------------------------------------
LoopNext ==
    \/ NextRun \/ SelectWake \/ SelectStop \/ SelectTimer
    \/ \E t \in Tasks : StartTask(t)
    \/ ClearTrigger
    \/ \E w \in Workers : Launch(w)
    \/ EndTurn \/ LoopExit

WorkerNext(w) ==
    FinishTask(w) \/ SwapTrigger(w) \/ AdvanceTriggered(w) \/ FinishNotify(w)

CallerNext ==
    \/ \E t \in Tasks : Schedule(t) \/ TriggerCheck(t)
    \/ TriggerStore \/ TriggerLoad \/ TriggerNotify \/ Close

Next ==
    \/ Tick
    \/ CallerNext
    \/ LoopNext
    \/ \E w \in Workers : WorkerNext(w)

Spec == Init /\ [][Next]_vars

\* The Go scheduler runs every runnable goroutine and callbacks honour their
\* context and return (weak fairness).  sync.Mutex serves a waiting goroutine
\* after at most a millisecond of being passed over, and select chooses at
\* random among ready channels (strong fairness of the steps that lock and of
\* the branches of select).
FairSpec ==
    /\ Spec
    /\ WF_vars(TriggerLoad) /\ WF_vars(TriggerNotify)
    /\ WF_vars(LoopNext)
    /\ SF_vars(NextRun) /\ SF_vars(SelectTimer) /\ SF_vars(SelectStop)
    /\ \A t \in Tasks : SF_vars(StartTask(t))
    /\ \A w \in Workers :
         WF_vars(FinishTask(w)) /\ WF_vars(SwapTrigger(w)) /\ WF_vars(FinishNotify(w))
         /\ SF_vars(AdvanceTriggered(w))

-----------------------------------------------------------------------------
(* Properties.                                                             *)

LoopPcs == {"nextRun", "select", "start", "clear", "launch", "wait", "exited"}

\* The values every variable ranges over.
TypeOK ==
    /\ now \in Nat
    /\ registered \in SUBSET Tasks
    /\ next \in [Tasks -> Nat]
    /\ running \in [Tasks -> BOOLEAN]
    /\ triggered \in [Tasks -> BOOLEAN]
    /\ closed \in BOOLEAN /\ mu \in BOOLEAN /\ wake \in BOOLEAN /\ done \in BOOLEAN
    /\ loop \in [pc : LoopPcs, timer : Nat \union {NoTimer}, due : SUBSET Tasks, cur : Tasks \union {NoTask}]
    /\ caller \in [pc : {"idle", "lock", "load", "notify"}, task : Tasks \union {NoTask}]
    /\ worker \in [Workers -> [pc : {"idle", "run", "swap", "advance", "notify"},
                               task : Tasks \union {NoTask}]]
    /\ owed \in [Tasks -> BOOLEAN]

\* Callbacks of one task never overlap, whatever the interleaving of the loop,
\* a late finishTask and Trigger ("running each task non-reentrantly").
NonReentrant ==
    \A v, w \in Workers :
        worker[v].pc = "run" /\ worker[w].pc = "run" /\ worker[v].task = worker[w].task => v = w

\* Once done is closed no callback is active and none can start: what Close
\* promises its caller when it returns.
DoneIsQuiescent ==
    done => /\ closed
            /\ \A w \in Workers : worker[w].pc = "idle"
            /\ loop.pc = "exited"

\* A task's next instant only moves to the present (a trigger) or forward by
\* whole intervals, by no more than one interval beyond the present: the
\* cadence is kept and missed turns are not caught up.
CadenceKept ==
    [][\A t \in registered :
         next'[t] # next[t] =>
            \/ next'[t] = now
            \/ /\ (next'[t] - next[t]) % Interval[t] = 0
               /\ next[t] <= now
               /\ next'[t] <= now + Interval[t]]_vars

\* A turn the loop takes moves every task it takes beyond the instant at which
\* the timer fired, so one overdue task cannot be taken twice for one instant.
NoBurst ==
    [][loop.pc = "select" /\ loop'.pc = "start" =>
         \A t \in loop'.due : next'[t] > loop.timer]_vars

\* A task that is due is taken by the loop or the scheduler is closed: no
\* wake-up is lost between notify, nextRun and the timer.
DueIsTaken ==
    \A t \in Tasks : (t \in registered /\ next[t] <= now) ~> (t \in loop.due \/ closed)

\* Close always gets its answer.
CloseCompletes == closed ~> done

\* What the comment of Trigger says, at every instant: a task that was triggered
\* and has not started since is due, about to be started, or will be made due
\* by the callback that is still running.
\* The code does not keep this: see the README, section 7.
TriggerNotLost ==
    \A t \in Tasks : owed[t] /\ ~closed =>
        \/ next[t] <= now
        \/ t \in loop.due \/ loop.cur = t
        \/ caller = [pc |-> "load", task |-> t]
        \/ triggered[t] /\ \E w \in Workers : worker[w].task = t /\ worker[w].pc \in {"run", "swap"}
        \/ \E w \in Workers : worker[w].task = t /\ worker[w].pc = "advance"
=============================================================================
