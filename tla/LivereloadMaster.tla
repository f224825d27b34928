-------------------------- MODULE LivereloadMaster --------------------------
(***************************************************************************)
(* master.start of src/livereload/master_start.go and the goroutines it   *)
(* leaves behind.  start() runs under m.mu: it kills the worker that is   *)
(* still starting, spawns a new worker process and makes it the starting  *)
(* worker.  Per worker it leaves a ready-timeout goroutine (when          *)
(* ReadyTimeout > 0) and a goroutine blocked in worker.Wait().  Each     *)
(* critical section under m.mu (or m.mu.RLock) is one atomic step; the   *)
(* Wait goroutine's send on restartC happens outside the lock, between    *)
(* its Wait and its check.  The stdout/stderr copying goroutines only     *)
(* forward output lines and are not modelled.  The rest of the master    *)
(* (which reacts to events, calls start and promotes a ready worker to     *)
(* runningWorker) is not in the repository: Reload and Ready stand for     *)
(* it as unconstrained environment steps.                                 *)
(***************************************************************************)
EXTENDS Naturals, Sequences

CONSTANTS
    MaxWorkers,     \* bound on the workers start() spawns (their pids)
    ReadyTimeout,   \* m.config.ReadyTimeout > 0
    None            \* model value: a nil *exec.Cmd

Workers == 1..MaxWorkers

\* What worker.Wait() reports for a process: still running, exited with
\* err == nil, a non-zero exit, ConfigHashMismatchExitCode, or killed.
ProcStates == {"none", "alive", "ok", "failed", "mismatch", "killed"}

VARIABLES
    starting,   \* m.startingWorker
    running,    \* m.runningWorker
    proc,       \* proc[w]: the state of worker w's process
    timers,     \* workers whose ready-timeout goroutine has not fired yet
    waitPc,     \* waitPc[w]: where worker w's Wait goroutine is
    events,     \* the events emitted by m.emit, in order
    next        \* the pid the next spawned worker gets

vars == <<starting, running, proc, timers, waitPc, events, next>>

Init ==
    /\ starting = None /\ running = None
    /\ proc = [w \in Workers |-> "none"]
    /\ timers = {}
    /\ waitPc = [w \in Workers |-> "none"]
    /\ events = <<>>
    /\ next = 1

\* Process.Kill(): a process that has already exited is left as it is.
Kill(p, w) == IF p[w] = "alive" THEN [p EXCEPT ![w] = "killed"] ELSE p

Emit(name, w) == events' = Append(events, [name |-> name, worker |-> w])

\* Kill the worker still starting and clear m.startingWorker.
KillStarting == IF starting = None THEN proc ELSE Kill(proc, starting)

\* master.start(): the kill of the starting worker, then the pipes and
\* worker.Start(); on success the worker becomes the starting worker, a
\* start event is emitted and the timeout and Wait goroutines are spawned.
Start ==
    LET w == next
    IN /\ next <= MaxWorkers
       /\ proc' = [KillStarting EXCEPT ![w] = "alive"]
       /\ starting' = w
       /\ Emit("start", w)
       /\ timers' = IF ReadyTimeout THEN timers \cup {w} ELSE timers
       /\ waitPc' = [waitPc EXCEPT ![w] = "wait"]
       /\ next' = next + 1
       /\ UNCHANGED running

\* StdoutPipe, StderrPipe or worker.Start() fails: start() returns the
\* error with the previous starting worker killed and none in its place.
StartFail ==
    /\ next <= MaxWorkers
    /\ proc' = KillStarting
    /\ starting' = None
    /\ next' = next + 1
    /\ UNCHANGED <<running, timers, waitPc, events>>

\* The worker process exits by itself.
Exit(w) ==
    /\ proc[w] = "alive"
    /\ \E s \in {"ok", "failed", "mismatch"} : proc' = [proc EXCEPT ![w] = s]
    /\ UNCHANGED <<starting, running, timers, waitPc, events, next>>

\* The ready-timeout goroutine: under m.mu, if the worker is still the
\* starting worker, kill it, clear startingWorker and emit an error event.
ReadyTimeoutFires(w) ==
    /\ w \in timers
    /\ timers' = timers \ {w}
    /\ IF starting = w
         THEN /\ proc' = Kill(proc, w)
              /\ starting' = None
              /\ Emit("error", w)
         ELSE UNCHANGED <<proc, starting, events>>
    /\ UNCHANGED <<running, waitPc, next>>

\* worker.Wait() returns once the process is gone.  err == nil ends the
\* goroutine; ConfigHashMismatchExitCode first sends on restartC.
WaitReturns(w) ==
    /\ waitPc[w] = "wait" /\ proc[w] \notin {"none", "alive"}
    /\ waitPc' = [waitPc EXCEPT ![w] = CASE proc[w] = "ok"       -> "done"
                                         [] proc[w] = "mismatch" -> "restart"
                                         [] OTHER                -> "check"]
    /\ UNCHANGED <<starting, running, proc, timers, events, next>>

\* m.restartC <- struct{}{}: the master is asked to restart.
WaitRestart(w) ==
    /\ waitPc[w] = "restart"
    /\ waitPc' = [waitPc EXCEPT ![w] = "check"]
    /\ Emit("restart", w)
    /\ UNCHANGED <<starting, running, proc, timers, next>>

\* Mutant: the check looks at startingWorker only.
WaitCheckStartingOnly(w) ==
    /\ waitPc[w] = "check"
    /\ waitPc' = [waitPc EXCEPT ![w] = "done"]
    /\ IF w = starting THEN Emit("error", w) ELSE UNCHANGED events
    /\ UNCHANGED <<starting, running, proc, timers, next>>

\* Under m.mu.RLock: emit an error event if the worker is still the
\* starting or the running worker.
WaitCheck(w) ==
    /\ waitPc[w] = "check"
    /\ waitPc' = [waitPc EXCEPT ![w] = "done"]
    /\ IF w \in {starting, running} THEN Emit("error", w) ELSE UNCHANGED events
    /\ UNCHANGED <<starting, running, proc, timers, next>>

\* Environment: the master promotes the starting worker once it reports
\* ready, replacing (and killing) the worker that was running.
Ready ==
    /\ starting # None /\ proc[starting] = "alive"
    /\ running' = starting
    /\ starting' = None
    /\ proc' = IF running = None THEN proc ELSE Kill(proc, running)
    /\ UNCHANGED <<timers, waitPc, events, next>>

Next ==
    \/ Start \/ StartFail \/ Ready
    \/ \E w \in Workers :
         \/ Exit(w) \/ ReadyTimeoutFires(w)
         \/ WaitReturns(w) \/ WaitRestart(w) \/ WaitCheck(w)

\* The timer and Wait goroutines are runnable once their event happened
\* and Go schedules them; the environment (reloads, readiness, process
\* exits) is not fair.
Fairness ==
    \A w \in Workers : /\ WF_vars(ReadyTimeoutFires(w))
                       /\ WF_vars(WaitReturns(w) \/ WaitRestart(w) \/ WaitCheck(w))

Spec == Init /\ [][Next]_vars /\ Fairness

-----------------------------------------------------------------------------
(* Properties                                                              *)

TypeOK ==
    /\ starting \in Workers \cup {None} /\ running \in Workers \cup {None}
    /\ proc \in [Workers -> ProcStates]
    /\ timers \subseteq Workers
    /\ waitPc \in [Workers -> {"none", "wait", "restart", "check", "done"}]
    /\ next \in 1..MaxWorkers + 1

ErrorsOf(w) == {i \in DOMAIN events : events[i] = [name |-> "error", worker |-> w]}

\* A starting or running worker that exits with an error is reported
\* with workerErrorEvent, unless the master has replaced it first.
CrashReported ==
    \A w \in Workers :
        proc[w] = "failed" /\ w \in {starting, running}
            ~> ErrorsOf(w) # {} \/ w \notin {starting, running}

=============================================================================
