---------------------------- MODULE ProcessRunner ----------------------------
(***************************************************************************)
(* CommandRunner.Exec / runCtx of internal/client/command.go: one external *)
(* command run with a timeout and a caller context.  Three actors race:    *)
(*  - the runner goroutine, blocked in a select on the timeout context,   *)
(*    the caller context and the unbuffered channel done;                  *)
(*  - the waiter goroutine, which calls cmd.Wait and then sends its result *)
(*    on done (a rendezvous: the send completes only if someone receives)  *)
(*    and closes the channel;                                              *)
(*  - the child process, which exits on its own or is killed.              *)
(* Go's select picks any ready case, so all orders are explored.  Time is *)
(* abstracted to the instants the timers fire.                             *)
(***************************************************************************)
EXTENDS Naturals

CONSTANTS
    ZeroTimeout,   \* r.Timeout = 0: the timeout context is done from the start
    Cancellable,   \* the caller's ctx may be cancelled
    StartMayFail   \* cmd.Start may fail (binary missing, permissions)

ASSUME ZeroTimeout \in BOOLEAN /\ Cancellable \in BOOLEAN /\ StartMayFail \in BOOLEAN

VARIABLES
    runner,       \* control point of runCtx
    waiter,       \* control point of the goroutine that runs cmd.Wait
    proc,         \* the child process
    exitOk,       \* its exit status was 0 (meaningful once it exited on its own)
    reaped,       \* cmd.Wait has returned: Process.Kill now fails
    timerFired,   \* timeCtx.Done() is closed
    cancelled,    \* ctx.Done() is closed
    exitTimerFired, \* time.After(maxExitTimeout) of the inner select has fired
    result        \* the error runCtx returned

vars == <<runner, waiter, proc, exitOk, reaped, timerFired, cancelled, exitTimerFired, result>>

Results == {"none", "ok", "exitErr", "startErr", "timeoutErr", "killErr",
            "ctxErr", "waitExitTimeoutErr"}

TypeOK ==
    /\ runner \in {"start", "select", "drain", "returned"}
    /\ waiter \in {"none", "wait", "send", "done"}
    /\ proc \in {"unstarted", "running", "exited", "killing", "killed"}
    /\ exitOk \in BOOLEAN /\ reaped \in BOOLEAN
    /\ timerFired \in BOOLEAN /\ cancelled \in BOOLEAN /\ exitTimerFired \in BOOLEAN
    /\ result \in Results

Init ==
    /\ runner = "start" /\ waiter = "none" /\ proc = "unstarted"
    /\ exitOk = FALSE /\ reaped = FALSE
    /\ timerFired = ZeroTimeout
    /\ cancelled = FALSE /\ exitTimerFired = FALSE
    /\ result = "none"

Return(r) == runner' = "returned" /\ result' = r

(***************************************************************************)
(* Process.Kill: SIGKILL a live or zombie process; os.ErrProcessDone once  *)
(* Wait has reaped it.  Returns whether Kill succeeded.                    *)
(***************************************************************************)
KillOk == ~reaped
\* Mutant: the path gives up without calling cmd.Process.Kill.
KillSkipped == UNCHANGED proc
Kill == proc' = IF proc = "running" THEN "killing" ELSE proc

(***************************************************************************)
(* runCtx                                                                  *)
(***************************************************************************)
\* cmd.Start, then the waiter goroutine is spawned.
Start ==
    /\ runner = "start"
    /\ \/ /\ StartMayFail
          /\ Return("startErr")
          /\ UNCHANGED <<waiter, proc>>
       \/ /\ proc' = "running" /\ waiter' = "wait" /\ runner' = "select"
          /\ UNCHANGED result
    /\ UNCHANGED <<exitOk, reaped, timerFired, cancelled, exitTimerFired>>

\* case <-timeCtx.Done(): kill, and return the kill error or a timeout error.
SelectTimeout ==
    /\ runner = "select" /\ timerFired
    /\ Kill
    /\ Return(IF KillOk THEN "timeoutErr" ELSE "killErr")
    /\ UNCHANGED <<waiter, exitOk, reaped, timerFired, cancelled, exitTimerFired>>

\* case <-ctx.Done(): kill; on success go on to wait for the exit.
SelectCancel ==
    /\ runner = "select" /\ cancelled
    /\ Kill
    /\ IF KillOk THEN runner' = "drain" /\ UNCHANGED result
                 ELSE Return("killErr")
    /\ UNCHANGED <<waiter, exitOk, reaped, timerFired, cancelled, exitTimerFired>>

\* The error cmd.Wait sent: nil only for a clean exit.
DoneResult == IF proc = "exited" /\ exitOk THEN "ok" ELSE "exitErr"

\* case err := <-done: the waiter's send completes; it closes the channel.
SelectDone ==
    /\ runner = "select" /\ waiter = "send"
    /\ waiter' = "done"
    /\ Return(DoneResult)
    /\ UNCHANGED <<proc, exitOk, reaped, timerFired, cancelled, exitTimerFired>>

\* Inner select after a cancel: <-done, then return ctx.Err() ...
DrainDone ==
    /\ runner = "drain" /\ waiter = "send"
    /\ waiter' = "done"
    /\ Return("ctxErr")
    /\ UNCHANGED <<proc, exitOk, reaped, timerFired, cancelled, exitTimerFired>>

\* Mutant: the inner select waits on done alone.
DrainTimeoutMissing == FALSE

\* ... or time.After(maxExitTimeout) fires first.
DrainTimeout ==
    /\ runner = "drain" /\ exitTimerFired
    /\ Return("waitExitTimeoutErr")
    /\ UNCHANGED <<waiter, proc, exitOk, reaped, timerFired, cancelled, exitTimerFired>>

(***************************************************************************)
(* The waiter goroutine, the process and the clocks.                       *)
(***************************************************************************)
\* done <- cmd.Wait(): Wait returns once the process is gone.
WaitReturns ==
    /\ waiter = "wait" /\ proc \in {"exited", "killed"}
    /\ waiter' = "send" /\ reaped' = TRUE
    /\ UNCHANGED <<runner, proc, exitOk, timerFired, cancelled, exitTimerFired, result>>

ProcessExits ==
    /\ proc = "running"
    /\ proc' = "exited"
    /\ exitOk' \in BOOLEAN
    /\ UNCHANGED <<runner, waiter, reaped, timerFired, cancelled, exitTimerFired, result>>

\* A SIGKILLed process is gone once the kernel tears it down; one stuck in
\* uninterruptible sleep may take arbitrarily long.
ProcessDies ==
    /\ proc = "killing"
    /\ proc' = "killed"
    /\ UNCHANGED <<runner, waiter, exitOk, reaped, timerFired, cancelled, exitTimerFired, result>>

TimerFires ==
    /\ ~timerFired
    /\ timerFired' = TRUE
    /\ UNCHANGED <<runner, waiter, proc, exitOk, reaped, cancelled, exitTimerFired, result>>

\* The inner select's timer runs from the moment the runner enters it.
ExitTimerFires ==
    /\ runner = "drain" /\ ~exitTimerFired
    /\ exitTimerFired' = TRUE
    /\ UNCHANGED <<runner, waiter, proc, exitOk, reaped, timerFired, cancelled, result>>

CallerCancels ==
    /\ Cancellable /\ ~cancelled
    /\ cancelled' = TRUE
    /\ UNCHANGED <<runner, waiter, proc, exitOk, reaped, timerFired, exitTimerFired, result>>

Next ==
    \/ Start \/ SelectTimeout \/ SelectCancel \/ SelectDone
    \/ DrainDone \/ DrainTimeout
    \/ WaitReturns \/ ProcessExits \/ ProcessDies \/ TimerFires \/ ExitTimerFires
    \/ CallerCancels
    \/ (runner = "returned" /\ UNCHANGED vars)

\* The Go scheduler runs every runnable goroutine and timers fire.  A process
\* need not exit, or die after SIGKILL, and a caller need not cancel.
Fairness ==
    /\ WF_vars(Start) /\ WF_vars(SelectTimeout) /\ WF_vars(SelectCancel)
    /\ WF_vars(SelectDone) /\ WF_vars(DrainDone) /\ WF_vars(DrainTimeout)
    /\ WF_vars(WaitReturns) /\ WF_vars(TimerFires) /\ WF_vars(ExitTimerFires)

Spec == Init /\ [][Next]_vars /\ Fairness

(***************************************************************************)
(* Properties.                                                             *)
(***************************************************************************)
\* Exec never returns while the child still runs: every path that gives up
\* on the command first kills it (spec 4.1, 8).
NoProcessLeftRunning == runner = "returned" => proc # "running"

\* runCtx always returns, even when the command hangs or ignores SIGKILL.
RunnerReturns == <>(runner = "returned")

\* Once cmd.Wait has returned, the goroutine that called it finishes: its
\* send on done is received, so no goroutine is leaked.
WaiterTerminates == [](waiter = "send" => <>(waiter = "done"))

\* A command that exits with status 0 is reported as a success
\* (TestCommandRunner_Exec runs ls with Timeout 0 and asserts a nil error).
CleanExitReported ==
    (runner = "returned" /\ proc = "exited" /\ exitOk) => result = "ok"
=============================================================================
