----------------------------- MODULE Supervisor -----------------------------
(***************************************************************************)
(* infrastructure/tasks/supervisor.py, and Container.run_live_sync, the    *)
(* caller that polls it and then stops it.  Each supervised task is a      *)
(* coroutine that runs its factory, sleeps after a failure, and runs it    *)
(* again.  The code supervises one task today; the class takes any number, *)
(* and starts them at any time until it is stopped.                        *)
(*                                                                         *)
(* How long a backoff lasts is left open, and so is how often the caller   *)
(* polls: a poll may fall into a backoff or miss it.                       *)
(***************************************************************************)
EXTENDS Integers

CONSTANTS
    TaskNames,      \* the names of the supervised tasks
    MaxRestarts     \* max_restarts

ASSUME MaxRestartsAssumption == MaxRestarts \in Nat

VARIABLES
    at,             \* where each task's _run is
    status,         \* TaskStatus, per task
    stopping,       \* _Supervised.stopping
    cancelled,      \* tasks with a cancellation on its way
    left,           \* tasks whose end stop() has still to await
    caller,         \* where run_live_sync is
    interrupted     \* the operator interrupted the caller

supervisorVars == <<at, status, stopping, cancelled, left, caller, interrupted>>

Fresh == [running |-> FALSE, restarts |-> 0, finished |-> FALSE, failure |-> FALSE]

Statuses == [running : BOOLEAN, restarts : 0..MaxRestarts,
             finished : BOOLEAN, failure : BOOLEAN]

SupervisorTypeOK ==
    /\ at \in [TaskNames -> {"unstarted", "scheduled", "running", "sleeping", "ended"}]
    /\ status \in [TaskNames -> Statuses]
    /\ stopping \in [TaskNames -> BOOLEAN]
    /\ cancelled \in SUBSET TaskNames
    /\ left \in SUBSET TaskNames
    /\ caller \in {"starting", "polling", "stopping", "returned"}
    /\ interrupted \in BOOLEAN

SupervisorInit ==
    /\ at = [t \in TaskNames |-> "unstarted"]
    /\ status = [t \in TaskNames |-> Fresh]
    /\ stopping = [t \in TaskNames |-> FALSE]
    /\ cancelled = {} /\ left = {}
    /\ caller = "starting" /\ interrupted = FALSE

Running(t, yes) == status' = [status EXCEPT ![t].running = yes]

-----------------------------------------------------------------------------
(***************************************************************************)
(* start().  create_task only schedules the coroutine, and the task is     *)
(* marked running at once: nobody who polls may find it not yet begun.     *)
(***************************************************************************)
Stopped == caller \in {"stopping", "returned"}

\* Mutant: a supervisor that has been stopped takes another task.
MayStartLate(t) == at[t] = "unstarted"

MayStart(t) == ~Stopped /\ at[t] = "unstarted"

Starts(names) ==
    /\ \A t \in names : MayStart(t)
    /\ at' = [t \in TaskNames |-> IF t \in names THEN "scheduled" ELSE at[t]]
    /\ status' = [t \in TaskNames |->
                     IF t \in names THEN [status[t] EXCEPT !.running = TRUE] ELSE status[t]]
    /\ UNCHANGED <<stopping, cancelled, left, interrupted>>

\* run_live_sync starts what it supervises before it first polls ...
Batches == SUBSET TaskNames \ {{}}

StartSome ==
    /\ caller = "starting"
    /\ \E names \in Batches : Starts(names)
    /\ caller' = "polling"

\* ... and more may be started while it does.
StartAnother(t) == caller # "starting" /\ Starts({t}) /\ UNCHANGED caller

-----------------------------------------------------------------------------
(***************************************************************************)
(* _run.                                                                   *)
(***************************************************************************)
Begin(t) ==
    /\ at[t] = "scheduled" /\ t \notin cancelled
    /\ at' = [at EXCEPT ![t] = "running"]
    /\ Running(t, TRUE)
    /\ UNCHANGED <<stopping, cancelled, left, caller, interrupted>>

\* The factory returned: its stream has ended, and it is not run again.  It
\* may also have swallowed its cancellation.
Return(t) ==
    /\ at[t] = "running"
    /\ at' = [at EXCEPT ![t] = "ended"]
    /\ status' = [status EXCEPT ![t].running = FALSE, ![t].finished = TRUE]
    /\ cancelled' = cancelled \ {t}
    /\ UNCHANGED <<stopping, left, caller, interrupted>>

\* Mutant: one restart too few.
MayRestartOnceLess(t) == status[t].restarts + 1 < MaxRestarts

MayRestart(t) == status[t].restarts < MaxRestarts

\* Mutant: a failure during shutdown is a failure like any other.
GivesUpLate(t) == ~MayRestart(t)

GivesUp(t) == stopping[t] \/ ~MayRestart(t)

\* The factory raised, possibly while it was being cancelled.
Raise(t) ==
    /\ at[t] = "running"
    /\ cancelled' = cancelled \ {t}
    /\ \/ /\ GivesUp(t)
          /\ at' = [at EXCEPT ![t] = "ended"]
          /\ status' = [status EXCEPT ![t].running = FALSE, ![t].failure = TRUE]
       \/ /\ ~GivesUp(t)
          /\ at' = [at EXCEPT ![t] = "sleeping"]
          /\ status' = [status EXCEPT ![t].running = FALSE, ![t].restarts = @ + 1]
    /\ UNCHANGED <<stopping, left, caller, interrupted>>

Wake(t) ==
    /\ at[t] = "sleeping" /\ t \notin cancelled
    /\ at' = [at EXCEPT ![t] = "running"]
    /\ Running(t, TRUE)
    /\ UNCHANGED <<stopping, cancelled, left, caller, interrupted>>

\* CancelledError ends the task wherever it waits.  Inside the factory it is
\* caught to clear the mark; in the backoff nothing catches it, nor where _run
\* had not begun, whose mark stays set.
Cancelled(t) ==
    /\ t \in cancelled /\ at[t] \in {"scheduled", "running", "sleeping"}
    /\ at' = [at EXCEPT ![t] = "ended"]
    /\ IF at[t] = "running" THEN Running(t, FALSE) ELSE UNCHANGED status
    /\ cancelled' = cancelled \ {t}
    /\ UNCHANGED <<stopping, left, caller, interrupted>>

-----------------------------------------------------------------------------
(***************************************************************************)
(* run_live_sync: poll until nothing runs, then stop() in any case.        *)
(***************************************************************************)
IsRunning == \E t \in TaskNames : status[t].running

Registered == {t \in TaskNames : at[t] # "unstarted"}

\* stop() up to its first await: every task is told and cancelled.
StopAll ==
    /\ caller' = "stopping"
    /\ stopping' = [t \in TaskNames |-> t \in Registered]
    /\ cancelled' = {t \in Registered : at[t] # "ended"}
    /\ left' = Registered
    /\ UNCHANGED <<at, status>>

Poll ==
    /\ caller = "polling" /\ ~IsRunning
    /\ StopAll
    /\ UNCHANGED interrupted

Interrupt ==
    /\ caller = "polling"
    /\ StopAll
    /\ interrupted' = TRUE

\* Mutant: stop() goes by the mark, which a backoff has cleared.
Unmarked(t) == ~status[t].running

HasEnded(t) == at[t] = "ended"

\* stop() awaits one task after another, here in any order, and clears the
\* mark of each behind it.
Await(t) ==
    /\ caller = "stopping" /\ t \in left /\ HasEnded(t)
    /\ left' = left \ {t}
    /\ Running(t, FALSE)
    /\ UNCHANGED <<at, stopping, cancelled, caller, interrupted>>

StopReturns ==
    /\ caller = "stopping" /\ left = {}
    /\ caller' = "returned"
    /\ UNCHANGED <<at, status, stopping, cancelled, left, interrupted>>

-----------------------------------------------------------------------------
Task(t) == Begin(t) \/ Return(t) \/ Raise(t) \/ Wake(t) \/ Cancelled(t)

SupervisorNext ==
    \/ \E t \in TaskNames : StartAnother(t) \/ Task(t) \/ Await(t)
    \/ StartSome \/ Poll \/ Interrupt \/ StopReturns

SupervisorSpec == SupervisorInit /\ [][SupervisorNext]_supervisorVars

\* A factory may follow its stream for ever, but it ends when it is cancelled;
\* sleeping and awaiting are the loop's.
SupervisorFairness ==
    /\ \A t \in TaskNames :
          /\ WF_supervisorVars(Begin(t)) /\ WF_supervisorVars(Wake(t))
          /\ WF_supervisorVars(Cancelled(t)) /\ WF_supervisorVars(Await(t))
    /\ WF_supervisorVars(StopReturns)

SupervisorFairSpec == SupervisorSpec /\ SupervisorFairness

-----------------------------------------------------------------------------
(***************************************************************************)
(* Properties.                                                             *)
(***************************************************************************)

\* When stop() has returned, no coroutine it ever took is left, and none will
\* be: not one that was asleep in its backoff, had not begun, swallowed its
\* cancellation, or asked to be started meanwhile.  And no status still claims
\* to be running.  The caller may disconnect the gateway and close the database.
StoppedMeansEnded ==
    caller = "returned" =>
        \A t \in TaskNames : at[t] \in {"unstarted", "ended"} /\ ~status[t].running

\* A task that ended by itself says why: it finished, or it failed once more
\* than it may be restarted.
EndIsExplained ==
    \A t \in TaskNames : at[t] = "ended" /\ ~stopping[t] =>
        \/ status[t].finished /\ ~status[t].failure
        \/ status[t].failure /\ status[t].restarts = MaxRestarts

\* A task that finished, or that was told to stop, never begins another attempt.
NoAttemptAfterEnd ==
    [][\A t \in TaskNames : (stopping[t] \/ status[t].finished) /\ at[t] # "running"
            => at'[t] # "running"]_supervisorVars

\* Shutdown terminates: once the caller stops the supervisor it returns.
ShutdownReturns == caller = "stopping" ~> caller = "returned"

(***************************************************************************)
(* What the repository says and the code does not do.                      *)
(***************************************************************************)

\* "Polling rather than awaiting the task, because the supervisor may restart
\* it" (run_live_sync), and max_restarts is how many failures the run "rides
\* out before giving up": an uninterrupted caller stops only finished tasks.
RidesOutFailures ==
    caller = "stopping" /\ ~interrupted =>
        \A t \in TaskNames :
            at[t] = "unstarted" \/ status[t].finished \/ status[t].failure
=============================================================================
