----------------------------- MODULE UnitOfWork -----------------------------
(***************************************************************************)
(* infrastructure/persistence/unit_of_work.py with the executor it runs on *)
(* (executor.py) and the connection it shares (engine.py).                 *)
(*                                                                         *)
(* Units of work run as tasks of one event loop and take turns on one      *)
(* connection behind an asyncio lock.  Every database call is a job for    *)
(* the one database thread, which runs jobs first in, first out, and the   *)
(* unit awaits it.  A task may be cancelled at any await: a job that has   *)
(* not begun is then dropped, one that runs goes on with nobody waiting.   *)
(* A job that has finished while its task is cancelled before it resumes   *)
(* looks the same to both sides.                                           *)
(*                                                                         *)
(* A unit writes the rows 1..Writes and then commits; a body that catches  *)
(* the failure of a write and goes on is left out, and so are savepoints.  *)
(* That commit ends with an announcement is the use cases' part            *)
(* (SyncLive._announce); the event list of the unit itself has no reader.  *)
(***************************************************************************)
EXTENDS Integers, Sequences

CONSTANTS
    Units,          \* the units of work, each begun once
    Writes,         \* how many rows a unit writes
    MaxCancels      \* bound: cancellations

ASSUME UnitsAssumption == {"free", "auto"} \cap Units = {}
ASSUME WritesAssumption == Writes \in Nat \ {0}
ASSUME MaxCancelsAssumption == MaxCancels \in Nat

VARIABLES
    at,             \* where each unit is
    wrote,          \* rows each unit has written
    holding,        \* units whose _holds_lock is set
    jobs,           \* the executor's queue
    running,        \* the job at its head has begun
    conn,           \* the connection: whose transaction is open, and its rows
    disk,           \* what is durable
    announced,      \* units whose facts were published
    cancels

vars == <<at, wrote, holding, jobs, running, conn, disk, announced, cancels>>

Rows == Units \X (1..Writes)
Closed == [by |-> "free", rows |-> {}]
RowsOf(u) == {u} \X (1..Writes)

Kinds == {"release", "begin", "write", "commit", "rollback"}
Queued == [unit : Units, kind : Kinds, awaited : BOOLEAN]
Job(u, kind) == [unit |-> u, kind |-> kind, awaited |-> TRUE]

AwaitsJob == {"releasing", "beginning", "writing", "committing", "undoing", "leaving"}

\* A unit is over: also one cut off where it keeps the lock ("stranded"), or
\* without its rollback ("unrolled").
Finished == {"timed out", "ended", "stranded", "unrolled"}

Init ==
    /\ at = [u \in Units |-> "idle"]
    /\ wrote = [u \in Units |-> 0]
    /\ holding = {} /\ jobs = <<>> /\ running = FALSE
    /\ conn = Closed /\ disk = {}
    /\ announced = {} /\ cancels = 0

\* Every variable has its type; no unit writes more rows than it has.
TypeOK ==
    /\ at \in [Units -> {"idle", "locking", "open", "announcing"} \cup AwaitsJob \cup Finished]
    /\ wrote \in [Units -> 0..Writes]
    /\ holding \in SUBSET Units
    /\ jobs \in Seq(Queued)
    /\ running \in BOOLEAN
    /\ conn \in [by : Units \cup {"free", "auto"}, rows : SUBSET Rows]
    /\ disk \in SUBSET Rows
    /\ announced \in SUBSET Units
    /\ cancels \in 0..MaxCancels

Goes(u, step) == at' = [at EXCEPT ![u] = step]

-----------------------------------------------------------------------------
(***************************************************************************)
(* The unit, on the event loop.                                            *)
(***************************************************************************)
Enter(u) ==
    /\ at[u] = "idle" /\ Goes(u, "locking")
    /\ UNCHANGED <<wrote, holding, jobs, running, conn, disk, announced, cancels>>

\* Mutant: no lock.
LockAlways == TRUE

LockIsFree == holding = {}

Acquire(u) ==
    /\ at[u] = "locking" /\ LockIsFree /\ Goes(u, "releasing")
    /\ holding' = holding \cup {u}
    /\ jobs' = Append(jobs, Job(u, "release"))
    /\ UNCHANGED <<wrote, running, conn, disk, announced, cancels>>

\* Mutant: the unit goes on waiting.
LockRetry(u) == at[u] = "locking" /\ ~LockIsFree /\ UNCHANGED vars

LockTimeout(u) ==
    /\ at[u] = "locking" /\ ~LockIsFree /\ Goes(u, "timed out")
    /\ UNCHANGED <<wrote, holding, jobs, running, conn, disk, announced, cancels>>

HasMore(u) == wrote[u] < Writes

Write(u) ==
    /\ at[u] = "open" /\ HasMore(u) /\ Goes(u, "writing")
    /\ jobs' = Append(jobs, Job(u, "write"))
    /\ UNCHANGED <<wrote, holding, running, conn, disk, announced, cancels>>

Commit(u) ==
    /\ at[u] = "open" /\ wrote[u] = Writes /\ Goes(u, "committing")
    /\ jobs' = Append(jobs, Job(u, "commit"))
    /\ UNCHANGED <<wrote, holding, running, conn, disk, announced, cancels>>

\* The body raises, or returns without having committed.
ExitEarly(u) ==
    /\ at[u] = "open" /\ Goes(u, "leaving")
    /\ jobs' = Append(jobs, Job(u, "rollback"))
    /\ UNCHANGED <<wrote, holding, running, conn, disk, announced, cancels>>

Announce(u) ==
    /\ at[u] = "announcing" /\ Goes(u, "ended")
    /\ announced' = announced \cup {u}
    /\ UNCHANGED <<wrote, holding, jobs, running, conn, disk, cancels>>

-----------------------------------------------------------------------------
(***************************************************************************)
(* The database thread.                                                    *)
(***************************************************************************)
StartJob ==
    /\ jobs # <<>> /\ ~running /\ running' = TRUE
    /\ UNCHANGED <<at, wrote, holding, jobs, conn, disk, announced, cancels>>

\* The job at the head is done; the unit that awaits it, if it still does,
\* goes to a step and may queue another job.
Done(kind) == running /\ running' = FALSE /\ Head(jobs).kind = kind

Resume(step, more) ==
    LET j == Head(jobs) IN
    /\ at' = IF j.awaited THEN [at EXCEPT ![j.unit] = step] ELSE at
    /\ jobs' = IF j.awaited THEN Tail(jobs) \o more ELSE Tail(jobs)

LetsGo == holding' = IF Head(jobs).awaited THEN holding \ {Head(jobs).unit} ELSE holding

RollBackAny == conn' = Closed

ReleaseDone ==
    /\ Done("release") /\ RollBackAny
    /\ Resume("beginning", <<Job(Head(jobs).unit, "begin")>>)
    /\ UNCHANGED <<wrote, holding, disk, announced, cancels>>

BeginDone ==
    /\ Done("begin") /\ conn.by = "free"
    /\ conn' = [Closed EXCEPT !.by = Head(jobs).unit]
    /\ Resume("open", <<>>)
    /\ UNCHANGED <<wrote, holding, disk, announced, cancels>>

\* begin() or the release before it raises; a transaction that is still open
\* makes begin() raise.
BeginFails ==
    /\ Done("begin") \/ Done("release")
    /\ Resume("ended", <<>>) /\ LetsGo
    /\ UNCHANGED <<wrote, conn, disk, announced, cancels>>

\* A statement on a connection without a transaction begins one by itself.
WriteDone ==
    LET u == Head(jobs).unit IN
    /\ Done("write")
    /\ wrote' = [wrote EXCEPT ![u] = @ + 1]
    /\ conn' = [by |-> IF conn.by = "free" THEN "auto" ELSE conn.by,
                rows |-> conn.rows \cup {<<u, wrote[u] + 1>>}]
    /\ Resume("open", <<>>)
    /\ UNCHANGED <<holding, disk, announced, cancels>>

WriteFails ==
    /\ Done("write")
    /\ Resume("leaving", <<Job(Head(jobs).unit, "rollback")>>)
    /\ UNCHANGED <<wrote, holding, conn, disk, announced, cancels>>

\* The transaction object of a unit is of no use once the connection has
\* another transaction, or none.
CommitDone ==
    /\ Done("commit") /\ conn.by = Head(jobs).unit
    /\ disk' = disk \cup conn.rows
    /\ conn' = Closed
    /\ Resume("announcing", <<>>) /\ LetsGo
    /\ UNCHANGED <<wrote, announced, cancels>>

\* Mutants: a failed commit is reported like one that worked; it is not
\* rolled back.
FailsQuietly == Resume("announcing", <<>>) /\ LetsGo
FailsOpen == Resume("ended", <<>>) /\ LetsGo

FailsLoudly == Resume("undoing", <<Job(Head(jobs).unit, "rollback")>>) /\ UNCHANGED holding

CommitFails ==
    /\ Done("commit") /\ FailsLoudly
    /\ UNCHANGED <<wrote, conn, disk, announced, cancels>>

RollsBack == conn' = IF conn.by = Head(jobs).unit THEN Closed ELSE conn

RollbackDone ==
    /\ Done("rollback") /\ RollsBack
    /\ Resume("ended", <<>>) /\ LetsGo
    /\ UNCHANGED <<wrote, disk, announced, cancels>>

\* A rollback that raises still gives the lock back.  SQLite ends a transaction
\* even where its ROLLBACK reports an error; one that a closed executor refuses
\* leaves it open.
RollbackFails ==
    /\ Done("rollback") /\ LetsGo
    /\ \/ RollsBack /\ Resume("ended", <<>>)
       \/ UNCHANGED conn /\ Resume("unrolled", <<>>)
    /\ UNCHANGED <<wrote, disk, announced, cancels>>

-----------------------------------------------------------------------------
(***************************************************************************)
(* Cancellation: what becomes of the job the unit waits for.               *)
(***************************************************************************)
Runs(u) == running /\ Head(jobs).unit = u /\ Head(jobs).awaited

Abandoned(u) ==
    IF Runs(u) THEN [jobs EXCEPT ![1].awaited = FALSE]
    ELSE LET i == CHOOSE i \in 1..Len(jobs) : jobs[i].unit = u /\ jobs[i].awaited
         IN  SubSeq(jobs, 1, i - 1) \o SubSeq(jobs, i + 1, Len(jobs))

\* begin() catches Exception, which a cancellation is not, and __aexit__ does
\* not run for a unit that was never entered.
CancelBegin(u) ==
    /\ at[u] \in {"releasing", "beginning"} /\ Goes(u, "stranded")
    /\ jobs' = Abandoned(u) /\ UNCHANGED holding

\* __aexit__ rolls back.
CancelBody(u) ==
    /\ at[u] \in {"open", "writing", "committing"} /\ Goes(u, "leaving")
    /\ jobs' = Append(IF at[u] = "open" THEN jobs ELSE Abandoned(u), Job(u, "rollback"))
    /\ UNCHANGED holding

\* The finally of rollback() and of _safe_rollback() releases the lock.
CancelRollback(u) ==
    /\ at[u] \in {"undoing", "leaving"} /\ Goes(u, "unrolled")
    /\ jobs' = Abandoned(u) /\ holding' = holding \ {u}

CancelOutside(u) ==
    /\ at[u] \in {"locking", "announcing"} /\ Goes(u, "ended")
    /\ UNCHANGED <<jobs, holding>>

Cancel(u) ==
    /\ cancels < MaxCancels /\ cancels' = cancels + 1
    /\ CancelBegin(u) \/ CancelBody(u) \/ CancelRollback(u) \/ CancelOutside(u)
    /\ UNCHANGED <<wrote, running, conn, disk, announced>>

-----------------------------------------------------------------------------
UnitStep(u) == Enter(u) \/ Acquire(u) \/ LockTimeout(u) \/ Write(u) \/ Commit(u)
               \/ ExitEarly(u) \/ Announce(u)

FinishJob == ReleaseDone \/ BeginDone \/ BeginFails \/ WriteDone \/ WriteFails
             \/ CommitDone \/ CommitFails \/ RollbackDone \/ RollbackFails

Worker == StartJob \/ FinishJob

AllEnded == jobs = <<>> /\ \A u \in Units : at[u] \in Finished

Rest == AllEnded /\ UNCHANGED vars

Next == (\E u \in Units : UnitStep(u) \/ Cancel(u)) \/ Worker \/ Rest

Spec == Init /\ [][Next]_vars

\* The loop runs every task that is ready and the timers that are due; the
\* thread takes every job it is given and every job ends.
FairSpec == Spec /\ WF_vars(Worker) /\ \A u \in Units : WF_vars(UnitStep(u))

-----------------------------------------------------------------------------
(***************************************************************************)
(* Properties.                                                             *)
(***************************************************************************)
\* A transaction holds the rows of the unit that began it and of no other,
\* and is open only under that unit's feet: statements of a cancelled unit
\* that still run never end up in the next unit's transaction.
Isolated ==
    /\ \A row \in conn.rows : row[1] = conn.by
    /\ \A u, v \in Units : at[u] = "open" /\ at[v] = "open" => u = v

\* "One use case is one transaction": of the rows of a unit the disk has all
\* or none, however it was cancelled and whatever failed, and a fact that was
\* rolled back is never announced.
AllOrNothing ==
    \A u \in Units :
        /\ RowsOf(u) \subseteq disk \/ RowsOf(u) \cap disk = {}
        /\ u \in announced => RowsOf(u) \subseteq disk

\* "Cleanup is automatic" (ports/unit_of_work.py): wherever it fails or is
\* cancelled, a unit that is over has given the lock back, but for one cancelled
\* inside begin(), which was never entered and keeps it for ever; and a lock
\* nobody holds means a connection without a transaction, but for one whose
\* rollback was cancelled or refused, which the next unit clears.
LockGoesWithTheUnit ==
    /\ \A u \in holding : at[u] \in Finished => at[u] = "stranded"
    /\ holding = {} /\ conn # Closed => conn.by \in Units /\ at[conn.by] = "unrolled"

\* Every unit that is entered commits, rolls back or gives up: the wait for
\* the lock is bounded, so no unit can hang the others for ever.
EveryUnitEnds == \A u \in Units : at[u] = "locking" ~> at[u] \in Finished
=============================================================================
