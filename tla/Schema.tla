------------------------------- MODULE Schema -------------------------------
(***************************************************************************)
(* The database's schema: how a command brings it to the revision it       *)
(* expects before it works (Container.start), and how db migrate and       *)
(* db downgrade move it (infrastructure/persistence/migrations.py and      *)
(* migrations/env.py).                                                     *)
(*                                                                         *)
(* Every command is a process, of an older or a newer release.  A revision *)
(* creates its tables and indexes in statements of its own and is stamped  *)
(* after the last of them.  SQLite's driver begins no transaction before a *)
(* CREATE or a DROP, and Alembic opens none around a migration on SQLite:  *)
(* each statement is durable when it has run.  The two revisions that      *)
(* rebuild a table are taken for statements like the others.               *)
(***************************************************************************)
EXTENDS Naturals, FiniteSets

CONSTANTS
    Shells,         \* processes running commands
    Newest,         \* the last revision there is
    Knows,          \* the head revision of each process's release
    Parts,          \* statements of a revision
    AutoMigrate,    \* database.auto_migrate
    MaxRuns         \* bound: commands started

ASSUME ShellsAssumption == IsFiniteSet(Shells)
ASSUME RevisionsAssumption == Newest \in Nat /\ Knows \in [Shells -> 0..Newest]
ASSUME PartsAssumption == Parts \in Nat \ {0}
ASSUME MaxRunsAssumption == AutoMigrate \in BOOLEAN /\ MaxRuns \in Nat

VARIABLES
    stamp,          \* the revision alembic_version has, 0 for none
    objects,        \* the tables and indexes that exist: revision and part
    work,           \* what each process is doing
    runs,           \* commands started
    torn            \* revisions that a migration began to change and did not finish

schemaVars == <<stamp, objects, work, runs, torn>>

Objects == (1..Newest) \X (1..Parts)

\* Where a command is: "up" is a command whose container has started.
Rests == {"off", "up", "done", "refused", "failed"}
Work == [at : Rests \cup {"status", "report", "plan", "statement", "stamp"},
         start : BOOLEAN,       \* a command that starts the container, or db migrate/downgrade
         upward : BOOLEAN,      \* upgrade or downgrade
         goal : 0..Newest, base : 0..Newest, part : 1..Parts]

SchemaInit ==
    /\ stamp = 0 /\ objects = {} /\ torn = {} /\ runs = 0
    /\ work = [p \in Shells |-> [at |-> "off", start |-> TRUE, upward |-> TRUE,
                                 goal |-> 0, base |-> 0, part |-> 1]]

\* Every variable has its type.
SchemaTypeOK ==
    /\ stamp \in 0..Newest /\ objects \subseteq Objects
    /\ work \in [Shells -> Work]
    /\ runs \in 0..MaxRuns /\ torn \subseteq 1..Newest

-----------------------------------------------------------------------------
Moves(p, place) == work' = [work EXCEPT ![p].at = place]

\* A command begins: one that starts the container, or a db command.
Runs(p, isStart, isUp, target, place) ==
    /\ runs < MaxRuns /\ runs' = runs + 1
    /\ work[p].at \in Rests
    /\ work' = [work EXCEPT ![p] = [at |-> place, start |-> isStart, upward |-> isUp,
                                    goal |-> target, base |-> 0, part |-> 1]]
    /\ UNCHANGED <<stamp, objects, torn>>

StartContainer(p) == Runs(p, TRUE, TRUE, Knows[p], "status")
MigrateTo(p) == \E target \in 1..Knows[p] : Runs(p, FALSE, TRUE, target, "report")
DowngradeTo(p) == \E target \in 0..Knows[p] : Runs(p, FALSE, FALSE, target, "plan")

\* status(): a revision the release has never heard of; with one line of
\* history, "ahead" is never reported.
Unknown(p) == stamp > Knows[p]

StartDatabase(p) ==
    /\ work[p].at = "status"
    /\ Moves(p, CASE Unknown(p) -> "refused"
                  [] ~Unknown(p) /\ AutoMigrate /\ stamp < Knows[p] -> "report"
                  [] OTHER -> "up")
    /\ UNCHANGED <<stamp, objects, runs, torn>>

\* upgrade() asks for the status once more; no backup hook is registered.
Upgrade(p) ==
    /\ work[p].at = "report"
    /\ Moves(p, IF Unknown(p) THEN "refused" ELSE "plan")
    /\ UNCHANGED <<stamp, objects, runs, torn>>

-----------------------------------------------------------------------------
(***************************************************************************)
(* Alembic on this connection: the steps from the stamp to the goal.       *)
(***************************************************************************)
Over(p) == IF work[p].start THEN "up" ELSE "done"

\* The revision a process is changing, and where a revision begins.
Revision(w) == IF w.upward THEN w.base + 1 ELSE w.base
First(w) == IF w.upward THEN 1 ELSE Parts
Last(w) == IF w.upward THEN Parts ELSE 1

\* Alembic reads the stamp and works out the steps, or finds none to take.
Plan(p) ==
    LET w == [work[p] EXCEPT !.base = stamp]
    IN  /\ work[p].at = "plan"
        /\ work' = [work EXCEPT ![p] =
               [w EXCEPT !.part = First(w),
                         !.at = CASE Unknown(p) \/ (~w.upward /\ w.goal > stamp) -> "failed"
                                  [] ~Unknown(p) /\ (IF w.upward THEN w.goal <= stamp
                                                     ELSE w.goal = stamp) -> Over(p)
                                  [] OTHER -> "statement"]]
        /\ UNCHANGED <<stamp, objects, runs, torn>>

\* A process that has changed something of its revision and not stamped it.
Halfway(w) == w.at = "stamp" \/ (w.at = "statement" /\ w.part # First(w))
Leaves(p) == torn' = IF Halfway(work[p]) THEN torn \cup {Revision(work[p])} ELSE torn

\* The revisions give no IF [NOT] EXISTS: CREATE wants the object absent, DROP
\* wants it there.
Applies(w) == w.upward <=> <<Revision(w), w.part>> \notin objects

Statement(p) ==
    LET w == work[p]
        object == <<Revision(w), w.part>>
    IN  /\ w.at = "statement"
        /\ IF Applies(w)
           THEN /\ objects' = IF w.upward THEN objects \cup {object} ELSE objects \ {object}
                /\ work' = [work EXCEPT
                       ![p].at = IF w.part = Last(w) THEN "stamp" ELSE "statement",
                       ![p].part = IF w.part = Last(w) THEN w.part
                                   ELSE IF w.upward THEN w.part + 1 ELSE w.part - 1]
                /\ UNCHANGED torn
           ELSE Moves(p, "failed") /\ Leaves(p) /\ UNCHANGED objects
        /\ UNCHANGED <<stamp, runs>>

\* Mutant: the revision is stamped before its statements have run.
StampEarly(p) ==
    LET next == [work[p] EXCEPT !.base = IF work[p].upward THEN work[p].base + 1
                                         ELSE work[p].base - 1]
    IN  /\ work[p].at \in {"statement", "stamp"} /\ stamp = work[p].base
        /\ stamp' = next.base
        /\ work' = [work EXCEPT ![p] =
               [next EXCEPT !.part = First(next),
                            !.at = IF next.base = next.goal THEN Over(p) ELSE "statement"]]
        /\ UNCHANGED <<objects, runs, torn>>

\* The stamp takes the place of the one the plan began with, or the
\* migration fails.
Stamp(p) ==
    LET next == [work[p] EXCEPT !.base = IF work[p].upward THEN work[p].base + 1
                                         ELSE work[p].base - 1]
    IN  /\ work[p].at = "stamp"
        /\ IF stamp = work[p].base
           THEN /\ stamp' = next.base
                /\ work' = [work EXCEPT ![p] =
                       [next EXCEPT !.part = First(next),
                                    !.at = IF next.base = next.goal THEN Over(p)
                                           ELSE "statement"]]
                /\ UNCHANGED torn
           ELSE Moves(p, "failed") /\ Leaves(p) /\ UNCHANGED stamp
        /\ UNCHANGED <<objects, runs>>

\* A statement or the credential store fails, or the process is killed.
Breaks(p) ==
    /\ work[p].at \notin Rests
    /\ Moves(p, "failed") /\ Leaves(p)
    /\ UNCHANGED <<stamp, objects, runs>>

SchemaNext ==
    \E p \in Shells :
        \/ StartContainer(p) \/ MigrateTo(p) \/ DowngradeTo(p)
        \/ StartDatabase(p) \/ Upgrade(p)
        \/ Plan(p) \/ Statement(p) \/ Stamp(p)
        \/ Breaks(p)

SchemaSpec == SchemaInit /\ [][SchemaNext]_schemaVars

-----------------------------------------------------------------------------
(***************************************************************************)
(* Properties.                                                             *)
(***************************************************************************)
Whole(r) == \A i \in 1..Parts : <<r, i>> \in objects
Absent(r) == \A i \in 1..Parts : <<r, i>> \notin objects
Changing(r) == \E p \in Shells : work[p].at \in {"statement", "stamp"} /\ Revision(work[p]) = r

\* The revision a command finds stamped is what the database has: of a
\* revision nobody is changing, and no migration was broken off in, all of it
\* up to the stamp and nothing beyond, whatever releases migrate at once.
StampIsTrue ==
    \A r \in (1..Newest) \ torn :
        ~Changing(r) => IF r <= stamp THEN Whole(r) ELSE Absent(r)

(***************************************************************************)
(* What the repository says and the code does not do.                      *)
(***************************************************************************)

\* "Migrations run inside a transaction.  A failure rolls back completely."
\* (docs/DATABASE.md): when nobody is changing a revision, all of it is there
\* or nothing is.
FailureRollsBack ==
    \A r \in 1..Newest : ~Changing(r) => Whole(r) \/ Absent(r)
=============================================================================
