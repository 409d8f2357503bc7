------------------------------ MODULE Sessions ------------------------------
(***************************************************************************)
(* One account's Telegram session: the record in the database, the key in  *)
(* the credential store and TDLib's encrypted store on disk, as the        *)
(* commands use and change them (application/use_cases/session.py and      *)
(* authenticate.py, Container.telegram_for, the login, logout and sync     *)
(* commands of presentation/cli/app.py).                                   *)
(*                                                                         *)
(* Commands run as processes of their own, take turns anywhere, may fail   *)
(* in any call they make outside and may be killed between any two steps.  *)
(* What they share is the three stores; TDLib lets one client at a time    *)
(* open its directory.  A key is the number of its generation.             *)
(*                                                                         *)
(* The application id and hash, the loading of the library and the         *)
(* connection state are left out.                                          *)
(***************************************************************************)
EXTENDS Naturals

CONSTANTS
    Procs,          \* processes running commands
    Owner,          \* the Telegram user the account records
    Others,         \* other people who may sign in at the prompt
    Nobody,         \* no one is signed in
    None,           \* there is no record, or no store
    Commands,       \* the commands a user has
    MaxCommands     \* bound: commands started

ASSUME PeopleAssumption == Owner \notin Others /\ Nobody \notin Others \cup {Owner}
ASSUME CommandsAssumption == Commands \subseteq {"prepare", "login", "logout", "import"}
ASSUME MaxCommandsAssumption == MaxCommands \in Nat

VARIABLES
    record,         \* the session row's authorization state, or None
    key,            \* the key in the credential store, 0 for none
    issued,         \* how many keys were generated
    store,          \* TDLib's directory: its key and who is signed in, or None
    holder,         \* the processes whose TDLib client has the directory open
    job,            \* what each process is doing
    started,        \* commands started
    dropped,        \* a logout has deleted the key
    overlapped,     \* two commands prepared the session at once
    raced           \* somebody signed in while a logout was clearing up

vars == <<record, key, issued, store, holder, job, started,
          dropped, overlapped, raced>>
ghosts == <<dropped, overlapped, raced>>

People == Others \cup {Owner}
States == {"unauthorized", "ready", "logged_out"}
ASSUME NoneAssumption == None \notin States \cup [key : Nat, who : People \cup {Nobody}]

Keys == 1..MaxCommands
Stores == [key : Keys, who : People \cup {Nobody}]

\* Where a command is, and how one ends: "unprepared" and "keyless" are the
\* ends for want of a record or of its key.
Ends == {"done", "unprepared", "keyless", "refused", "failed"}
Steps == {"settings", "key", "look", "set", "add", "connect", "authorize", "identify",
          "view", "write", "read", "tell", "mark", "destroy", "forget", "fetch"}
Jobs == [cmd : Commands \cup {None}, at : Steps \cup Ends,
         key : 0..MaxCommands, saw : States \cup {None}]
Job(c, step) == [cmd |-> c, at |-> step, key |-> 0, saw |-> None]

Init ==
    /\ record = None /\ key = 0 /\ issued = 0 /\ store = None
    /\ holder = {} /\ job = [p \in Procs |-> Job(None, "done")] /\ started = 0
    /\ dropped = FALSE /\ overlapped = FALSE /\ raced = FALSE

\* Every variable has its type, and one client at most has the directory.
TypeOK ==
    /\ record \in States \cup {None}
    /\ key \in 0..MaxCommands /\ issued \in 0..MaxCommands
    /\ store \in Stores \cup {None}
    /\ holder \in {{}} \cup {{p} : p \in Procs}
    /\ job \in [Procs -> Jobs]
    /\ started \in 0..MaxCommands
    /\ dropped \in BOOLEAN /\ overlapped \in BOOLEAN /\ raced \in BOOLEAN

-----------------------------------------------------------------------------
At(p, step) == job[p].at = step
Goes(p, step) == job' = [job EXCEPT ![p].at = step]

\* The end of a command closes its gateway, if it has one.
Finish(p, end) ==
    /\ job' = [job EXCEPT ![p] = Job(job[p].cmd, end)]
    /\ holder' = holder \ {p}

SignedIn == IF store = None THEN Nobody ELSE store.who

Start(p, c) ==
    /\ started < MaxCommands /\ started' = started + 1
    /\ job[p].at \in Ends
    /\ job' = [job EXCEPT ![p] = Job(c, IF c = "prepare" THEN "look" ELSE "settings")]
    /\ UNCHANGED <<record, key, issued, store, holder, ghosts>>

Settings(p) ==
    /\ At(p, "settings")
    /\ IF record = None THEN Finish(p, "unprepared") ELSE Goes(p, "key") /\ UNCHANGED holder
    /\ UNCHANGED <<record, key, issued, store, started, ghosts>>

ReadKey(p) ==
    /\ At(p, "key")
    /\ IF key = 0
       THEN Finish(p, "keyless")
       ELSE holder' = holder /\ job' = [job EXCEPT ![p].key = key,
                               ![p].at = IF job[p].cmd = "login" THEN "look" ELSE "connect"]
    /\ UNCHANGED <<record, key, issued, store, started, ghosts>>

-----------------------------------------------------------------------------
(***************************************************************************)
(* PrepareSession.execute, by itself or as the first step of a login.      *)
(***************************************************************************)
\* Mutant: a key is made every time.
LookAgain(p) ==
    /\ At(p, "look") /\ Goes(p, "set")
    /\ UNCHANGED <<record, key, issued, store, holder, started, ghosts>>

Look(p) ==
    /\ At(p, "look")
    /\ Goes(p, IF record = None THEN "set"
               ELSE IF job[p].cmd = "login" THEN "connect" ELSE "done")
    /\ overlapped' = (overlapped \/ \E q \in Procs : job[q].at \in {"set", "add"})
    /\ UNCHANGED <<record, key, issued, store, holder, started, dropped, raced>>

SetKey(p) ==
    /\ At(p, "set")
    /\ issued' = issued + 1 /\ key' = issued'
    /\ Goes(p, "add")
    /\ UNCHANGED <<record, store, holder, started, ghosts>>

\* A second record for the account is a conflict, and the command fails.
AddRecord(p) ==
    /\ At(p, "add")
    /\ record' = IF record = None THEN "unauthorized" ELSE record
    /\ Goes(p, IF record # None THEN "failed"
               ELSE IF job[p].cmd = "login" THEN "connect" ELSE "done")
    /\ UNCHANGED <<key, issued, store, holder, started, ghosts>>

-----------------------------------------------------------------------------
(***************************************************************************)
(* TdlibGateway.connect.  TDLib creates a store that is absent, opens one  *)
(* with its own key, and refuses another key or a directory in use.        *)
(***************************************************************************)
Opens(p) == holder = {} /\ (store = None \/ store.key = job[p].key)

Connect(p) ==
    /\ At(p, "connect")
    /\ IF Opens(p)
       THEN /\ holder' = {p}
            /\ store' = IF store = None THEN [key |-> job[p].key, who |-> Nobody] ELSE store
            /\ Goes(p, CASE job[p].cmd = "login" -> "authorize"
                         [] job[p].cmd = "logout" -> "read"
                         [] OTHER -> "fetch")
       ELSE Finish(p, "failed") /\ UNCHANGED store
    /\ UNCHANGED <<record, key, issued, started, ghosts>>

-----------------------------------------------------------------------------
(***************************************************************************)
(* AuthenticateAccount.execute, once connected.                            *)
(***************************************************************************)
\* start_authorization asks for credentials unless TDLib is signed in already.
\* A client whose directory another command deletes is taken to fail.
Authorize(p) ==
    /\ At(p, "authorize")
    /\ IF store = None
       THEN Finish(p, "failed") /\ UNCHANGED store
       ELSE /\ \E who \in People :
                  store' = [store EXCEPT !.who = IF @ = Nobody THEN who ELSE @]
            /\ Goes(p, "identify") /\ UNCHANGED holder
    /\ raced' = (raced \/ \E q \in Procs : job[q].at \in {"mark", "destroy", "forget"})
    /\ UNCHANGED <<record, key, issued, started, dropped, overlapped>>

\* Mutant: whoever signed in is taken for the account's person.
IdentifyAnyone(p) ==
    /\ At(p, "identify") /\ Goes(p, "view")
    /\ UNCHANGED <<record, key, issued, store, holder, started, ghosts>>

\* get_me and _require_same_person; the account is never another person's.
Identify(p) ==
    /\ At(p, "identify")
    /\ CASE SignedIn = Nobody -> Finish(p, "failed")
         [] SignedIn \in Others -> Finish(p, "refused")
         [] SignedIn = Owner -> Goes(p, "view") /\ UNCHANGED holder
    /\ UNCHANGED <<record, key, issued, store, started, ghosts>>

\* _record reads what the gateway sees, and then replaces the record.
View(p) ==
    /\ At(p, "view")
    /\ job' = [job EXCEPT ![p].at = "write",
                          ![p].saw = IF SignedIn = Nobody THEN "logged_out" ELSE "ready"]
    /\ UNCHANGED <<record, key, issued, store, holder, started, ghosts>>

WriteRecord(p) ==
    /\ At(p, "write")
    /\ record # None /\ record' = job[p].saw
    /\ Finish(p, "done")
    /\ UNCHANGED <<key, issued, store, started, ghosts>>

-----------------------------------------------------------------------------
(***************************************************************************)
(* LogOutAccount.execute, once connected.                                  *)
(***************************************************************************)
\* Mutant: Telegram is not told.
ReadAndMark(p) ==
    /\ At(p, "read") /\ Finish(p, "mark")
    /\ UNCHANGED <<record, key, issued, store, started, ghosts>>

ReadRecord(p) ==
    /\ At(p, "read")
    /\ IF record = None THEN Finish(p, "done") ELSE Goes(p, "tell") /\ UNCHANGED holder
    /\ UNCHANGED <<record, key, issued, store, started, ghosts>>

\* Telegram ends the login, and TDLib lets go of the directory.
Tell(p) ==
    /\ At(p, "tell")
    /\ store' = IF store = None THEN None ELSE [store EXCEPT !.who = Nobody]
    /\ Finish(p, "mark")
    /\ UNCHANGED <<record, key, issued, started, ghosts>>

Mark(p) ==
    /\ At(p, "mark")
    /\ record' = "logged_out"
    /\ Goes(p, "destroy")
    /\ UNCHANGED <<key, issued, store, holder, started, ghosts>>

\* rmtree ignores its errors.
Destroy(p) ==
    /\ At(p, "destroy")
    /\ store' \in {store, None}
    /\ Goes(p, "forget")
    /\ UNCHANGED <<record, key, issued, holder, started, ghosts>>

\* KeyringSecretStore.delete ignores a backend that refuses.
Forget(p) ==
    /\ At(p, "forget")
    /\ \/ key' = 0 /\ dropped' = TRUE
       \/ UNCHANGED <<key, dropped>>
    /\ Goes(p, "done")
    /\ UNCHANGED <<record, issued, store, holder, started, overlapped, raced>>

-----------------------------------------------------------------------------
\* A command that reads from Telegram ends; what it reads, and that it reads
\* it from whoever is signed in, is left out.
Import(p) ==
    /\ At(p, "fetch")
    /\ Finish(p, IF SignedIn = Nobody THEN "failed" ELSE "done")
    /\ UNCHANGED <<record, key, issued, store, started, ghosts>>

-----------------------------------------------------------------------------
\* A call outside fails, or the process is killed: what it wrote stays.
Fail(p) ==
    /\ job[p].at \notin Ends
    /\ Finish(p, "failed")
    /\ UNCHANGED <<record, key, issued, store, started, ghosts>>

\* The login is ended from another device.
Revoke ==
    /\ SignedIn # Nobody
    /\ store' = [store EXCEPT !.who = Nobody]
    /\ UNCHANGED <<record, key, issued, holder, job, started, ghosts>>

Step(p) ==
    \/ Settings(p) \/ ReadKey(p)
    \/ Look(p) \/ SetKey(p) \/ AddRecord(p)
    \/ Connect(p)
    \/ Authorize(p) \/ Identify(p) \/ View(p) \/ WriteRecord(p)
    \/ ReadRecord(p) \/ Tell(p) \/ Mark(p) \/ Destroy(p) \/ Forget(p)
    \/ Import(p)

Next ==
    \/ \E p \in Procs : Step(p) \/ Fail(p) \/ \E c \in Commands : Start(p, c)
    \/ Revoke

Spec == Init /\ [][Next]_vars

-----------------------------------------------------------------------------
(***************************************************************************)
(* Properties.                                                             *)
(***************************************************************************)
\* PrepareSession writes the key before the record and never a second key: a
\* record has its key in the credential store until a logout has deleted it,
\* and the key opens the store on disk, unless a preparation that looked before
\* another one had finished wrote its key after that one's record.
KeysAreKept ==
    /\ record # None => key # 0 \/ dropped
    /\ store # None /\ key # 0 => store.key = key \/ overlapped

\* _require_same_person: the record becomes ready only over a store nobody
\* but the account's own person is signed in to.
ReadyIsTheOwners ==
    [][record' # record /\ record' = "ready" => SignedIn \in {Owner, Nobody}]_vars

\* LogOutAccount destroys the store and its key only when Telegram has ended
\* the login in it, so that a failure part-way leaves nothing usable, unless
\* somebody signs in again between Telegram's answer and the clearing up.
DestroyedIsOver ==
    [][(store # None /\ store' = None) \/ (key # 0 /\ key' = 0)
          => SignedIn = Nobody \/ raced]_vars
=============================================================================
