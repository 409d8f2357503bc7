------------------------------ MODULE Accounts ------------------------------
(***************************************************************************)
(* The accounts of an installation, which of them it operates, and the     *)
(* operator's preferences for each (application/use_cases/account.py,      *)
(* account_scope.py, user_profile.py and their repositories).              *)
(*                                                                         *)
(* Every command is a process.  What it reads before its first write, it   *)
(* reads outside any transaction; from there to the commit nobody else     *)
(* writes.  An account is known by its Telegram user.  Names, timezones    *)
(* and timestamps are left out, and so is renaming, which no command does. *)
(***************************************************************************)
EXTENDS Naturals, FiniteSets

CONSTANTS
    Terminals,      \* processes running commands
    Accounts,       \* Telegram users there may be accounts of
    Fields,         \* preferences
    Choices,        \* values of a preference
    Default,        \* what a preference is at first
    Unset,          \* no account, no profile
    MaxUses         \* bound: commands begun

ASSUME AccountsAssumption == Default \in Choices /\ Unset \notin Accounts
ASSUME ProfilesAssumption == Unset \notin [Fields -> Choices]
ASSUME MaxUsesAssumption == MaxUses \in Nat

VARIABLES
    accounts,       \* the accounts there are
    active,         \* those marked active
    profiles,       \* the preferences of each account, or Unset
    task,           \* what each process is doing
    uses,           \* commands begun
    latest,         \* accounting only: the last setting each preference was given
    crossed         \* accounting only: accounts of which a preference was set on a
                    \* reading that was out of date

accountVars == <<accounts, active, profiles, task, uses, latest, crossed>>
ghostVars == <<latest, crossed>>

Profiles == [Fields -> Choices]
Defaults == [f \in Fields |-> Default]

\* A change of preferences; what is Unset is left alone.
Changes == [Fields -> Choices \cup {Unset}]
NoChange == [f \in Fields |-> Unset]

Tasks ==
    [cmd : {"none", "create", "activate", "profile"}, on : Accounts \cup {Unset}, changes : Changes,
     at : {"done", "look", "insert", "switch", "find", "read", "add", "update"},
     first : BOOLEAN, row : Profiles \cup {Unset}]

Resting == [cmd |-> "none", on |-> Unset, changes |-> NoChange, at |-> "done",
            first |-> FALSE, row |-> Unset]

AccountsInit ==
    /\ accounts = {} /\ active = {}
    /\ profiles = [a \in Accounts |-> Unset]
    /\ task = [t \in Terminals |-> Resting]
    /\ uses = 0
    /\ latest = [a \in Accounts |-> Defaults] /\ crossed = {}

\* Every variable has its type.
AccountsTypeOK ==
    /\ accounts \subseteq Accounts /\ active \subseteq accounts
    /\ profiles \in [Accounts -> Profiles \cup {Unset}]
    /\ task \in [Terminals -> Tasks]
    /\ uses \in 0..MaxUses
    /\ latest \in [Accounts -> Profiles] /\ crossed \subseteq Accounts

-----------------------------------------------------------------------------
(***************************************************************************)
(* Commands begin.                                                         *)
(***************************************************************************)
Use(t, record) ==
    /\ task[t].at = "done"
    /\ uses < MaxUses /\ uses' = uses + 1
    /\ task' = [task EXCEPT ![t] = record]
    /\ UNCHANGED <<accounts, active, profiles, ghostVars>>

AccountCreate(t) ==
    \E a \in Accounts : Use(t, [Resting EXCEPT !.cmd = "create", !.on = a, !.at = "look"])

AccountActivate(t) ==
    \E a \in Accounts : Use(t, [Resting EXCEPT !.cmd = "activate", !.on = a, !.at = "look"])

\* For an account that is named, or else the active one.
ProfileShow(t) ==
    \E a \in Accounts \cup {Unset} :
        Use(t, [Resting EXCEPT !.cmd = "profile", !.on = a, !.at = "find"])

ProfileSet(t) ==
    \E a \in Accounts \cup {Unset}, changes \in Changes \ {NoChange} :
        Use(t, [Resting EXCEPT !.cmd = "profile", !.on = a, !.at = "find", !.changes = changes])

-----------------------------------------------------------------------------
(***************************************************************************)
(* CreateAccount, SetActiveAccount.                                        *)
(***************************************************************************)
Leave(t) == task' = [task EXCEPT ![t] = Resting]

LookForAccount(t) ==
    /\ task[t].at = "look"
    /\ LET exists == task[t].on \in accounts
       IN  CASE task[t].cmd = "create" /\ ~exists ->
                  task' = [task EXCEPT ![t].at = "insert", ![t].first = active = {}]
             [] task[t].cmd = "activate" /\ exists /\ task[t].on \notin active ->
                  task' = [task EXCEPT ![t].at = "switch"]
             [] OTHER -> Leave(t)
    /\ UNCHANGED <<accounts, active, profiles, uses, ghostVars>>

\* Mutant: without the partial unique index a second first account is active too.
ClashesById(a, isFirst) == a \in accounts

\* The unique indexes: one account to a Telegram user, one active account.
Clashes(a, isFirst) == a \in accounts \/ (isFirst /\ active # {})

InsertAccount(t) ==
    LET a == task[t].on
        clash == Clashes(a, task[t].first)
    IN  /\ task[t].at = "insert"
        /\ accounts' = IF clash THEN accounts ELSE accounts \cup {a}
        /\ active' = IF ~clash /\ task[t].first THEN active \cup {a} ELSE active
        /\ Leave(t)
        /\ UNCHANGED <<profiles, uses, ghostVars>>

\* Whatever is active is not any more, then this one is: one transaction.
SwitchAccount(t) ==
    /\ task[t].at = "switch"
    /\ active' = {task[t].on}
    /\ Leave(t)
    /\ UNCHANGED <<accounts, profiles, uses, ghostVars>>

-----------------------------------------------------------------------------
(***************************************************************************)
(* GetUserProfile, UpdateUserProfile.                                      *)
(***************************************************************************)
\* resolve_account: the accounts a command may work on, one or none.
Resolved(named) == IF named = Unset THEN active ELSE {named} \cap accounts

Requested(t) == task[t].changes # NoChange
Changed(row, changes) == [f \in Fields |-> IF changes[f] = Unset THEN row[f] ELSE changes[f]]

\* With its profile in hand a command is over, or writes what it changes of it.
Proceed(t, a, row) ==
    IF ~Requested(t) \/ Changed(row, task[t].changes) = row THEN Leave(t)
    ELSE task' = [task EXCEPT ![t].on = a, ![t].row = row, ![t].at = "update"]

Resolve(t) ==
    /\ task[t].at = "find"
    /\ \/ Resolved(task[t].on) = {} /\ Leave(t)
       \/ \E a \in Resolved(task[t].on) :
             task' = [task EXCEPT ![t].on = a, ![t].at = "read"]
    /\ UNCHANGED <<accounts, active, profiles, uses, ghostVars>>

ReadProfile(t) ==
    LET a == task[t].on
    IN  /\ task[t].at = "read"
        /\ IF profiles[a] = Unset THEN task' = [task EXCEPT ![t].at = "add"]
           ELSE Proceed(t, a, profiles[a])
        /\ UNCHANGED <<accounts, active, profiles, uses, ghostVars>>

\* Mutant: the profile of a first access replaces what is there.
AddOver(t) ==
    /\ task[t].at = "add"
    /\ profiles' = [profiles EXCEPT ![task[t].on] = Defaults]
    /\ Proceed(t, task[t].on, Defaults)
    /\ UNCHANGED <<accounts, active, uses, ghostVars>>

\* The account is the key of its profile: a second first access is refused.
AddProfile(t) ==
    /\ task[t].at = "add"
    /\ IF profiles[task[t].on] # Unset
       THEN Leave(t) /\ UNCHANGED profiles
       ELSE /\ profiles' = [profiles EXCEPT ![task[t].on] = Defaults]
            /\ Proceed(t, task[t].on, Defaults)
    /\ UNCHANGED <<accounts, active, uses, ghostVars>>

\* The row is written whole, as it was read but for the changes.
UpdateProfile(t) ==
    LET a == task[t].on
        changes == task[t].changes
    IN  /\ task[t].at = "update"
        /\ profiles' = [profiles EXCEPT ![a] = Changed(task[t].row, changes)]
        /\ latest' = [latest EXCEPT ![a] = Changed(latest[a], changes)]
        /\ crossed' = IF profiles[a] = task[t].row THEN crossed ELSE crossed \cup {a}
        /\ Leave(t)
        /\ UNCHANGED <<accounts, active, uses>>

\* A process dies, or finds the database locked for too long.
Quit(t) ==
    /\ task[t].at # "done" /\ Leave(t)
    /\ UNCHANGED <<accounts, active, profiles, uses, ghostVars>>

AccountsNext ==
    \E t \in Terminals :
        \/ AccountCreate(t) \/ AccountActivate(t) \/ ProfileShow(t) \/ ProfileSet(t)
        \/ LookForAccount(t) \/ InsertAccount(t) \/ SwitchAccount(t)
        \/ Resolve(t) \/ ReadProfile(t) \/ AddProfile(t) \/ UpdateProfile(t)
        \/ Quit(t)

AccountsSpec == AccountsInit /\ [][AccountsNext]_accountVars

-----------------------------------------------------------------------------
(***************************************************************************)
(* Properties.                                                             *)
(***************************************************************************)
\* As soon as there is an account exactly one is operated, however creations
\* and switches that looked at the same time come to write: no command leaves
\* the installation with none or with two.
OneIsOperated == accounts # {} => \E a \in accounts : active = {a}

\* A profile is made once and forgets nothing: each preference is as it was
\* last set, or at its default, unless somebody set one on a reading that was
\* out of date.
PreferencesStay ==
    \A a \in Accounts : profiles[a] # Unset => profiles[a] = latest[a] \/ a \in crossed
=============================================================================
