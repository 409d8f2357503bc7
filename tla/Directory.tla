----------------------------- MODULE Directory -----------------------------
(***************************************************************************)
(* Whom an account knows and where they talk: the contacts and chats of    *)
(* one account, as imports from Telegram (application/use_cases/sync.py)   *)
(* and the operator's commands (contact.py, chat.py) change them.          *)
(*                                                                         *)
(* Every command is a process.  It reads rows in a transaction that does   *)
(* not begin before its first write, and writes the row it has read whole: *)
(* between the two other processes run.  From the first write to the       *)
(* commit nobody else writes.  An import takes one item at a time, in a    *)
(* transaction of its own; it has read Telegram before.                    *)
(*                                                                         *)
(* A private chat has the identifier of the person it is with, as Telegram *)
(* has it, but the operator may record one under any identifier.  Handles  *)
(* behave like names, the AI processing mode like the synchronisation      *)
(* switch, and are left out, as are titles Telegram leaves blank.          *)
(***************************************************************************)
EXTENDS Naturals, FiniteSets

CONSTANTS
    Procs,          \* processes running commands
    People,         \* the people of the address book
    Me,             \* the account's own operator
    Groups,         \* Telegram's groups
    Labels,         \* names and titles
    SyncKinds,      \* kinds of chat synchronised when first seen
    None,           \* no row, nobody, no title
    MaxEvents       \* bound: operator commands, renames and crashes

Kinds == {"private", "group", "saved"}
Ids == People \cup Groups \cup {Me}

ASSUME IdsAssumption ==
    /\ Me \notin People \cup Groups /\ People \cap Groups = {}
    /\ None \notin Ids \cup Labels
ASSUME SyncKindsAssumption == SyncKinds \subseteq Kinds
ASSUME MaxEventsAssumption == MaxEvents \in Nat

VARIABLES
    label,          \* Telegram: what everybody and every group is called
    contacts,       \* the contact rows by Telegram user, or None
    chats,          \* the chat rows by Telegram chat, or None
    job,            \* what each process is doing
    events          \* bounded events so far

vars == <<label, contacts, chats, job, events>>

Contact(name, status) == [name |-> name, status |-> status]
Contacts == [name : Labels, status : {"active", "archived", "deleted"}]
Chat(kind, with, title, sync) == [kind |-> kind, with |-> with, title |-> title, sync |-> sync]
Chats == [kind : Kinds, with : People \cup {None}, title : Labels \cup {None}, sync : BOOLEAN]

ASSUME RowsAssumption == None \notin Contacts \cup Chats

Imports == {"import contact", "import chat"}
Transitions == {"archive", "restore", "delete"}
Commands == Imports \cup Transitions \cup {"add", "open private", "open group", "set policy"}

Idle == [cmd |-> "none", id |-> None, arg |-> None, at |-> "done",
         person |-> None, chat |-> None]

Init ==
    /\ label \in [Ids -> Labels]
    /\ contacts = [who \in People \cup {Me} |-> None]
    /\ chats = [id \in Ids |-> None]
    /\ job = [p \in Procs |-> Idle]
    /\ events = 0

\* Every variable has its type.
TypeOK ==
    /\ label \in [Ids -> Labels]
    /\ contacts \in [People \cup {Me} -> Contacts \cup {None}]
    /\ chats \in [Ids -> Chats \cup {None}]
    /\ job \in [Procs ->
           [cmd : Commands \cup {"none"}, id : Ids \cup {None},
            arg : Labels \cup People \cup BOOLEAN \cup {None},
            at : {"read person", "write person", "read chat", "write chat", "done"},
            person : Contacts \cup {None}, chat : Chats \cup {None}]]
    /\ events \in 0..MaxEvents

-----------------------------------------------------------------------------
(***************************************************************************)
(* What an import makes of a row.                                          *)
(***************************************************************************)
\* Mutant: somebody the operator deleted comes back with a new name.
RevivedPerson(row, name) ==
    Contact(name, IF row = None \/ row.status = "deleted" THEN "active" ELSE row.status)

\* _upsert_contact: nothing Telegram says brings a deleted person back.
ImportedPerson(row, name) ==
    CASE row = None -> Contact(name, "active")
      [] row # None /\ row.status = "deleted" -> row
      [] OTHER -> [row EXCEPT !.name = name]

Kind(id) == CASE id \in People -> "private" [] id = Me -> "saved" [] OTHER -> "group"

\* _build: whether a chat is synchronised is decided here and only here.
Built(id, title) ==
    Chat(Kind(id), IF id \in People THEN id ELSE None,
         IF id \in People THEN None ELSE title, Kind(id) \in SyncKinds)

\* Mutant: a chat that is stored is left alone.
KeptChat(row, id, title) == IF row = None THEN Built(id, title) ELSE row

\* _upsert_chat: a row of another kind is left alone, and of a private chat
\* Telegram owns nothing.
ImportedChat(row, id, title) ==
    CASE row = None -> Built(id, title)
      [] row # None /\ (row.kind # Kind(id) \/ row.kind = "private") -> row
      [] OTHER -> [row EXCEPT !.title = title]

\* Mutant: nothing keeps a contact from having two chats.
ConflictsById(id, row) == chats[id] # None

\* The unique indexes: one row to a Telegram chat, one private chat to a contact.
Conflicts(id, row) ==
    \/ chats[id] # None
    \/ row.with # None /\ \E c \in Ids : chats[c] # None /\ chats[c].with = row.with

-----------------------------------------------------------------------------
(***************************************************************************)
(* Commands begin, read and write.                                         *)
(***************************************************************************)
Begin(p, cmd, id, arg, step) ==
    /\ job[p].at = "done"
    /\ job' = [job EXCEPT ![p] = [Idle EXCEPT !.cmd = cmd, !.id = id, !.arg = arg, !.at = step]]

Event == events < MaxEvents /\ events' = events + 1

\* An import has what Telegram said when it asked.
BeginImport(p, cmd, id) ==
    /\ cmd = "import contact" => id \in People \cup {Me}
    /\ Begin(p, cmd, id, label[id],
             IF cmd = "import contact" \/ id \in People THEN "read person" ELSE "read chat")
    /\ UNCHANGED <<label, contacts, chats, events>>

BeginCommand(p) ==
    /\ \/ \E who \in People \cup {Me}, name \in Labels : Begin(p, "add", who, name, "read person")
       \/ \E who \in People, cmd \in Transitions : Begin(p, cmd, who, None, "read person")
       \/ \E id \in Ids, who \in People : Begin(p, "open private", id, who, "read person")
       \/ \E id \in Ids, title \in Labels : Begin(p, "open group", id, title, "read chat")
       \/ \E id \in Ids, sync \in BOOLEAN : Begin(p, "set policy", id, sync, "read chat")
    /\ Event
    /\ UNCHANGED <<label, contacts, chats>>

Finish(p) == job' = [job EXCEPT ![p] = Idle]

\* ContactChange and the entity's rules: what a transition makes of a row.
Changed(row, cmd) ==
    IF row = None \/ (cmd = "archive" /\ row.status = "deleted") THEN row
    ELSE [row EXCEPT !.status = CASE cmd = "archive" -> "archived"
                                  [] cmd = "restore" -> "active"
                                  [] cmd = "delete" -> "deleted"]

\* The person a command is about; the operator is nobody's contact.
Subject(p) == IF job[p].cmd = "open private" THEN job[p].arg ELSE job[p].id
IsOperator(who) == who = Me

\* The row a command would write, given the row it has read.
NewPerson(p, row) ==
    IF IsOperator(Subject(p)) THEN row
    ELSE CASE job[p].cmd \in Imports -> ImportedPerson(row, job[p].arg)
           [] job[p].cmd = "add" -> IF row = None THEN Contact(job[p].arg, "active") ELSE row
           [] job[p].cmd \in Transitions -> Changed(row, job[p].cmd)
           [] OTHER -> row

\* Whether a command that leaves the person alone goes on to a chat.
GoesOn(p, row) ==
    /\ job[p].cmd \in {"import chat", "open private"}
    /\ row # None /\ row.status # "deleted"

ReadPerson(p) ==
    LET row == contacts[Subject(p)]
    IN  /\ job[p].at = "read person"
        /\ IF NewPerson(p, row) # row
           THEN job' = [job EXCEPT ![p].at = "write person", ![p].person = row]
           ELSE IF GoesOn(p, row) THEN job' = [job EXCEPT ![p].at = "read chat"]
           ELSE Finish(p)
        /\ UNCHANGED <<label, contacts, chats, events>>

NewChat(p, row) ==
    CASE job[p].cmd = "import chat" -> ImportedChat(row, job[p].id, job[p].arg)
      [] job[p].cmd = "open private" ->
             IF row = None THEN Chat("private", job[p].arg, None, TRUE) ELSE row
      [] job[p].cmd = "open group" ->
             IF row = None THEN Chat("group", None, job[p].arg, TRUE) ELSE row
      [] OTHER -> IF row = None THEN row ELSE [row EXCEPT !.sync = job[p].arg]

ReadChat(p) ==
    LET row == chats[job[p].id]
        open == job[p].cmd = "open private"
                  /\ \E c \in Ids : chats[c] # None /\ chats[c].with = job[p].arg
    IN  /\ job[p].at = "read chat"
        /\ IF NewChat(p, row) = row \/ open THEN Finish(p)
           ELSE job' = [job EXCEPT ![p].at = "write chat", ![p].chat = row]
        /\ UNCHANGED <<label, contacts, chats, events>>

\* A write of a row: an insertion that breaks an index undoes the transaction.
WriteChat(p) ==
    LET row == NewChat(p, job[p].chat)
    IN  /\ job[p].at = "write chat"
        /\ chats' = IF job[p].chat = None /\ Conflicts(job[p].id, row) THEN chats
                    ELSE [chats EXCEPT ![job[p].id] = row]
        /\ Finish(p)
        /\ UNCHANGED <<label, contacts, events>>

\* The chat of an import's item is inserted in vain.
UndoesPerson(p, row) ==
    /\ job[p].cmd = "import chat"
    /\ chats[job[p].id] = None /\ Conflicts(job[p].id, row)

\* From here to the commit an import of a chat is alone.
WritePerson(p) ==
    LET who == Subject(p)
        id == job[p].id
        row == IF job[p].cmd = "import chat" THEN NewChat(p, chats[id]) ELSE chats[id]
        undone == \/ job[p].person = None /\ contacts[who] # None
                  \/ UndoesPerson(p, row)
    IN  /\ job[p].at = "write person"
        /\ contacts' = IF undone THEN contacts
                       ELSE [contacts EXCEPT ![who] = NewPerson(p, job[p].person)]
        /\ chats' = IF undone \/ (chats[id] = None /\ row # None /\ Conflicts(id, row)) THEN chats
                    ELSE [chats EXCEPT ![id] = row]
        /\ Finish(p)
        /\ UNCHANGED <<label, events>>

-----------------------------------------------------------------------------
\* Somebody is renamed; a process dies where it is.
Rename(id, l) ==
    /\ label[id] # l /\ label' = [label EXCEPT ![id] = l]
    /\ Event
    /\ UNCHANGED <<contacts, chats, job>>

Crash(p) ==
    /\ job[p].at # "done" /\ Finish(p)
    /\ Event
    /\ UNCHANGED <<label, contacts, chats>>

Step(p) == ReadPerson(p) \/ WritePerson(p) \/ ReadChat(p) \/ WriteChat(p)
Imported(cmd, id) == \E p \in Procs : BeginImport(p, cmd, id)

Next ==
    \/ \E p \in Procs : Step(p) \/ BeginCommand(p) \/ Crash(p)
    \/ \E cmd \in Imports, id \in Ids : Imported(cmd, id)
    \/ \E id \in Ids, l \in Labels : Rename(id, l)

\* The operator goes on importing everything, and a command that is not
\* killed comes to its end.
Fairness ==
    /\ \A p \in Procs : WF_vars(Step(p))
    /\ \A cmd \in Imports, id \in Ids : SF_vars(Imported(cmd, id))

Spec == Init /\ [][Next]_vars
FairSpec == Spec /\ Fairness

-----------------------------------------------------------------------------
(***************************************************************************)
(* Properties.                                                             *)
(***************************************************************************)
\* The operator is nobody's contact, a private chat is with a contact, no
\* contact has two of them, and only the other chats have a title.
WellFormed ==
    /\ contacts[Me] = None
    /\ \A id \in Ids : chats[id] # None =>
          LET chat == chats[id]
          IN  /\ chat.kind = "private" <=> chat.with # None
              /\ chat.kind = "private" <=> chat.title = None
              /\ chat.with # None =>
                    /\ contacts[chat.with] # None
                    /\ \A c \in Ids : chats[c] # None /\ chats[c].with = chat.with => c = id

\* A person's status and a chat's switch are the operator's: an import never
\* changes either, except that it puts back the row it read when somebody
\* has changed that row since.
PutsBack(p) ==
    \/ job[p].at = "write person" /\ job[p].person # contacts[job[p].id]
    \/ job[p].at = "write chat" /\ job[p].chat # chats[job[p].id]

OperatorDecides ==
    [][\A p \in Procs : job[p].cmd \in Imports /\ job'[p] # job[p] /\ ~PutsBack(p) =>
          /\ \A who \in People : contacts[who] # None =>
                contacts'[who].status = contacts[who].status
          /\ \A id \in Ids : chats[id] # None => chats'[id].sync = chats[id].sync]_vars

\* When names stop changing, importing again and again makes the stored ones
\* agree, short of the rows an import leaves alone.
Settled ==
    /\ \A who \in People :
          /\ contacts[who] # None
          /\ contacts[who].status = "deleted" \/ contacts[who].name = label[who]
    /\ \A id \in Ids \ People :
          /\ chats[id] # None
          /\ chats[id].kind # Kind(id) \/ chats[id].title = label[id]

NamesSettle == <>[]Settled
=============================================================================
