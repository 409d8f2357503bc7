--------------------------- MODULE DirectoryProofs ---------------------------
(***************************************************************************)
(* Theorems of Directory, for any processes, people, groups and labels.    *)
(***************************************************************************)
EXTENDS Directory, TLAPS

Steps == {"read person", "write person", "read chat", "write chat"}

\* What the arguments of a command are, and the steps it may be at.
Ordered(p) ==
    LET j == job[p]
    IN  /\ j.at \in Steps => j.id \in Ids
        /\ j.at \in Steps => j.cmd \in Commands
        /\ j.at \in Steps /\ j.cmd \in {"import chat", "open group", "import contact", "add"} =>
              j.arg \in Labels
        /\ j.at \in Steps /\ j.cmd = "open private" => j.arg \in People
        /\ j.at \in Steps /\ j.cmd = "set policy" => j.arg \in BOOLEAN
        /\ j.at \in {"read person", "write person"} =>
              /\ Subject(p) \in People \cup {Me}
              /\ j.cmd \notin {"open group", "set policy"}
        /\ j.at \in {"read person", "write person"} /\ j.cmd = "import chat" => j.id \in People
        /\ j.at \in {"read chat", "write chat"} =>
              j.cmd \in {"import chat", "open private", "open group", "set policy"}

\* A row that was read is there still, under other names, another status or
\* another switch: rows are never removed, and a chat stays what it is.
Alike(a, b) == /\ a.kind = b.kind /\ a.with = b.with
               /\ a.title = None <=> b.title = None

Remembered(p) ==
    LET j == job[p]
    IN  /\ j.at = "write person" =>
              /\ Subject(p) # Me
              /\ j.cmd # "open private"
              /\ NewPerson(p, j.person) # None
              /\ j.person # None => contacts[Subject(p)] # None
        /\ j.at = "write chat" =>
              /\ NewChat(p, j.chat) # j.chat
              /\ j.chat # None => chats[j.id] # None /\ Alike(j.chat, chats[j.id])
        /\ j.at \in {"read chat", "write chat"} /\ j.cmd = "import chat" /\ j.id \in People =>
              contacts[j.id] # None
        /\ j.at \in {"read chat", "write chat"} /\ j.cmd = "open private" =>
              contacts[j.arg] # None

DirectoryInv ==
    /\ TypeOK /\ WellFormed
    /\ \A p \in Procs : Ordered(p) /\ Remembered(p)

-----------------------------------------------------------------------------
(***************************************************************************)
(* What a command makes of a row.                                          *)
(***************************************************************************)
JobType ==
    [cmd : Commands \cup {"none"}, id : Ids \cup {None},
     arg : Labels \cup People \cup BOOLEAN \cup {None},
     at : Steps \cup {"done"},
     person : Contacts \cup {None}, chat : Chats \cup {None}]

LEMMA Jobs ==
    ASSUME TypeOK
    PROVE  /\ job \in [Procs -> JobType]
           /\ contacts \in [People \cup {Me} -> Contacts \cup {None}]
           /\ chats \in [Ids -> Chats \cup {None}]
           /\ label \in [Ids -> Labels]
<1>1. Steps \cup {"done"} = {"read person", "write person", "read chat", "write chat", "done"}
  BY DEF Steps
<1> QED BY <1>1 DEF TypeOK, JobType

LEMMA NoneIsNothing ==
    /\ None \notin Contacts /\ None \notin Chats /\ None \notin Labels /\ None \notin People
    /\ None # Me /\ None \notin Ids /\ Me \notin People
BY RowsAssumption, IdsAssumption DEF Ids

LEMMA NewContact ==
    ASSUME NEW name \in Labels
    PROVE  Contact(name, "active") \in Contacts
BY DEF Contact, Contacts

LEMMA ChatFields ==
    ASSUME NEW kind, NEW with, NEW title, NEW sync
    PROVE  /\ Chat(kind, with, title, sync).kind = kind
           /\ Chat(kind, with, title, sync).with = with
           /\ Chat(kind, with, title, sync).title = title
           /\ Chat(kind, with, title, sync).sync = sync
           /\ kind \in Kinds /\ with \in People \cup {None} /\ title \in Labels \cup {None}
              /\ sync \in BOOLEAN => Chat(kind, with, title, sync) \in Chats
BY DEF Chat, Chats

LEMMA BuiltIsChat ==
    ASSUME NEW kind \in Kinds, NEW with \in People \cup {None}, NEW title \in Labels \cup {None},
           NEW k
    PROVE  Chat(kind, with, title, k \in SyncKinds) \in Chats
BY DEF Chat, Chats

\* The row of a person a command writes: an import and an addition create one,
\* and nothing removes one.
LEMMA PersonIs ==
    ASSUME TypeOK, NEW p \in Procs, Ordered(p), job[p].at \in {"read person", "write person"},
           NEW row \in Contacts \cup {None}
    PROVE  /\ NewPerson(p, row) \in Contacts \cup {None}
           /\ row # None => NewPerson(p, row) # None
           /\ NewPerson(p, row) # row => Subject(p) # Me /\ job[p].cmd # "open private"
<1> DEFINE j == job[p]
<1>1. j \in JobType /\ j.cmd \in Commands
  BY Jobs DEF Ordered, Steps
<1>2. j.cmd \in Imports \cup {"add"} => j.arg \in Labels
  BY DEF Ordered, Imports, Steps
<1>3. CASE IsOperator(Subject(p))
  BY <1>3 DEF NewPerson
<1>4. CASE ~IsOperator(Subject(p))
  <2>0. Subject(p) # Me
    BY <1>4 DEF IsOperator
  <2>1. CASE j.cmd \in Imports
    <3>1. NewPerson(p, row) = ImportedPerson(row, j.arg) /\ j.cmd # "open private"
      BY <1>4, <2>1 DEF NewPerson, Imports, Transitions
    <3>2. CASE row = None
      <4>1. NewPerson(p, row) = Contact(j.arg, "active")
        BY <3>1, <3>2 DEF ImportedPerson
      <4>2. NewPerson(p, row) \in Contacts
        BY <1>2, <2>1, <4>1, NewContact
      <4> QED BY <2>0, <3>1, <3>2, <4>2
    <3>3. CASE row # None
      <4>1. row \in Contacts /\ j.arg \in Labels
        BY <1>2, <2>1, <3>3
      <4>2. [row EXCEPT !.name = j.arg] \in Contacts
        BY <4>1 DEF Contacts
      <4>3. NewPerson(p, row) = row \/ NewPerson(p, row) = [row EXCEPT !.name = j.arg]
        BY <3>1, <3>3 DEF ImportedPerson
      <4>4. NewPerson(p, row) \in Contacts
        BY <4>1, <4>2, <4>3
      <4> QED BY <2>0, <3>1, <4>4, NoneIsNothing
    <3> QED BY <3>2, <3>3
  <2>2. CASE j.cmd = "add"
    <3>1. NewPerson(p, row) = IF row = None THEN Contact(j.arg, "active") ELSE row
      BY <1>4, <2>2 DEF NewPerson, Imports, Transitions
    <3>2. Contact(j.arg, "active") \in Contacts
      BY <1>2, <2>2, NewContact
    <3> QED BY <2>0, <2>2, <3>1, <3>2
  <2>3. CASE j.cmd \in Transitions
    <3>1. NewPerson(p, row) = Changed(row, j.cmd) /\ j.cmd # "open private"
      BY <1>4, <2>3 DEF NewPerson, Imports, Transitions
    <3>2. CASE row = None
      BY <2>0, <3>1, <3>2 DEF Changed
    <3>3. CASE row # None
      <4>1. row \in Contacts
        BY <3>3
      <4>2. \A s \in {"active", "archived", "deleted"} : [row EXCEPT !.status = s] \in Contacts
        BY <4>1 DEF Contacts
      <4>3. \/ NewPerson(p, row) = row
            \/ \E s \in {"active", "archived", "deleted"} :
                  NewPerson(p, row) = [row EXCEPT !.status = s]
        BY <2>3, <3>1, <3>3 DEF Changed, Transitions
      <4>4. NewPerson(p, row) \in Contacts
        BY <4>1, <4>2, <4>3
      <4> QED BY <2>0, <3>1, <4>4, NoneIsNothing
    <3> QED BY <3>2, <3>3
  <2>4. CASE j.cmd \notin Imports \cup {"add"} \cup Transitions
    BY <1>4, <2>4 DEF NewPerson
  <2> QED BY <2>1, <2>2, <2>3, <2>4
<1> QED BY <1>3, <1>4

\* A new chat is of one piece: only a private one is with somebody, and only the
\* others have a title.
Formed(chat) == /\ chat.kind = "private" <=> chat.with # None
                /\ chat.kind = "private" <=> chat.title = None

\* The row of a chat a command writes: one that was there stays what it is.
LEMMA ChatIs ==
    ASSUME TypeOK, NEW p \in Procs, Ordered(p),
           \/ job[p].at \in {"read chat", "write chat"}
           \/ job[p].at = "write person" /\ job[p].cmd = "import chat",
           NEW row \in Chats \cup {None}, row # None => Formed(row)
    PROVE  /\ NewChat(p, row) \in Chats \cup {None}
           /\ row # None => NewChat(p, row) # None /\ Alike(row, NewChat(p, row))
           /\ NewChat(p, row) # None => Formed(NewChat(p, row))
           /\ row = None /\ NewChat(p, row) # None /\ NewChat(p, row).with # None =>
                 \/ job[p].cmd = "import chat" /\ job[p].id \in People
                    /\ NewChat(p, row).with = job[p].id
                 \/ job[p].cmd = "open private" /\ NewChat(p, row).with = job[p].arg
<1> DEFINE j == job[p]
<1>1. /\ j.cmd \in {"import chat", "open private", "open group", "set policy"}
      /\ j.id \in Ids
      /\ j.cmd \in {"import chat", "open group"} => j.arg \in Labels
      /\ j.cmd = "open private" => j.arg \in People
      /\ j.cmd = "set policy" => j.arg \in BOOLEAN
  BY DEF Ordered, Steps
<1>2. CASE j.cmd = "import chat"
  <2>1. NewChat(p, row) = ImportedChat(row, j.id, j.arg)
    BY <1>2 DEF NewChat
  <2>2. CASE row = None
    <3> DEFINE kind == Kind(j.id)
               with == IF j.id \in People THEN j.id ELSE None
               title == IF j.id \in People THEN None ELSE j.arg
               sync == Kind(j.id) \in SyncKinds
    <3>1. NewChat(p, row) = Chat(kind, with, title, sync)
      BY <2>1, <2>2 DEF ImportedChat, Built
    <3>2. kind \in Kinds /\ (kind = "private" <=> j.id \in People)
      <4>1. CASE j.id \in People
        BY <4>1, NoneIsNothing DEF Kind, Kinds
      <4>2. CASE j.id \notin People
        BY <4>2, NoneIsNothing DEF Kind, Kinds
      <4> QED BY <4>1, <4>2
    <3>3. /\ with \in People \cup {None} /\ title \in Labels \cup {None}
          /\ (j.id \in People <=> with # None) /\ (j.id \in People <=> title = None)
      <4>1. j.arg \in Labels /\ j.arg # None
        BY <1>1, <1>2, NoneIsNothing
      <4>2. j.id \in People => j.id # None
        BY NoneIsNothing
      <4> QED BY <4>1, <4>2
    <3>4. with # None => with = j.id /\ j.id \in People
      OBVIOUS
    <3> HIDE DEF kind, with, title
    <3>5. /\ NewChat(p, row) \in Chats /\ NewChat(p, row).kind = kind
          /\ NewChat(p, row).with = with /\ NewChat(p, row).title = title
      <4>1. NewChat(p, row) \in Chats
        BY <3>1, <3>2, <3>3, BuiltIsChat
      <4>2. PICK new : new = NewChat(p, row)
        OBVIOUS
      <4>3. new = [kind |-> kind, with |-> with, title |-> title, sync |-> sync]
        BY <3>1, <4>2 DEF Chat
      <4>4. new.kind = kind /\ new.with = with /\ new.title = title
        BY <4>3
      <4> QED BY <4>1, <4>2, <4>4
    <3>6. Formed(NewChat(p, row))
      BY <3>2, <3>3, <3>5 DEF Formed
    <3> QED BY <1>2, <2>2, <3>4, <3>5, <3>6
  <2>3. CASE row # None
    <3>1. row \in Chats /\ Formed(row) /\ j.arg \in Labels
      BY <1>1, <1>2, <2>3
    <3>2. \/ NewChat(p, row) = row
          \/ NewChat(p, row) = [row EXCEPT !.title = j.arg] /\ row.kind # "private"
      BY <2>1, <2>3 DEF ImportedChat
    <3>3. /\ [row EXCEPT !.title = j.arg] \in Chats
          /\ [row EXCEPT !.title = j.arg].kind = row.kind
          /\ [row EXCEPT !.title = j.arg].with = row.with
          /\ [row EXCEPT !.title = j.arg].title = j.arg
      BY <3>1 DEF Chats
    <3>4. j.arg # None
      BY <3>1, NoneIsNothing
    <3>5. CASE NewChat(p, row) = row
      BY <2>3, <3>1, <3>5 DEF Alike
    <3>6. CASE NewChat(p, row) = [row EXCEPT !.title = j.arg] /\ row.kind # "private"
      <4> DEFINE new == [row EXCEPT !.title = j.arg]
      <4>1. new \in Chats /\ new.kind = row.kind /\ new.with = row.with /\ new.title = j.arg
        BY <3>3
      <4>2. NewChat(p, row) = new
        BY <3>6
      <4> HIDE DEF new
      <4>3. row.with = None /\ row.title # None
        BY <3>1, <3>6 DEF Formed
      <4>4. Alike(row, new) /\ Formed(new)
        BY <3>4, <3>6, <4>1, <4>3 DEF Alike, Formed
      <4> QED BY <2>3, <4>1, <4>2, <4>4, NoneIsNothing
    <3> QED BY <3>2, <3>5, <3>6
  <2> QED BY <2>2, <2>3
<1>3. CASE j.cmd = "open private"
  <2>1. NewChat(p, row) = IF row = None THEN Chat("private", j.arg, None, TRUE) ELSE row
    BY <1>3 DEF NewChat
  <2>2. "private" \in Kinds /\ j.arg \in People /\ j.arg # None
    BY <1>1, <1>3, NoneIsNothing DEF Kinds
  <2> DEFINE new == Chat("private", j.arg, None, TRUE)
  <2>3. /\ new \in Chats /\ new.kind = "private" /\ new.with = j.arg /\ new.title = None
    BY <2>2 DEF Chat, Chats
  <2>4. NewChat(p, row) = IF row = None THEN new ELSE row
    BY <2>1
  <2> HIDE DEF new
  <2>5. Formed(new)
    BY <2>2, <2>3 DEF Formed
  <2> QED BY <1>3, <2>3, <2>4, <2>5, NoneIsNothing DEF Alike
<1>4. CASE j.cmd = "open group"
  <2>1. NewChat(p, row) = IF row = None THEN Chat("group", None, j.arg, TRUE) ELSE row
    BY <1>4 DEF NewChat
  <2>2. "group" \in Kinds /\ j.arg \in Labels /\ j.arg # None
    BY <1>1, <1>4, NoneIsNothing DEF Kinds
  <2> DEFINE new == Chat("group", None, j.arg, TRUE)
  <2>3. /\ new \in Chats /\ new.kind = "group" /\ new.with = None /\ new.title = j.arg
    BY <2>2 DEF Chat, Chats
  <2>4. NewChat(p, row) = IF row = None THEN new ELSE row
    BY <2>1
  <2> HIDE DEF new
  <2>5. Formed(new)
    BY <2>2, <2>3 DEF Formed
  <2> QED BY <1>4, <2>3, <2>4, <2>5, NoneIsNothing DEF Alike
<1>5. CASE j.cmd = "set policy"
  <2>1. NewChat(p, row) = IF row = None THEN row ELSE [row EXCEPT !.sync = j.arg]
    BY <1>5 DEF NewChat
  <2>2. row # None =>
           /\ [row EXCEPT !.sync = j.arg] \in Chats
           /\ [row EXCEPT !.sync = j.arg].kind = row.kind
           /\ [row EXCEPT !.sync = j.arg].with = row.with
           /\ [row EXCEPT !.sync = j.arg].title = row.title
    BY <1>1, <1>5 DEF Chats
  <2> QED BY <2>1, <2>2, NoneIsNothing DEF Formed, Alike
<1> QED BY <1>1, <1>2, <1>3, <1>4, <1>5

-----------------------------------------------------------------------------
(***************************************************************************)
(* No row goes away, and what a process remembers stays true.              *)
(***************************************************************************)
PeopleStay == \A who \in People \cup {Me} : contacts[who] # None => contacts'[who] # None
ChatsStay == \A id \in Ids : chats[id] # None => chats'[id] # None /\ Alike(chats[id], chats'[id])

LEMMA Steady ==
    ASSUME TypeOK, NEW q \in Procs, Ordered(q), Remembered(q), job'[q] = job[q],
           PeopleStay, ChatsStay
    PROVE  Ordered(q)' /\ Remembered(q)'
<1>1. Ordered(q)'
  BY DEF Ordered, Subject
<1>2. Subject(q)' = Subject(q)
  BY DEF Subject
<1>3. NewPerson(q, job[q].person)' = NewPerson(q, job[q].person)
  BY <1>2 DEF NewPerson
<1>4. NewChat(q, job[q].chat)' = NewChat(q, job[q].chat)
  BY DEF NewChat
<1>5. job[q].at \in Steps => job[q].id \in Ids
  BY DEF Ordered
<1>6. job[q].at = "write person" => Subject(q) \in People \cup {Me}
  BY DEF Ordered
<1>7. ASSUME job[q].at = "write person"
      PROVE  /\ Subject(q)' # Me /\ job'[q].cmd # "open private"
             /\ NewPerson(q, job[q].person)' # None
             /\ job'[q].person # None => contacts'[Subject(q)] # None
  BY <1>2, <1>3, <1>6, <1>7 DEF Remembered, PeopleStay
<1>8. ASSUME job[q].at = "write chat"
      PROVE  /\ NewChat(q, job[q].chat)' # job'[q].chat
             /\ job'[q].chat # None =>
                   chats'[job[q].id] # None /\ Alike(job[q].chat, chats'[job[q].id])
  <2>1. job[q].id \in Ids
    BY <1>5, <1>8 DEF Steps
  <2>2. NewChat(q, job[q].chat)' # job'[q].chat
    BY <1>4, <1>8 DEF Remembered
  <2>3. job[q].chat # None => chats[job[q].id] # None /\ Alike(job[q].chat, chats[job[q].id])
    BY <1>8 DEF Remembered
  <2> QED BY <2>1, <2>2, <2>3 DEF ChatsStay, Alike
<1>9. ASSUME job[q].at \in {"read chat", "write chat"}
      PROVE  /\ job[q].cmd = "import chat" /\ job[q].id \in People => contacts'[job[q].id] # None
             /\ job[q].cmd = "open private" => contacts'[job[q].arg] # None
  <2>1. job[q].cmd = "open private" => job[q].arg \in People
    BY <1>9 DEF Ordered, Steps
  <2> QED BY <1>9, <2>1 DEF Remembered, PeopleStay
<1>10. Remembered(q)'
  BY <1>2, <1>7, <1>8, <1>9 DEF Remembered
<1> QED BY <1>1, <1>10

LEMMA WellFormedIs ==
    WellFormed <=>
        /\ contacts[Me] = None
        /\ \A id \in Ids : chats[id] # None =>
              /\ Formed(chats[id])
              /\ chats[id].with # None =>
                    /\ contacts[chats[id].with] # None
                    /\ \A c \in Ids : chats[c] # None /\ chats[c].with = chats[id].with => c = id
BY DEF WellFormed, Formed

LEMMA PeopleChange ==
    ASSUME TypeOK, WellFormed, PeopleStay, contacts'[Me] = None, chats' = chats
    PROVE  WellFormed' /\ ChatsStay
<1>1. \A id \in Ids : chats[id] # None => chats[id] \in Chats
  BY Jobs
<1>2. \A id \in Ids : chats[id] # None /\ chats[id].with # None =>
          chats[id].with \in People /\ contacts'[chats[id].with] # None
  BY <1>1, WellFormedIs DEF Chats, PeopleStay
<1>3. WellFormed'
  BY <1>2 DEF WellFormed
<1> QED BY <1>3 DEF ChatsStay, Alike

LEMMA ChatStored ==
    ASSUME TypeOK, WellFormed, PeopleStay, contacts'[Me] = None,
           NEW id \in Ids, NEW row \in Chats, Formed(row),
           chats' = [chats EXCEPT ![id] = row],
           \/ chats[id] # None /\ Alike(chats[id], row)
           \/ /\ chats[id] = None /\ ~Conflicts(id, row)
              /\ row.with # None => contacts'[row.with] # None
    PROVE  WellFormed' /\ ChatsStay /\ chats' \in [Ids -> Chats \cup {None}]
<1>1. chats \in [Ids -> Chats \cup {None}] /\ row # None
  BY Jobs, NoneIsNothing
<1>2. chats'[id] = row /\ \A c \in Ids \ {id} : chats'[c] = chats[c]
  BY <1>1
<1>3. ChatsStay
  BY <1>1, <1>2 DEF ChatsStay, Alike
<1>4. \A c \in Ids : chats'[c] # None => Formed(chats'[c])
  BY <1>2, WellFormedIs
<1>5. ASSUME NEW c \in Ids, chats'[c] # None, chats'[c].with # None
      PROVE  contacts'[chats'[c].with] # None
  <2>1. CASE chats[c] # None
    <3>1. chats[c].with = chats'[c].with
      BY <1>3, <2>1 DEF ChatsStay, Alike
    <3>2. chats[c].with \in People /\ contacts[chats[c].with] # None
      BY <1>1, <1>5, <2>1, <3>1, WellFormedIs DEF Chats
    <3> QED BY <3>1, <3>2 DEF PeopleStay
  <2>2. CASE chats[c] = None
    <3>1. c = id
      BY <1>2, <1>5, <2>2
    <3> QED BY <1>2, <1>5, <2>2, <3>1
  <2> QED BY <2>1, <2>2
<1>6. ASSUME NEW c \in Ids, chats'[c] # None, chats'[c].with # None,
             NEW d \in Ids, chats'[d] # None, chats'[d].with = chats'[c].with, c # d
      PROVE  FALSE
  <2>1. CASE chats[id] # None
    <3>1. /\ chats[c] # None /\ chats[c].with = chats'[c].with
          /\ chats[d] # None /\ chats[d].with = chats'[d].with
      BY <1>2, <1>6, <2>1 DEF Alike
    <3> QED BY <1>6, <3>1, WellFormedIs
  <2>2. CASE chats[id] = None
    <3>1. CASE c # id /\ d # id
      BY <1>2, <1>6, <3>1, WellFormedIs
    <3>2. CASE c = id
      BY <1>2, <1>6, <2>2, <3>2 DEF Conflicts
    <3>3. CASE d = id
      BY <1>2, <1>6, <2>2, <3>3 DEF Conflicts
    <3> QED BY <3>1, <3>2, <3>3
  <2> QED BY <2>1, <2>2
<1>7. WellFormed'
  BY <1>4, <1>5, <1>6 DEF WellFormed, Formed
<1> QED BY <1>1, <1>3, <1>7

-----------------------------------------------------------------------------
(***************************************************************************)
(* The steps.                                                              *)
(***************************************************************************)
LEMMA IdleJob == Idle \in JobType /\ Idle.at = "done" /\ Idle.cmd = "none"
BY DEF Idle, JobType

\* A process at rest remembers nothing.
LEMMA AtRest ==
    ASSUME NEW p \in Procs, job[p].at = "done"
    PROVE  Ordered(p) /\ Remembered(p)
BY DEF Ordered, Remembered, Steps

LEMMA Finishes ==
    ASSUME TypeOK, NEW p \in Procs, Finish(p)
    PROVE  /\ job' \in [Procs -> JobType]
           /\ \A q \in Procs \ {p} : job'[q] = job[q]
           /\ Ordered(p)' /\ Remembered(p)'
<1>1. job' \in [Procs -> JobType] /\ job'[p] = Idle /\ \A q \in Procs \ {p} : job'[q] = job[q]
  BY Jobs, IdleJob DEF Finish
<1>2. job'[p].at = "done"
  BY <1>1, IdleJob
<1> QED BY <1>1, <1>2 DEF Ordered, Remembered, Steps

\* What one process does leaves what the others remember true.
LEMMA Together ==
    ASSUME DirectoryInv, NEW p \in Procs, \A q \in Procs \ {p} : job'[q] = job[q],
           PeopleStay, ChatsStay, TypeOK', WellFormed', Ordered(p)', Remembered(p)'
    PROVE  DirectoryInv'
<1>1. TypeOK /\ \A q \in Procs : Ordered(q) /\ Remembered(q)
  BY DEF DirectoryInv
<1>2. ASSUME NEW q \in Procs
      PROVE  Ordered(q)' /\ Remembered(q)'
  <2>1. CASE q = p
    BY <2>1
  <2>2. CASE q # p
    <3>1. job'[q] = job[q]
      BY <2>2
    <3> QED BY <1>1, <3>1, Steady
  <2> QED BY <2>1, <2>2
<1> QED BY <1>2 DEF DirectoryInv

\* The variables' types, put together from their parts.
LEMMA Typed ==
    ASSUME job' \in [Procs -> JobType],
           contacts' \in [People \cup {Me} -> Contacts \cup {None}],
           chats' \in [Ids -> Chats \cup {None}],
           label' \in [Ids -> Labels], events' \in 0..MaxEvents
    PROVE  TypeOK'
<1>1. Steps \cup {"done"} = {"read person", "write person", "read chat", "write chat", "done"}
  BY DEF Steps
<1> QED BY <1>1 DEF TypeOK, JobType

LEMMA RowsAlone ==
    ASSUME TypeOK, WellFormed, UNCHANGED <<contacts, chats>>
    PROVE  PeopleStay /\ ChatsStay /\ WellFormed'
BY DEF PeopleStay, ChatsStay, Alike, WellFormed

LEMMA EventCounts ==
    ASSUME TypeOK, Event
    PROVE  events' \in 0..MaxEvents
<1>1. events \in 0..MaxEvents
  BY DEF TypeOK
<1>2. events < MaxEvents /\ events' = events + 1
  BY DEF Event
<1> QED BY <1>1, <1>2, MaxEventsAssumption

LEMMA FinishKeeps ==
    ASSUME DirectoryInv, NEW p \in Procs, Finish(p), PeopleStay, ChatsStay, WellFormed',
           contacts' \in [People \cup {Me} -> Contacts \cup {None}],
           chats' \in [Ids -> Chats \cup {None}],
           label' = label, events' \in 0..MaxEvents
    PROVE  DirectoryInv'
<1>1. TypeOK
  BY DEF DirectoryInv
<1>2. /\ job' \in [Procs -> JobType] /\ \A q \in Procs \ {p} : job'[q] = job[q]
      /\ Ordered(p)' /\ Remembered(p)'
  BY <1>1, Finishes
<1>3. TypeOK'
  BY <1>1, <1>2, Jobs, Typed
<1> QED BY <1>2, <1>3, Together

LEMMA BeginKeeps ==
    ASSUME DirectoryInv, NEW p \in Procs, NEW cmd \in Commands, NEW id \in Ids,
           NEW arg \in Labels \cup People \cup BOOLEAN \cup {None},
           NEW step \in {"read person", "read chat"},
           Begin(p, cmd, id, arg, step),
           UNCHANGED <<label, contacts, chats>>, events' \in 0..MaxEvents,
           cmd \in {"import chat", "open group", "import contact", "add"} => arg \in Labels,
           cmd = "open private" => arg \in People,
           cmd = "set policy" => arg \in BOOLEAN,
           step = "read person" =>
               /\ cmd \notin {"open group", "set policy"}
               /\ cmd # "open private" => id \in People \cup {Me}
               /\ cmd = "import chat" => id \in People,
           step = "read chat" => /\ cmd \in {"import chat", "open group", "set policy"}
                                 /\ cmd = "import chat" => id \notin People
    PROVE  DirectoryInv'
<1>1. TypeOK /\ WellFormed
  BY DEF DirectoryInv
<1>2. /\ job' \in [Procs -> JobType]
      /\ job'[p].cmd = cmd /\ job'[p].id = id /\ job'[p].arg = arg /\ job'[p].at = step
      /\ \A q \in Procs \ {p} : job'[q] = job[q]
  <2> DEFINE new == [Idle EXCEPT !.cmd = cmd, !.id = id, !.arg = arg, !.at = step]
  <2>1. arg \in Labels \cup People \cup BOOLEAN \cup {None}
    OBVIOUS
  <2>2. /\ new \in JobType
        /\ new.cmd = cmd /\ new.id = id /\ new.arg = arg /\ new.at = step
    BY <2>1 DEF Idle, JobType, Steps
  <2>3. job' = [job EXCEPT ![p] = new]
    BY DEF Begin
  <2> HIDE DEF new
  <2> QED BY <1>1, <2>2, <2>3, Jobs
<1>3. TypeOK'
  BY <1>1, <1>2, Jobs, Typed
<1>4. Ordered(p)'
  BY <1>2 DEF Ordered, Subject, Steps
<1>5. Remembered(p)'
  BY <1>2 DEF Remembered
<1> QED BY <1>1, <1>2, <1>3, <1>4, <1>5, RowsAlone, Together

LEMMA BeginImportKeeps ==
    ASSUME DirectoryInv, NEW p \in Procs, NEW cmd \in Imports, NEW id \in Ids,
           BeginImport(p, cmd, id)
    PROVE  DirectoryInv'
<1> DEFINE step == IF cmd = "import contact" \/ id \in People THEN "read person" ELSE "read chat"
<1>1. TypeOK /\ cmd \in Commands /\ step \in {"read person", "read chat"}
  BY DEF DirectoryInv, Commands
<1>2. label[id] \in Labels
  BY <1>1, Jobs
<1>3. /\ cmd = "import contact" => id \in People \cup {Me}
      /\ Begin(p, cmd, id, label[id], step)
      /\ UNCHANGED <<label, contacts, chats>> /\ events' \in 0..MaxEvents
  BY <1>1 DEF BeginImport, TypeOK
<1>4. cmd \in {"import contact", "import chat"}
  BY DEF Imports
<1>5. PICK arg \in Labels : arg = label[id]
  BY <1>2
<1>6. /\ step = "read person" /\ cmd = "import chat" => id \in People
      /\ step = "read person" => id \in People \cup {Me}
      /\ step = "read chat" => cmd = "import chat" /\ id \notin People
  BY <1>3, <1>4
<1> HIDE DEF step
<1> QED BY <1>1, <1>3, <1>4, <1>5, <1>6, BeginKeeps

LEMMA BeginCommandKeeps ==
    ASSUME DirectoryInv, NEW p \in Procs, BeginCommand(p)
    PROVE  DirectoryInv'
<1>1. UNCHANGED <<label, contacts, chats>> /\ events' \in 0..MaxEvents
  BY EventCounts DEF BeginCommand, DirectoryInv
<1>2. ASSUME NEW who \in People \cup {Me}, NEW name \in Labels,
             Begin(p, "add", who, name, "read person")
      PROVE  DirectoryInv'
  <2>1. "add" \in Commands /\ who \in Ids
    BY DEF Commands, Ids
  <2> QED BY <1>1, <1>2, <2>1, BeginKeeps
<1>3. ASSUME NEW who \in People, NEW cmd \in Transitions, Begin(p, cmd, who, None, "read person")
      PROVE  DirectoryInv'
  <2>1. cmd \in Commands /\ who \in Ids
    BY DEF Commands, Ids
  <2>2. cmd \in {"archive", "restore", "delete"}
    BY DEF Transitions
  <2> QED BY <1>1, <1>3, <2>1, <2>2, BeginKeeps
<1>4. ASSUME NEW id \in Ids, NEW who \in People, Begin(p, "open private", id, who, "read person")
      PROVE  DirectoryInv'
  <2>1. "open private" \in Commands
    BY DEF Commands
  <2> QED BY <1>1, <1>4, <2>1, BeginKeeps
<1>5. ASSUME NEW id \in Ids, NEW title \in Labels, Begin(p, "open group", id, title, "read chat")
      PROVE  DirectoryInv'
  <2>1. "open group" \in Commands
    BY DEF Commands
  <2> QED BY <1>1, <1>5, <2>1, BeginKeeps
<1>6. ASSUME NEW id \in Ids, NEW sync \in BOOLEAN, Begin(p, "set policy", id, sync, "read chat")
      PROVE  DirectoryInv'
  <2>1. "set policy" \in Commands
    BY DEF Commands
  <2> QED BY <1>1, <1>6, <2>1, BeginKeeps
<1> QED BY <1>2, <1>3, <1>4, <1>5, <1>6 DEF BeginCommand

\* A process that reads keeps its command and has a row more.
LEMMA Reads ==
    ASSUME DirectoryInv, NEW p \in Procs, NEW j \in JobType,
           job' = [job EXCEPT ![p] = j],
           UNCHANGED <<label, contacts, chats, events>>,
           (Ordered(p) /\ Remembered(p))'
    PROVE  DirectoryInv'
<1>1. TypeOK /\ WellFormed
  BY DEF DirectoryInv
<1>2. job' \in [Procs -> JobType] /\ \A q \in Procs \ {p} : job'[q] = job[q]
  BY <1>1, Jobs
<1>3. events' \in 0..MaxEvents
  BY <1>1 DEF TypeOK
<1>4. TypeOK'
  BY <1>1, <1>2, <1>3, Jobs, Typed
<1> QED BY <1>1, <1>2, <1>4, RowsAlone, Together

LEMMA ReadPersonKeeps ==
    ASSUME DirectoryInv, NEW p \in Procs, ReadPerson(p)
    PROVE  DirectoryInv'
<1> DEFINE j == job[p]
           row == contacts[Subject(p)]
<1>1. /\ TypeOK /\ WellFormed /\ Ordered(p) /\ Remembered(p)
      /\ j.at = "read person" /\ UNCHANGED <<label, contacts, chats, events>>
  BY DEF DirectoryInv, ReadPerson
<1>2. /\ Subject(p) \in People \cup {Me} /\ j.id \in Ids /\ j.cmd \in Commands
      /\ j \in JobType
  BY <1>1, Jobs DEF Ordered, Steps
<1>3. row \in Contacts \cup {None}
  BY <1>1, <1>2, Jobs
<1>4. CASE NewPerson(p, row) # row
  <2>1. /\ NewPerson(p, row) \in Contacts \cup {None}
        /\ row # None => NewPerson(p, row) # None
        /\ Subject(p) # Me /\ j.cmd # "open private"
    BY <1>1, <1>3, <1>4, PersonIs
  <2> DEFINE new == [j EXCEPT !.at = "write person", !.person = row]
  <2>2. job' = [job EXCEPT ![p] = new]
    BY <1>4 DEF ReadPerson
  <2>3. /\ new \in JobType
        /\ new.at = "write person" /\ new.person = row
        /\ new.cmd = j.cmd /\ new.id = j.id /\ new.arg = j.arg
    BY <1>2, <1>3 DEF JobType, Steps
  <2> HIDE DEF new, row
  <2>4. job'[p] = new
    BY <1>1, <2>2, Jobs
  <2>5. Subject(p)' = Subject(p)
    BY <2>3, <2>4 DEF Subject
  <2>6. NewPerson(p, row)' = NewPerson(p, row)
    <3>1. PICK r : r = row
      OBVIOUS
    <3>2. NewPerson(p, r)' = NewPerson(p, r)
      <4>1. job'[p].cmd = job[p].cmd /\ job'[p].arg = job[p].arg
        BY <2>3, <2>4
      <4> QED BY <2>5, <4>1 DEF NewPerson
    <3>3. row' = row
      BY <1>1, <2>5 DEF row
    <3> QED BY <3>1, <3>2, <3>3
  <2>7. Ordered(p)'
    BY <1>1, <2>3, <2>4, <2>5 DEF Ordered, Steps
  <2>8. Remembered(p)'
    <3>1. NewPerson(p, row) # None
      BY <1>4, <2>1
    <3>2. row # None => contacts'[Subject(p)] # None
      BY <1>1 DEF row
    <3>3. NewPerson(p, job[p].person)' = NewPerson(p, row)
      <4>1. job'[p].person = row /\ row' = row
        BY <1>1, <2>3, <2>4, <2>5 DEF row
      <4> QED BY <2>6, <4>1
    <3> QED BY <2>1, <2>3, <2>4, <2>5, <3>1, <3>2, <3>3 DEF Remembered
  <2> QED BY <2>2, <2>3, <2>7, <2>8, <1>1, Reads
<1>5. CASE NewPerson(p, row) = row /\ GoesOn(p, row)
  <2> DEFINE new == [j EXCEPT !.at = "read chat"]
  <2>1. job' = [job EXCEPT ![p] = new]
    BY <1>5 DEF ReadPerson
  <2>2. /\ new \in JobType /\ new.at = "read chat"
        /\ new.cmd = j.cmd /\ new.id = j.id /\ new.arg = j.arg
    BY <1>2 DEF JobType, Steps
  <2> HIDE DEF new
  <2>3. job'[p] = new
    BY <1>1, <2>1, Jobs
  <2>4. j.cmd \in {"import chat", "open private"} /\ row # None
    BY <1>5 DEF GoesOn
  <2>5. Ordered(p)'
    BY <1>1, <2>2, <2>3, <2>4 DEF Ordered, Steps
  <2>6. /\ j.cmd = "import chat" => contacts[j.id] # None
        /\ j.cmd = "open private" => contacts[j.arg] # None
    BY <2>4 DEF Subject
  <2>7. Remembered(p)'
    BY <1>1, <2>2, <2>3, <2>6 DEF Remembered
  <2> QED BY <1>1, <2>1, <2>2, <2>5, <2>7, Reads
<1>6. CASE NewPerson(p, row) = row /\ ~GoesOn(p, row)
  <2>1. Finish(p) /\ events' \in 0..MaxEvents
    BY <1>1, <1>6 DEF ReadPerson, TypeOK
  <2> QED BY <1>1, <2>1, RowsAlone, Jobs, FinishKeeps
<1> QED BY <1>4, <1>5, <1>6

LEMMA ReadChatKeeps ==
    ASSUME DirectoryInv, NEW p \in Procs, ReadChat(p)
    PROVE  DirectoryInv'
<1> DEFINE j == job[p]
           row == chats[j.id]
           open == j.cmd = "open private" /\ \E c \in Ids : chats[c] # None /\ chats[c].with = j.arg
<1>1. /\ TypeOK /\ WellFormed /\ Ordered(p) /\ Remembered(p)
      /\ j.at = "read chat" /\ UNCHANGED <<label, contacts, chats, events>>
  BY DEF DirectoryInv, ReadChat
<1>2. /\ j.id \in Ids /\ j.cmd \in Commands /\ j \in JobType
  BY <1>1, Jobs DEF Ordered, Steps
<1>3. row \in Chats \cup {None}
  BY <1>1, <1>2, Jobs
<1>4. CASE NewChat(p, row) = row \/ open
  <2>1. Finish(p) /\ events' \in 0..MaxEvents
    BY <1>1, <1>4 DEF ReadChat, TypeOK
  <2> QED BY <1>1, <2>1, RowsAlone, Jobs, FinishKeeps
<1>5. CASE ~(NewChat(p, row) = row \/ open)
  <2> DEFINE new == [j EXCEPT !.at = "write chat", !.chat = row]
  <2>1. job' = [job EXCEPT ![p] = new]
    BY <1>5 DEF ReadChat
  <2>2. /\ new \in JobType /\ new.at = "write chat" /\ new.chat = row
        /\ new.cmd = j.cmd /\ new.id = j.id /\ new.arg = j.arg
    BY <1>2, <1>3 DEF JobType, Steps
  <2>3. NewChat(p, row) # row
    BY <1>5
  <2> HIDE DEF new, row, open
  <2>4. job'[p] = new
    BY <1>1, <2>1, Jobs
  <2>5. NewChat(p, job[p].chat)' = NewChat(p, row)
    <3>1. PICK r : r = row
      OBVIOUS
    <3>2. NewChat(p, r)' = NewChat(p, r)
      BY <2>2, <2>4 DEF NewChat
    <3>3. job'[p].chat = r
      BY <2>2, <2>4, <3>1
    <3> QED BY <3>1, <3>2, <3>3
  <2>6. Ordered(p)'
    BY <1>1, <2>2, <2>4 DEF Ordered, Steps
  <2>7. row # None => chats'[j.id] # None /\ Alike(row, chats'[j.id])
    BY <1>1 DEF Alike, row
  <2>8. Remembered(p)'
    <3>1. job'[p].at = "write chat" /\ job'[p].chat = row /\ job'[p].id = j.id
          /\ job'[p].cmd = j.cmd /\ job'[p].arg = j.arg
      BY <2>2, <2>4
    <3>2. /\ j.cmd = "import chat" /\ j.id \in People => contacts[j.id] # None
          /\ j.cmd = "open private" => contacts[j.arg] # None
      BY <1>1 DEF Remembered
    <3>3. (NewChat(p, job[p].chat) # job[p].chat)'
      BY <2>3, <2>5, <3>1
    <3> QED BY <1>1, <2>7, <3>1, <3>2, <3>3 DEF Remembered, Alike
  <2> QED BY <1>1, <2>1, <2>2, <2>6, <2>8, Reads
<1> QED BY <1>4, <1>5

LEMMA WriteChatKeeps ==
    ASSUME DirectoryInv, NEW p \in Procs, WriteChat(p)
    PROVE  DirectoryInv'
<1> DEFINE j == job[p]
           row == NewChat(p, j.chat)
<1>1. /\ TypeOK /\ WellFormed /\ Ordered(p) /\ Remembered(p)
      /\ j.at = "write chat" /\ UNCHANGED <<label, contacts, events>> /\ Finish(p)
      /\ chats' = IF j.chat = None /\ Conflicts(j.id, row) THEN chats
                  ELSE [chats EXCEPT ![j.id] = row]
  BY DEF DirectoryInv, WriteChat
<1>2. /\ j.id \in Ids /\ j \in JobType /\ j.chat \in Chats \cup {None}
      /\ chats \in [Ids -> Chats \cup {None}]
  BY <1>1, Jobs DEF Ordered, Steps, JobType
<1>3. row # j.chat /\ (j.chat # None => chats[j.id] # None /\ Alike(j.chat, chats[j.id]))
  BY <1>1 DEF Remembered
<1>4. j.chat # None => Formed(j.chat)
  BY <1>1, <1>2, <1>3, WellFormedIs DEF Alike, Formed
<1>5. /\ row \in Chats \cup {None}
      /\ j.chat # None => row # None /\ Alike(j.chat, row)
      /\ row # None => Formed(row)
      /\ j.chat = None /\ row # None /\ row.with # None =>
            \/ j.cmd = "import chat" /\ j.id \in People /\ row.with = j.id
            \/ j.cmd = "open private" /\ row.with = j.arg
  BY <1>1, <1>2, <1>4, ChatIs
<1> HIDE DEF row
<1>6. row \in Chats /\ Formed(row) /\ row # None
  BY <1>3, <1>5
<1>7. /\ PeopleStay /\ contacts'[Me] = None /\ events' \in 0..MaxEvents
      /\ contacts' \in [People \cup {Me} -> Contacts \cup {None}]
  BY <1>1, Jobs, WellFormedIs DEF PeopleStay, TypeOK
<1>8. CASE j.chat = None /\ Conflicts(j.id, row)
  BY <1>1, <1>2, <1>7, <1>8, RowsAlone, FinishKeeps
<1>9. CASE ~(j.chat = None /\ Conflicts(j.id, row))
  <2>1. chats' = [chats EXCEPT ![j.id] = row]
    BY <1>1, <1>9
  <2>2. CASE j.chat # None
    <3>1. chats[j.id] # None /\ Alike(chats[j.id], row)
      BY <1>3, <1>5, <2>2 DEF Alike
    <3>2. WellFormed' /\ ChatsStay /\ chats' \in [Ids -> Chats \cup {None}]
      BY <1>1, <1>2, <1>6, <1>7, <2>1, <3>1, ChatStored
    <3> QED BY <1>1, <1>7, <3>2, FinishKeeps
  <2>3. CASE j.chat = None
    <3>1. ~Conflicts(j.id, row) /\ chats[j.id] = None
      BY <1>9, <2>3 DEF Conflicts
    <3>2. row.with # None => contacts'[row.with] # None
      BY <1>1, <1>5, <1>6, <2>3 DEF Remembered
    <3>3. WellFormed' /\ ChatsStay /\ chats' \in [Ids -> Chats \cup {None}]
      BY <1>1, <1>2, <1>6, <1>7, <2>1, <3>1, <3>2, ChatStored
    <3> QED BY <1>1, <1>7, <3>3, FinishKeeps
  <2> QED BY <2>2, <2>3
<1> QED BY <1>8, <1>9

LEMMA WritePersonKeeps ==
    ASSUME DirectoryInv, NEW p \in Procs, WritePerson(p)
    PROVE  DirectoryInv'
<1> DEFINE j == job[p]
           who == Subject(p)
           person == NewPerson(p, j.person)
           row == IF j.cmd = "import chat" THEN NewChat(p, chats[j.id]) ELSE chats[j.id]
           undone == \/ j.person = None /\ contacts[who] # None
                     \/ UndoesPerson(p, row)
<1>1. /\ TypeOK /\ WellFormed /\ Ordered(p) /\ Remembered(p)
      /\ j.at = "write person" /\ UNCHANGED <<label, events>> /\ Finish(p)
      /\ contacts' = IF undone THEN contacts ELSE [contacts EXCEPT ![who] = person]
      /\ chats' = IF undone \/ (chats[j.id] = None /\ row # None /\ Conflicts(j.id, row)) THEN chats
                  ELSE [chats EXCEPT ![j.id] = row]
  BY DEF DirectoryInv, WritePerson
<1>2. /\ j.id \in Ids /\ j \in JobType /\ j.person \in Contacts \cup {None}
      /\ chats \in [Ids -> Chats \cup {None}]
      /\ contacts \in [People \cup {Me} -> Contacts \cup {None}]
      /\ events' \in 0..MaxEvents
  BY <1>1, Jobs DEF Ordered, Steps, JobType, TypeOK
<1>3. /\ who # Me /\ who \in People \cup {Me} /\ person # None /\ j.cmd # "open private"
      /\ j.cmd = "import chat" => j.id \in People /\ who = j.id
  BY <1>1 DEF Remembered, Ordered, Subject
<1>4. person \in Contacts
  BY <1>1, <1>2, <1>3, PersonIs
<1>5. CASE undone
  <2>1. contacts' = contacts /\ chats' = chats
    BY <1>1, <1>5
  <2> QED BY <1>1, <1>2, <2>1, RowsAlone, FinishKeeps
<1>6. CASE ~undone
  <2>1. contacts' = [contacts EXCEPT ![who] = person]
    BY <1>1, <1>6
  <2>2. \/ chats' = chats
        \/ /\ chats' = [chats EXCEPT ![j.id] = row]
           /\ ~(chats[j.id] = None /\ row # None /\ Conflicts(j.id, row))
    BY <1>1, <1>6
  <2> HIDE DEF who, person, undone
  <2>3. /\ PeopleStay /\ contacts' \in [People \cup {Me} -> Contacts \cup {None}]
        /\ contacts'[who] # None
    BY <1>2, <1>3, <1>4, <2>1, NoneIsNothing DEF PeopleStay
  <2>4. contacts'[Me] = None
    BY <1>1, <1>2, <1>3, <2>1, WellFormedIs
  <2>5. CASE chats' = chats
    BY <1>1, <1>2, <2>3, <2>4, <2>5, PeopleChange, FinishKeeps
  <2>6. CASE j.cmd # "import chat" /\ chats' = [chats EXCEPT ![j.id] = row]
    <3>1. chats' = chats
      BY <1>2, <2>6
    <3> QED BY <2>5, <3>1
  <2>7. CASE /\ j.cmd = "import chat" /\ chats' = [chats EXCEPT ![j.id] = row]
             /\ ~(chats[j.id] = None /\ row # None /\ Conflicts(j.id, row))
    <3>1. chats[j.id] # None => Formed(chats[j.id])
      BY <1>1, <1>2, WellFormedIs
    <3>2. chats[j.id] \in Chats \cup {None}
      BY <1>2
    <3>3. row = NewChat(p, chats[j.id])
      BY <2>7
    <3>4. /\ row \in Chats \cup {None}
          /\ chats[j.id] # None => row # None /\ Alike(chats[j.id], row)
          /\ row # None => Formed(row)
          /\ chats[j.id] = None /\ row # None /\ row.with # None => row.with = j.id
      BY <1>1, <2>7, <3>1, <3>2, <3>3, ChatIs
    <3> HIDE DEF row
    <3>5. CASE row = None
      <4>1. chats' = chats
        BY <1>2, <2>7, <3>4, <3>5
      <4> QED BY <2>5, <4>1
    <3>6. CASE row # None /\ chats[j.id] # None
      <4>1. WellFormed' /\ ChatsStay /\ chats' \in [Ids -> Chats \cup {None}]
        BY <1>1, <1>2, <2>3, <2>4, <2>7, <3>4, <3>6, ChatStored
      <4> QED BY <1>1, <1>2, <2>3, <4>1, FinishKeeps
    <3>7. CASE row # None /\ chats[j.id] = None
      <4>1. row.with # None => contacts'[row.with] # None
        BY <1>3, <2>3, <2>7, <3>4, <3>7
      <4>2. WellFormed' /\ ChatsStay /\ chats' \in [Ids -> Chats \cup {None}]
        BY <1>1, <1>2, <2>3, <2>4, <2>7, <3>4, <3>7, <4>1, ChatStored
      <4> QED BY <1>1, <1>2, <2>3, <4>2, FinishKeeps
    <3> QED BY <3>5, <3>6, <3>7
  <2> QED BY <2>2, <2>5, <2>6, <2>7
<1> QED BY <1>5, <1>6

LEMMA CrashKeeps ==
    ASSUME DirectoryInv, NEW p \in Procs, Crash(p)
    PROVE  DirectoryInv'
<1>1. TypeOK /\ WellFormed /\ Finish(p) /\ Event /\ UNCHANGED <<label, contacts, chats>>
  BY DEF DirectoryInv, Crash
<1> QED BY <1>1, EventCounts, RowsAlone, Jobs, FinishKeeps

LEMMA RenameKeeps ==
    ASSUME DirectoryInv, NEW id \in Ids, NEW l \in Labels, Rename(id, l)
    PROVE  DirectoryInv'
<1>1. TypeOK /\ WellFormed /\ \A q \in Procs : Ordered(q) /\ Remembered(q)
  BY DEF DirectoryInv
<1>2. Event /\ UNCHANGED <<contacts, chats, job>> /\ label' = [label EXCEPT ![id] = l]
  BY DEF Rename
<1>3. PeopleStay /\ ChatsStay /\ WellFormed'
  BY <1>1, <1>2, RowsAlone
<1>4. TypeOK'
  <2>1. label' \in [Ids -> Labels]
    BY <1>1, <1>2, Jobs
  <2> QED BY <1>1, <1>2, <2>1, Jobs, EventCounts, Typed
<1>5. ASSUME NEW q \in Procs
      PROVE  Ordered(q)' /\ Remembered(q)'
  BY <1>1, <1>2, <1>3, Steady
<1> QED BY <1>3, <1>4, <1>5 DEF DirectoryInv

LEMMA StutterKeeps ==
    ASSUME DirectoryInv, UNCHANGED vars
    PROVE  DirectoryInv'
<1>1. TypeOK /\ WellFormed /\ \A q \in Procs : Ordered(q) /\ Remembered(q)
  BY DEF DirectoryInv
<1>2. UNCHANGED <<label, contacts, chats, job, events>>
  BY DEF vars
<1>3. PeopleStay /\ ChatsStay /\ WellFormed'
  BY <1>1, <1>2, RowsAlone
<1>4. TypeOK'
  <2>1. events' \in 0..MaxEvents
    BY <1>1, <1>2 DEF TypeOK
  <2> QED BY <1>1, <1>2, <2>1, Jobs, Typed
<1>5. ASSUME NEW q \in Procs
      PROVE  Ordered(q)' /\ Remembered(q)'
  BY <1>1, <1>2, <1>3, Steady
<1> QED BY <1>3, <1>4, <1>5 DEF DirectoryInv

LEMMA DirectoryInit == Init => DirectoryInv
<1> SUFFICES ASSUME Init PROVE DirectoryInv
  OBVIOUS
<1>1. TypeOK
  <2>1. job \in [Procs -> JobType]
    BY IdleJob DEF Init
  <2>2. job \in [Procs ->
           [cmd : Commands \cup {"none"}, id : Ids \cup {None},
            arg : Labels \cup People \cup BOOLEAN \cup {None},
            at : {"read person", "write person", "read chat", "write chat", "done"},
            person : Contacts \cup {None}, chat : Chats \cup {None}]]
    <3>1. Steps \cup {"done"} = {"read person", "write person", "read chat", "write chat", "done"}
      BY DEF Steps
    <3> QED BY <2>1, <3>1 DEF JobType
  <2>3. /\ label \in [Ids -> Labels] /\ events \in 0..MaxEvents
        /\ contacts \in [People \cup {Me} -> Contacts \cup {None}]
        /\ chats \in [Ids -> Chats \cup {None}]
    BY MaxEventsAssumption DEF Init
  <2> QED BY <2>2, <2>3 DEF TypeOK
<1>2. WellFormed
  BY DEF Init, WellFormed
<1>3. ASSUME NEW p \in Procs
      PROVE  Ordered(p) /\ Remembered(p)
  <2>1. job[p].at = "done"
    BY IdleJob DEF Init
  <2> QED BY <2>1, AtRest
<1> QED BY <1>1, <1>2, <1>3 DEF DirectoryInv

LEMMA DirectoryNext == DirectoryInv /\ [Next]_vars => DirectoryInv'
<1> SUFFICES ASSUME DirectoryInv, [Next]_vars PROVE DirectoryInv'
  OBVIOUS
<1>1. ASSUME NEW p \in Procs, Step(p)
      PROVE  DirectoryInv'
  BY <1>1, ReadPersonKeeps, WritePersonKeeps, ReadChatKeeps, WriteChatKeeps DEF Step
<1>2. ASSUME NEW p \in Procs, BeginCommand(p) \/ Crash(p)
      PROVE  DirectoryInv'
  BY <1>2, BeginCommandKeeps, CrashKeeps
<1>3. ASSUME NEW cmd \in Imports, NEW id \in Ids, Imported(cmd, id)
      PROVE  DirectoryInv'
  BY <1>3, BeginImportKeeps DEF Imported
<1>4. ASSUME NEW id \in Ids, NEW l \in Labels, Rename(id, l)
      PROVE  DirectoryInv'
  BY <1>4, RenameKeeps
<1>5. CASE UNCHANGED vars
  BY <1>5, StutterKeeps
<1> QED BY <1>1, <1>2, <1>3, <1>4, <1>5 DEF Next

\* However imports, commands and crashes interleave, the operator is nobody's
\* contact, a private chat is with a stored contact who has no second one, and
\* only the other chats have a title (sync.py, chat.py, contact.py).
THEOREM DirectoryStaysWellFormed == Spec => []WellFormed
<1>1. DirectoryInv => WellFormed
  BY DEF DirectoryInv
<1> QED BY <1>1, DirectoryInit, DirectoryNext, PTL DEF Spec

-----------------------------------------------------------------------------
(***************************************************************************)
(* What imports leave to the operator.                                     *)
(***************************************************************************)
LEMMA ImportKeepsStatus ==
    ASSUME NEW row \in Contacts, NEW name
    PROVE  ImportedPerson(row, name).status = row.status
BY NoneIsNothing DEF ImportedPerson, Contacts

LEMMA ImportKeepsSync ==
    ASSUME NEW row \in Chats, NEW id, NEW title
    PROVE  ImportedChat(row, id, title).sync = row.sync
BY NoneIsNothing DEF ImportedChat, Chats

Decided ==
    /\ \A who \in People : contacts[who] # None => contacts'[who].status = contacts[who].status
    /\ \A id \in Ids : chats[id] # None => chats'[id].sync = chats[id].sync

\* An import that writes the row that is stored decides nothing.
LEMMA WriteDecidesNothing ==
    ASSUME DirectoryInv, NEW p \in Procs, WritePerson(p) \/ WriteChat(p),
           job[p].cmd \in Imports, ~PutsBack(p)
    PROVE  Decided
<1> DEFINE j == job[p]
<1>1. /\ TypeOK /\ Ordered(p) /\ Remembered(p)
      /\ chats \in [Ids -> Chats \cup {None}]
      /\ contacts \in [People \cup {Me} -> Contacts \cup {None}]
  BY Jobs DEF DirectoryInv
<1>2. \A id \in Ids : chats[id] # None => chats[id] \in Chats
  BY <1>1
<1>3. \A who \in People : contacts[who] # None => contacts[who] \in Contacts
  BY <1>1
<1>4. j.cmd # "open private" /\ j.cmd \in {"import contact", "import chat"}
  BY DEF Imports
<1>5. CASE WritePerson(p)
  <2>1. j.at = "write person" /\ j.id \in Ids
    BY <1>1, <1>5 DEF WritePerson, Ordered, Steps
  <2>2. Subject(p) = j.id /\ j.person = contacts[j.id] /\ j.id # Me /\ j.id \in People \cup {Me}
    BY <1>1, <1>4, <2>1 DEF Subject, PutsBack, Remembered, Ordered
  <2>3. NewPerson(p, j.person) = ImportedPerson(contacts[j.id], j.arg)
    BY <2>2 DEF NewPerson, IsOperator, Imports, Transitions
  <2>4. \/ contacts' = contacts
        \/ contacts' = [contacts EXCEPT ![j.id] = ImportedPerson(contacts[j.id], j.arg)]
    BY <1>5, <2>2, <2>3 DEF WritePerson
  <2>5. \/ chats' = chats
        \/ chats' = [chats EXCEPT ![j.id] = chats[j.id]]
        \/ chats' = [chats EXCEPT ![j.id] = ImportedChat(chats[j.id], j.id, j.arg)]
    BY <1>5 DEF WritePerson, NewChat
  <2>6. ASSUME NEW who \in People, contacts[who] # None
        PROVE  contacts'[who].status = contacts[who].status
    BY <1>1, <1>3, <2>4, <2>6, ImportKeepsStatus
  <2>7. ASSUME NEW id \in Ids, chats[id] # None
        PROVE  chats'[id].sync = chats[id].sync
    <3>1. ImportedChat(chats[id], id, j.arg).sync = chats[id].sync
      BY <1>2, <2>7, ImportKeepsSync
    <3> QED BY <1>1, <2>1, <2>5, <3>1
  <2> QED BY <2>6, <2>7 DEF Decided
<1>6. CASE WriteChat(p)
  <2>1. j.at = "write chat" /\ contacts' = contacts
    BY <1>6 DEF WriteChat
  <2>2. j.chat = chats[j.id] /\ j.id \in Ids /\ j.cmd = "import chat"
    BY <1>1, <1>4, <2>1 DEF PutsBack, Ordered, Steps
  <2>3. NewChat(p, j.chat) = ImportedChat(chats[j.id], j.id, j.arg)
    BY <2>2 DEF NewChat
  <2>4. \/ chats' = chats
        \/ chats' = [chats EXCEPT ![j.id] = ImportedChat(chats[j.id], j.id, j.arg)]
    BY <1>6, <2>3 DEF WriteChat
  <2>5. ASSUME NEW id \in Ids, chats[id] # None
        PROVE  chats'[id].sync = chats[id].sync
    <3>1. ImportedChat(chats[id], id, j.arg).sync = chats[id].sync
      BY <1>2, <2>5, ImportKeepsSync
    <3> QED BY <1>1, <2>2, <2>4, <3>1
  <2> QED BY <2>1, <2>5 DEF Decided
<1> QED BY <1>5, <1>6

\* Every other step leaves the rows, or belongs to another process.
LEMMA OthersDecide ==
    ASSUME DirectoryInv, Next, NEW p \in Procs,
           job[p].cmd \in Imports, job'[p] # job[p]
    PROVE  WritePerson(p) \/ WriteChat(p) \/ Decided
<1>1. job \in [Procs -> JobType]
  BY Jobs DEF DirectoryInv
<1>2. ASSUME NEW q \in Procs, Step(q)
      PROVE  WritePerson(p) \/ WriteChat(p) \/ Decided
  <2>1. CASE q = p
    BY <1>2, <2>1 DEF Step, ReadPerson, ReadChat, Decided
  <2>2. CASE q # p
    <3>1. \E new : job' = [job EXCEPT ![q] = new]
      <4>1. CASE ReadPerson(q)
        BY <4>1 DEF ReadPerson, Finish
      <4>2. CASE ReadChat(q)
        BY <4>2 DEF ReadChat, Finish
      <4>3. CASE WritePerson(q) \/ WriteChat(q)
        BY <4>3 DEF WritePerson, WriteChat, Finish
      <4> QED BY <1>2, <4>1, <4>2, <4>3 DEF Step
    <3> QED BY <1>1, <2>2, <3>1
  <2> QED BY <2>1, <2>2
<1>3. ASSUME UNCHANGED <<contacts, chats>>
      PROVE  Decided
  BY <1>3 DEF Decided
<1>4. ASSUME NEW q \in Procs, BeginCommand(q) \/ Crash(q)
      PROVE  Decided
  BY <1>3, <1>4 DEF BeginCommand, Crash
<1>5. ASSUME NEW cmd \in Imports, NEW id \in Ids, Imported(cmd, id)
      PROVE  Decided
  BY <1>3, <1>5 DEF Imported, BeginImport
<1>6. ASSUME NEW id \in Ids, NEW l \in Labels, Rename(id, l)
      PROVE  Decided
  BY <1>3, <1>6 DEF Rename
<1> QED BY <1>2, <1>4, <1>5, <1>6 DEF Next

\* A person's status and a chat's switch are the operator's: no import changes
\* either, unless it puts back a row somebody changed since it was read
\* (_upsert_contact and _upsert_chat of sync.py).
THEOREM ImportsDecideNothing == Spec => OperatorDecides
<1>1. DirectoryInv /\ [Next]_vars =>
          [\A p \in Procs : job[p].cmd \in Imports /\ job'[p] # job[p] /\ ~PutsBack(p) =>
              /\ \A who \in People : contacts[who] # None =>
                    contacts'[who].status = contacts[who].status
              /\ \A id \in Ids : chats[id] # None => chats'[id].sync = chats[id].sync]_vars
  <2> SUFFICES ASSUME DirectoryInv, Next, NEW p \in Procs, job[p].cmd \in Imports,
                      job'[p] # job[p], ~PutsBack(p)
               PROVE  Decided
    BY DEF Decided
  <2> QED BY OthersDecide, WriteDecidesNothing
<1> QED BY <1>1, DirectoryInit, DirectoryNext, PTL DEF Spec, OperatorDecides
=============================================================================
