---------------------------- MODULE ShellProofs ----------------------------
(***************************************************************************)
(* What every command of the shell rests on, for any number of processes,  *)
(* wherever each is killed: the session's record, its key and TDLib's      *)
(* store; the schema and its stamp; the accounts, of which one is operated;*)
(* and, of the one that follows Telegram, the tasks it supervises.  They   *)
(* share nothing: each has its invariant and its theorems.                 *)
(***************************************************************************)
EXTENDS Sessions, Schema, Accounts, Supervisor, Integers, FiniteSetTheorems, TLAPS

-----------------------------------------------------------------------------
(***************************************************************************)
(* The session's record, its key and TDLib's store.                        *)
(***************************************************************************)
\* The types, without the bound on commands.
AnyJobs == [cmd : Commands \cup {None}, at : Steps \cup Ends, key : Nat, saw : States \cup {None}]

Typed ==
    /\ record \in States \cup {None}
    /\ key \in Nat /\ issued \in Nat
    /\ store # None => store \in [key : Nat, who : People \cup {Nobody}]
    /\ job \in [Procs -> AnyJobs]
    /\ dropped \in BOOLEAN /\ overlapped \in BOOLEAN /\ raced \in BOOLEAN

\* One client has the directory, for as long as its command needs it.
Connected == {"authorize", "identify", "view", "write", "read", "tell", "fetch"}
Exclusive == \A p \in Procs : job[p].at \in Connected => holder = {p}

\* A command goes beyond its first steps only where there is a record, and so
\* there is no store without one.
Preparing == {"set", "add"}
RecordFirst ==
    /\ store # None => record # None
    /\ \A p \in Procs :
          /\ job[p].at \in Steps \ ({"settings", "look"} \cup Preparing) => record # None
          /\ job[p].at = "look" /\ job[p].cmd = "login" => record # None
          /\ job[p].at \in Preparing => job[p].cmd # "login"
          /\ job[p].at = "write" => job[p].saw \in States

\* Preparations that did not overlap find no record, and each one's key is
\* stored by the time it adds its own.
Prepared ==
    /\ \A p \in Procs : job[p].at = "add" => key # 0 \/ dropped
    /\ ~overlapped =>
          \A p \in Procs : job[p].at \in Preparing =>
             /\ record = None
             /\ \A q \in Procs : job[q].at \in Preparing => q = p

\* The key a command has read is the one there is.
KeyIsRead ==
    ~overlapped => \A p \in Procs :
        job[p].at = "connect" \/ (job[p].at = "look" /\ job[p].cmd = "login") =>
            job[p].key = key \/ key = 0

\* Whoever is to be recorded is the owner; whoever clears up has nobody.
Clearing == {"mark", "destroy", "forget"}
Recorded == \A p \in Procs : job[p].at \in {"view", "write"} => SignedIn \in {Owner, Nobody}
Cleared == \A p \in Procs : job[p].at \in Clearing => SignedIn = Nobody \/ raced

SessionInv ==
    /\ Typed /\ Exclusive /\ RecordFirst /\ Prepared /\ KeyIsRead
    /\ Recorded /\ Cleared /\ KeysAreKept

-----------------------------------------------------------------------------
\* A job at its beginning or end holds nothing.
LEMMA JobType ==
    ASSUME NEW c \in Commands \cup {None}, NEW s \in Steps \cup Ends
    PROVE  Job(c, s) \in AnyJobs
BY DEF Job, AnyJobs

LEMMA SessionInitInv == Init => SessionInv
<1> SUFFICES ASSUME Init PROVE SessionInv
  OBVIOUS
<1>1. Typed
  <2>1. "done" \in Steps \cup Ends
    BY DEF Ends
  <2>2. Job(None, "done") \in AnyJobs
    BY <2>1, JobType
  <2> QED
    BY <2>2 DEF Init, Typed
<1>2. \A p \in Procs : job[p].at = "done"
  BY DEF Init, Job
<1> QED
  BY <1>1, <1>2 DEF Init, SessionInv, Exclusive, Connected, RecordFirst, Preparing, Prepared, KeyIsRead,
                    Recorded, Clearing, Cleared, KeysAreKept, Steps

\* A process that ends, or begins, takes nothing of another's away.
LEMMA EndKeeps ==
    ASSUME SessionInv, NEW p \in Procs, NEW j \in AnyJobs,
           j.at \in Ends \/ j.at = "settings" \/ (j.at = "look" /\ j.cmd # "login"),
           job' = [job EXCEPT ![p] = j],
           holder' = holder \/ holder' = holder \ {p},
           record' = record \/ (record # None /\ record' \in States),
           UNCHANGED <<key, issued, store, dropped>>,
           overlapped' = overlapped \/ overlapped' = TRUE,
           raced' = raced \/ raced' = TRUE
    PROVE  SessionInv'
<1>0. (record # None) = (record' # None)
  BY NoneAssumption
<1>1. Typed'
  BY DEF SessionInv, Typed
<1>2. \A q \in Procs : q # p => job'[q] = job[q]
  BY DEF SessionInv, Typed
<1>3. job'[p] = j
  BY DEF SessionInv, Typed
<1>4. /\ j.at \notin Connected \cup Preparing \cup Clearing \cup {"connect", "key"}
      /\ ~(j.at = "look" /\ j.cmd = "login")
  BY DEF Ends, Connected, Preparing, Clearing
<1>5. Exclusive'
  <2> SUFFICES ASSUME NEW q \in Procs, job'[q].at \in Connected PROVE holder' = {q}
    BY DEF Exclusive
  <2>1. q # p /\ job[q].at \in Connected
    BY <1>2, <1>3, <1>4
  <2> QED
    BY <2>1 DEF SessionInv, Exclusive
<1>6. RecordFirst'
  <2>1. j.at \notin Steps \ {"settings", "look"} /\ j.at # "write"
    BY <1>4 DEF Steps, Connected, Preparing, Clearing
  <2>2. j.at \notin Preparing
    BY <1>4
  <2>3. ASSUME NEW q \in Procs
        PROVE  /\ job'[q].at \in Steps \ ({"settings", "look"} \cup Preparing) => record' # None
               /\ job'[q].at = "look" /\ job'[q].cmd = "login" => record' # None
               /\ job'[q].at \in Preparing => job'[q].cmd # "login"
               /\ job'[q].at = "write" => job'[q].saw \in States
    <3>1. CASE q = p
      BY <1>3, <1>4, <2>1, <2>2, <3>1
    <3>2. CASE q # p
      BY <1>0, <1>2, <3>2 DEF SessionInv, RecordFirst
    <3> QED
      BY <3>1, <3>2
  <2> QED
    BY <1>0, <2>3 DEF SessionInv, RecordFirst
<1>7. Prepared' /\ KeyIsRead'
  <2>1. ASSUME NEW q \in Procs, job'[q].at \in Preparing PROVE q # p /\ job[q].at \in Preparing
    BY <1>2, <1>3, <1>4, <2>1
  <2>2. ASSUME NEW q \in Procs
        PROVE  /\ job'[q].at = "add" => q # p
               /\ job'[q].at = "connect" \/ (job'[q].at = "look" /\ job'[q].cmd = "login") => q # p
    BY <1>3, <1>4 DEF Preparing
  <2> QED
    BY <1>2, <2>1, <2>2 DEF SessionInv, Prepared, KeyIsRead
<1>8. Recorded' /\ Cleared' /\ KeysAreKept'
  BY <1>2, <1>3, <1>4 DEF SessionInv, Recorded, Cleared, KeysAreKept, SignedIn, Connected
<1> QED
  BY <1>1, <1>5, <1>6, <1>7, <1>8 DEF SessionInv

\* A command's next step, when the stores stay and it needs no more than it has.
LEMMA StepKeeps ==
    ASSUME SessionInv, NEW p \in Procs, NEW j \in AnyJobs,
           job' = [job EXCEPT ![p] = j],
           record' = record \/ (record # None /\ record' \in States),
           overlapped' = overlapped \/ overlapped' = TRUE,
           UNCHANGED <<key, issued, store, holder, dropped, raced>>,
           j.at \in Connected => holder = {p},
           j.at \in Steps \ {"settings", "look"} => record # None /\ j.at \notin Preparing,
           j.at = "look" /\ j.cmd = "login" => record # None,
           j.at = "write" => j.saw \in States,
           j.at = "connect" \/ (j.at = "look" /\ j.cmd = "login") =>
               j.key = key \/ key = 0 \/ overlapped',
           j.at \in {"view", "write"} => SignedIn \in {Owner, Nobody},
           j.at \in Clearing => SignedIn = Nobody \/ raced
    PROVE  SessionInv'
<1>0. (record # None) = (record' # None)
  BY NoneAssumption
<1>1. Typed'
  BY DEF SessionInv, Typed
<1>2. job'[p] = j /\ \A q \in Procs : q # p => job'[q] = job[q]
  BY DEF SessionInv, Typed
<1>3. j.at \notin Preparing
  BY DEF Preparing, Steps
<1>4. Exclusive'
  BY <1>2 DEF SessionInv, Exclusive
<1>5. RecordFirst'
  BY <1>0, <1>2, <1>3 DEF SessionInv, RecordFirst
<1>6. Prepared'
  <2>1. j.at # "add"
    BY <1>3 DEF Preparing
  <2> QED
    BY <1>2, <1>3, <2>1 DEF SessionInv, Prepared
<1>7. KeyIsRead'
  BY <1>2 DEF SessionInv, KeyIsRead
<1>8. Recorded' /\ Cleared' /\ KeysAreKept'
  BY <1>2 DEF SessionInv, Recorded, Cleared, KeysAreKept, SignedIn
<1> QED
  BY <1>1, <1>4, <1>5, <1>6, <1>7, <1>8 DEF SessionInv

-----------------------------------------------------------------------------
LEMMA FinishKeeps ==
    ASSUME SessionInv, NEW p \in Procs, NEW end \in Ends, Finish(p, end),
           record' = record \/ (record # None /\ record' \in States),
           UNCHANGED <<key, issued, store, dropped, overlapped>>,
           raced' = raced \/ raced' = TRUE
    PROVE  SessionInv'
<1>1. job[p].cmd \in Commands \cup {None}
  BY DEF SessionInv, Typed, AnyJobs
<1>2. Job(job[p].cmd, end) \in AnyJobs /\ Job(job[p].cmd, end).at \in Ends
  BY <1>1, JobType DEF Job
<1> QED
  BY <1>2, EndKeeps DEF Finish

LEMMA StartKeeps ==
    ASSUME SessionInv, NEW p \in Procs, NEW c \in Commands, Start(p, c)
    PROVE  SessionInv'
<1> DEFINE j == Job(c, IF c = "prepare" THEN "look" ELSE "settings")
<1>1. j \in AnyJobs
  BY JobType DEF Steps
<1>2. j.at = "settings" \/ (j.at = "look" /\ j.cmd # "login")
  BY DEF Job
<1> QED
  BY <1>1, <1>2, EndKeeps DEF Start, ghosts

\* What a process that is past its first steps can rely on.
LEMMA PastFirst ==
    ASSUME SessionInv, NEW p \in Procs,
           job[p].at \in Steps \ {"settings", "look", "set", "add"}
    PROVE  record # None
BY DEF SessionInv, RecordFirst, Preparing

\* One field of what a process holds changes, or two.
LEMMA MovedType ==
    ASSUME Typed, NEW p \in Procs, NEW s \in Steps \cup Ends, NEW k \in Nat,
           NEW v \in States \cup {None}
    PROVE  /\ [job[p] EXCEPT !.at = s] \in AnyJobs
           /\ [job[p] EXCEPT !.key = k, !.at = s] \in AnyJobs
           /\ [job[p] EXCEPT !.at = s, !.saw = v] \in AnyJobs
BY DEF Typed, AnyJobs

LEMMA SettingsKeeps ==
    ASSUME SessionInv, NEW p \in Procs, Settings(p)
    PROVE  SessionInv'
<1>1. CASE record = None
  BY <1>1, FinishKeeps DEF Settings, ghosts, Ends
<1>2. CASE record # None
  <2> DEFINE j == [job[p] EXCEPT !.at = "key"]
  <2>1. j \in AnyJobs /\ j.at = "key"
    <3>1. Typed /\ "key" \in Steps
      BY DEF SessionInv, Steps
    <3> QED
      BY <3>1, MovedType DEF Typed, AnyJobs
  <2>2. job' = [job EXCEPT ![p] = j] /\ UNCHANGED <<record, key, issued, store, holder, ghosts>>
    BY <1>2 DEF Settings, Goes
  <2> QED
    BY <1>2, <2>1, <2>2, StepKeeps DEF ghosts, Connected, Preparing, Clearing
<1> QED
  BY <1>1, <1>2

LEMMA ReadKeyKeeps ==
    ASSUME SessionInv, NEW p \in Procs, ReadKey(p)
    PROVE  SessionInv'
<1>0. record # None
  BY PastFirst DEF ReadKey, At, Steps
<1>1. CASE key = 0
  BY <1>1, FinishKeeps DEF ReadKey, ghosts, Ends
<1>2. CASE key # 0
  <2> DEFINE s == IF job[p].cmd = "login" THEN "look" ELSE "connect"
             j == [job[p] EXCEPT !.key = key, !.at = s]
  <2>0. s \in {"look", "connect"} /\ key \in Nat /\ job[p] \in AnyJobs
    BY DEF SessionInv, Typed
  <2>1. j \in AnyJobs /\ j.at = s /\ j.key = key
    BY <2>0 DEF AnyJobs, Steps
  <2>2. job' = [job EXCEPT ![p] = j] /\ UNCHANGED <<record, key, issued, store, holder, ghosts>>
    BY <1>2 DEF ReadKey
  <2> QED
    BY <1>0, <2>0, <2>1, <2>2, StepKeeps DEF ghosts, Connected, Preparing, Clearing
<1> QED
  BY <1>1, <1>2

\* A login that looks has a record, so whoever finds none prepares.
LEMMA LookKeeps ==
    ASSUME SessionInv, NEW p \in Procs, Look(p)
    PROVE  SessionInv'
<1>0. /\ job[p].at = "look"
      /\ job[p].cmd = "login" => record # None
      /\ overlapped' = overlapped \/ overlapped' = TRUE
      /\ UNCHANGED <<record, key, issued, store, holder, dropped, raced>>
  <2>1. overlapped \in BOOLEAN
    BY DEF SessionInv, Typed
  <2>2. overlapped' = overlapped \/ overlapped' = TRUE
    BY <2>1 DEF Look
  <2>3. job[p].at = "look" /\ UNCHANGED <<record, key, issued, store, holder, dropped, raced>>
    BY DEF Look, At
  <2>4. job[p].cmd = "login" => record # None
    BY <2>3 DEF SessionInv, RecordFirst
  <2> QED
    BY <2>2, <2>3, <2>4
<1>1. CASE record # None /\ job[p].cmd = "login"
  <2> DEFINE j == [job[p] EXCEPT !.at = "connect"]
  <2>1. j \in AnyJobs /\ j.at = "connect" /\ j.key = job[p].key
    <3>1. Typed /\ "connect" \in Steps
      BY DEF SessionInv, Steps
    <3> QED
      BY <3>1, MovedType DEF Typed, AnyJobs
  <2>2. job' = [job EXCEPT ![p] = j]
    BY <1>1 DEF Look, Goes
  <2>3. j.key = key \/ key = 0 \/ overlapped'
    <3>1. CASE overlapped
      BY <1>0, <3>1 DEF SessionInv, Typed
    <3>2. CASE ~overlapped
      <4>1. job[p].key = key \/ key = 0
        BY <1>0, <1>1, <3>2 DEF SessionInv, KeyIsRead
      <4> HIDE DEF j
      <4> QED
        BY <2>1, <4>1
    <3> QED
      BY <3>1, <3>2
  <2> QED
    BY <1>0, <1>1, <2>1, <2>2, <2>3, StepKeeps DEF Connected, Preparing, Clearing
<1>2. CASE record # None /\ job[p].cmd # "login"
  <2> DEFINE j == [job[p] EXCEPT !.at = "done"]
  <2>0. Typed /\ "done" \in Ends
    BY DEF SessionInv, Ends
  <2>1. j \in AnyJobs /\ j.at \in Ends
    BY <2>0, MovedType DEF Typed, AnyJobs
  <2>2. job' = [job EXCEPT ![p] = j]
    BY <1>2 DEF Look, Goes
  <2> QED
    BY <1>0, <2>1, <2>2, EndKeeps
<1>3. CASE record = None
  <2> DEFINE j == [job[p] EXCEPT !.at = "set"]
  <2>1. j \in AnyJobs /\ j.at = "set" /\ j.cmd # "login"
    <3>1. Typed /\ "set" \in Steps /\ job[p] \in AnyJobs /\ job[p].cmd # "login"
      BY <1>0, <1>3 DEF SessionInv, Typed, Steps
    <3>2. j.at = "set" /\ j.cmd = job[p].cmd
      BY <3>1 DEF AnyJobs
    <3> QED
      BY <3>1, <3>2, MovedType
  <2>2. job' = [job EXCEPT ![p] = j]
    BY <1>3 DEF Look, Goes
  <2>3. job'[p] = j /\ \A q \in Procs : q # p => job'[q] = job[q]
    BY <2>2 DEF SessionInv, Typed
  <2>4. ~overlapped' => ~overlapped /\ \A q \in Procs : job[q].at \notin Preparing
    BY DEF Look, Preparing
  <2>5. Typed'
    BY <1>0, <2>1, <2>2 DEF SessionInv, Typed
  <2>6. Exclusive' /\ RecordFirst'
    BY <1>0, <2>1, <2>3 DEF SessionInv, Exclusive, Connected, RecordFirst, Preparing
  <2>7. Prepared'
    BY <1>0, <1>3, <2>1, <2>3, <2>4, ZenonT(40) DEF SessionInv, Prepared, Preparing
  <2>8. KeyIsRead' /\ Recorded' /\ Cleared' /\ KeysAreKept'
    BY <1>0, <2>1, <2>3, <2>4 DEF SessionInv, KeyIsRead, Recorded, Cleared, Clearing, KeysAreKept, SignedIn
  <2> QED
    BY <2>5, <2>6, <2>7, <2>8 DEF SessionInv
<1> QED
  BY <1>1, <1>2, <1>3

\* The key is stored before the record, and while no record is there no store
\* is, whose key it could differ from.
LEMMA SetKeyKeeps ==
    ASSUME SessionInv, NEW p \in Procs, SetKey(p)
    PROVE  SessionInv'
<1> DEFINE j == [job[p] EXCEPT !.at = "add"]
<1>1. job[p].at = "set" /\ key' # 0 /\ key' \in Nat /\ issued' \in Nat
  BY DEF SetKey, At, SessionInv, Typed
<1>2. /\ j \in AnyJobs /\ j.at = "add" /\ j.cmd = job[p].cmd
      /\ job' = [job EXCEPT ![p] = j]
      /\ UNCHANGED <<record, store, holder, ghosts>>
  BY MovedType, ZenonT(40) DEF SetKey, Goes, SessionInv, Typed, AnyJobs, Steps
<1>3. job'[p] = j /\ \A q \in Procs : q # p => job'[q] = job[q]
  BY <1>2 DEF SessionInv, Typed
<1>4. ~overlapped => record = None /\ store = None
  BY <1>1 DEF SessionInv, Prepared, Preparing, RecordFirst
<1>5. Typed'
  BY <1>1, <1>2 DEF SessionInv, Typed, ghosts
<1>6. Exclusive' /\ RecordFirst'
  BY <1>1, <1>2, <1>3 DEF SessionInv, Exclusive, Connected, RecordFirst, Preparing
<1>7. Prepared'
  BY <1>1, <1>2, <1>3 DEF SessionInv, Prepared, Preparing, ghosts
<1>8. KeyIsRead'
  <2>1. \A q \in Procs : ~overlapped =>
           ~(job'[q].at = "connect" \/ (job'[q].at = "look" /\ job'[q].cmd = "login"))
    BY <1>2, <1>3, <1>4 DEF SessionInv, RecordFirst, Steps, Preparing
  <2> QED
    BY <1>2, <2>1 DEF KeyIsRead, ghosts
<1>9. Recorded' /\ Cleared' /\ KeysAreKept'
  BY <1>1, <1>2, <1>3, <1>4 DEF SessionInv, Recorded, Cleared, Clearing, KeysAreKept, SignedIn, ghosts
<1> QED
  BY <1>5, <1>6, <1>7, <1>8, <1>9 DEF SessionInv

\* The record is added under a key that was stored before it.
LEMMA AddRecordKeeps ==
    ASSUME SessionInv, NEW p \in Procs, AddRecord(p)
    PROVE  SessionInv'
<1> DEFINE s == IF record # None THEN "failed" ELSE "done"
           j == [job[p] EXCEPT !.at = s]
<1>1. /\ job[p].at = "add"
      /\ record' = IF record = None THEN "unauthorized" ELSE record
      /\ UNCHANGED <<key, issued, store, holder, dropped, overlapped, raced>>
  BY DEF AddRecord, At, ghosts
<1>2. job[p].cmd # "login" /\ (key # 0 \/ dropped)
  BY <1>1 DEF SessionInv, RecordFirst, Prepared, Preparing
<1>3. Typed /\ s \in Ends
  BY DEF SessionInv, Ends
<1>4. job' = [job EXCEPT ![p] = j]
  BY <1>2 DEF AddRecord, Goes
<1>5. j \in AnyJobs /\ j.at = s
  BY <1>3, MovedType DEF Typed, AnyJobs
<1>6. job'[p] = j /\ \A q \in Procs : q # p => job'[q] = job[q]
  BY <1>3, <1>4 DEF Typed
<1> HIDE DEF j, s
<1>7. j.at \notin Steps \cup Connected \cup Clearing \cup Preparing
  BY <1>3, <1>5 DEF Ends, Steps, Connected, Clearing, Preparing
<1>8. record' # None /\ record' \in States
  BY <1>1, <1>3, NoneAssumption DEF Typed, States
<1>9. Typed'
  BY <1>1, <1>3, <1>4, <1>5, <1>8 DEF Typed
<1>10. Exclusive' /\ RecordFirst'
  <2>1. j.at # "write" /\ j.at # "look"
    BY <1>7 DEF Steps
  <2> QED
    BY <1>1, <1>6, <1>7, <1>8, <2>1 DEF SessionInv, Exclusive, RecordFirst
<1>11. Prepared'
  <2>1. ~overlapped => \A q \in Procs : job[q].at \in Preparing => q = p
    BY <1>1 DEF SessionInv, Prepared, Preparing
  <2>2. j.at # "add"
    BY <1>7 DEF Steps
  <2> QED
    BY <1>1, <1>6, <1>7, <2>1, <2>2 DEF SessionInv, Prepared
<1>12. KeyIsRead' /\ Recorded' /\ Cleared' /\ KeysAreKept'
  <2>1. j.at \notin {"connect", "look", "view", "write"}
    BY <1>7 DEF Steps
  <2> QED
    BY <1>1, <1>2, <1>6, <1>7, <2>1
       DEF SessionInv, KeyIsRead, Recorded, Cleared, KeysAreKept, SignedIn
<1> QED
  BY <1>9, <1>10, <1>11, <1>12 DEF SessionInv

\* A store is made with the key its command has read, and nobody is signed in.
LEMMA ConnectKeeps ==
    ASSUME SessionInv, NEW p \in Procs, Connect(p)
    PROVE  SessionInv'
<1>1. CASE ~Opens(p)
  BY <1>1, FinishKeeps DEF Connect, ghosts, Ends
<1>2. CASE Opens(p)
  <2> DEFINE s == CASE job[p].cmd = "login" -> "authorize"
                    [] job[p].cmd = "logout" -> "read"
                    [] OTHER -> "fetch"
             j == [job[p] EXCEPT !.at = s]
  <2>1. /\ job[p].at = "connect" /\ holder = {} /\ holder' = {p}
        /\ store' = IF store = None THEN [key |-> job[p].key, who |-> Nobody] ELSE store
        /\ job' = [job EXCEPT ![p] = j]
        /\ UNCHANGED <<record, key, issued, dropped, overlapped, raced>>
    BY <1>2 DEF Connect, At, Opens, Goes, ghosts
  <2>2. Typed /\ s \in {"authorize", "read", "fetch"} /\ s \in Steps \cup Ends
    BY DEF SessionInv, Steps
  <2>3. j \in AnyJobs /\ j.at = s
    BY <2>2, MovedType DEF Typed, AnyJobs
  <2>4. job'[p] = j /\ \A q \in Procs : q # p => job'[q] = job[q]
    BY <2>1, <2>2 DEF Typed
  <2> HIDE DEF j, s
  <2>5. record # None
    BY <2>1, PastFirst DEF Steps
  <2>6. store # None => store' = store
    BY <2>1
  <2>7. store = None => store' = [key |-> job[p].key, who |-> Nobody]
    BY <2>1
  <2>8. Typed'
    BY <2>1, <2>2, <2>3 DEF Typed, AnyJobs, People
  <2>9. Exclusive'
    <3>1. \A q \in Procs : job[q].at \notin Connected
      BY <2>1 DEF SessionInv, Exclusive
    <3> QED
      BY <2>1, <2>4, <3>1 DEF Exclusive
  <2>10. RecordFirst' /\ Prepared'
    BY <2>1, <2>2, <2>3, <2>4, <2>5 DEF SessionInv, RecordFirst, Prepared, Preparing
  <2>11. KeyIsRead'
    BY <2>1, <2>2, <2>3, <2>4 DEF SessionInv, KeyIsRead
  <2>12. SignedIn' = SignedIn
    BY <2>6, <2>7 DEF SignedIn
  <2>13. Recorded' /\ Cleared'
    BY <2>1, <2>2, <2>3, <2>4, <2>12 DEF SessionInv, Recorded, Cleared, Clearing
  <2>14. KeysAreKept'
    <3>1. job[p].key = key \/ key = 0 \/ overlapped
      BY <2>1 DEF SessionInv, KeyIsRead
    <3> QED
      BY <2>1, <2>6, <2>7, <3>1 DEF SessionInv, KeysAreKept
  <2> QED
    BY <2>8, <2>9, <2>10, <2>11, <2>13, <2>14 DEF SessionInv
<1> QED
  BY <1>1, <1>2

\* Who is signed in changes, or the store goes, and one command moves on.
LEMMA StoreKeeps ==
    ASSUME SessionInv, NEW p \in Procs, NEW j \in AnyJobs,
           job' = [job EXCEPT ![p] = j],
           store' = None \/ \E who \in People \cup {Nobody} :
                              store # None /\ store' = [store EXCEPT !.who = who],
           UNCHANGED <<record, key, issued, dropped, overlapped>>,
           j.at \in {"identify", "mark", "forget"},
           j.at = "identify" => holder' = holder /\ holder = {p},
           j.at # "identify" => holder' = holder \ {p},
           record # None,
           raced' = raced \/ raced' = TRUE,
           \/ SignedIn' = SignedIn
           \/ SignedIn' = Nobody
           \/ /\ \A q \in Procs : q # p => job[q].at \notin {"view", "write"}
              /\ \A q \in Procs : q # p /\ job[q].at \in Clearing => raced',
           j.at \in Clearing => SignedIn' = Nobody \/ raced'
    PROVE  SessionInv'
<1>1. job'[p] = j /\ \A q \in Procs : q # p => job'[q] = job[q]
  BY DEF SessionInv, Typed
<1>2. Typed'
  BY DEF SessionInv, Typed
<1>3. Exclusive'
  <2> SUFFICES ASSUME NEW q \in Procs, job'[q].at \in Connected PROVE holder' = {q}
    BY DEF Exclusive
  <2>1. CASE q = p
    BY <1>1, <2>1 DEF Connected
  <2>2. CASE q # p
    BY <1>1, <2>2 DEF SessionInv, Exclusive
  <2> QED
    BY <2>1, <2>2
<1>4. RecordFirst' /\ Prepared'
  BY <1>1 DEF SessionInv, RecordFirst, Prepared, Preparing
<1>5. KeyIsRead' /\ KeysAreKept'
  <2>1. store' # None => store # None /\ store'.key = store.key
    BY DEF SessionInv, Typed
  <2> QED
    BY <1>1, <2>1 DEF SessionInv, KeyIsRead, KeysAreKept
<1>6. Recorded'
  <2> SUFFICES ASSUME NEW q \in Procs, job'[q].at \in {"view", "write"}
               PROVE  SignedIn' \in {Owner, Nobody}
    BY DEF Recorded
  <2>1. q # p /\ job[q].at \in {"view", "write"}
    BY <1>1
  <2> QED
    BY <2>1 DEF SessionInv, Recorded
<1>7. Cleared'
  <2> SUFFICES ASSUME NEW q \in Procs, job'[q].at \in Clearing
               PROVE  SignedIn' = Nobody \/ raced'
    BY DEF Cleared
  <2>1. CASE q = p
    BY <1>1, <2>1
  <2>2. CASE q # p
    <3>1. job[q].at \in Clearing
      BY <1>1, <2>2
    <3>2. SignedIn = Nobody \/ raced
      BY <3>1 DEF SessionInv, Cleared
    <3> QED
      BY <2>2, <3>1, <3>2
  <2> QED
    BY <2>1, <2>2
<1> QED
  BY <1>2, <1>3, <1>4, <1>5, <1>6, <1>7 DEF SessionInv

\* One person at most signs in, where nobody else is connected.
LEMMA AuthorizeKeeps ==
    ASSUME SessionInv, NEW p \in Procs, Authorize(p)
    PROVE  SessionInv'
<1>1. /\ job[p].at = "authorize" /\ holder = {p} /\ record # None
      /\ UNCHANGED <<record, key, issued, dropped, overlapped>>
  <2>1. job[p].at = "authorize" /\ UNCHANGED <<record, key, issued, dropped, overlapped>>
    BY DEF Authorize, At
  <2> QED
    BY <2>1, PastFirst DEF Steps, SessionInv, Exclusive, Connected
<1>2. raced \in BOOLEAN /\ raced' = (raced \/ \E q \in Procs : job[q].at \in Clearing)
  BY DEF Authorize, SessionInv, Typed, Clearing
<1>3. CASE store = None
  BY <1>1, <1>2, <1>3, FinishKeeps DEF Authorize, Ends
<1>4. CASE store # None
  <2> DEFINE j == [job[p] EXCEPT !.at = "identify"]
  <2>1. j \in AnyJobs /\ j.at = "identify"
    <3>1. Typed /\ "identify" \in Steps
      BY DEF SessionInv, Steps
    <3> QED
      BY <3>1, MovedType DEF Typed, AnyJobs
  <2>2. job' = [job EXCEPT ![p] = j] /\ holder' = holder
    BY <1>4 DEF Authorize, Goes
  <2>3. PICK who \in People : store' = [store EXCEPT !.who = IF @ = Nobody THEN who ELSE @]
    BY <1>4 DEF Authorize
  <2>4. \E w \in People \cup {Nobody} : store' = [store EXCEPT !.who = w]
    BY <1>4, <2>3 DEF SessionInv, Typed
  <2>5. \A q \in Procs : q # p => job[q].at \notin {"view", "write"}
    BY <1>1 DEF SessionInv, Exclusive, Connected
  <2> HIDE DEF j
  <2> QED
    BY <1>1, <1>2, <1>4, <2>1, <2>2, <2>4, <2>5, StoreKeeps DEF Clearing
<1> QED
  BY <1>3, <1>4

\* Only the account's person gets past the comparison.
LEMMA IdentifyKeeps ==
    ASSUME SessionInv, NEW p \in Procs, Identify(p)
    PROVE  SessionInv'
<1>1. /\ job[p].at = "identify" /\ holder = {p} /\ record # None
      /\ UNCHANGED <<record, key, issued, store, dropped, overlapped, raced>>
  <2>1. job[p].at = "identify" /\ UNCHANGED <<record, key, issued, store, dropped, overlapped, raced>>
    BY DEF Identify, At, ghosts
  <2> QED
    BY <2>1, PastFirst DEF Steps, SessionInv, Exclusive, Connected
<1>2. CASE SignedIn # Owner
  <2>1. SignedIn = Nobody \/ SignedIn \in Others
    BY <1>2 DEF SessionInv, Typed, SignedIn, People
  <2>2. Finish(p, "failed") \/ Finish(p, "refused")
    BY <1>2, <2>1, PeopleAssumption DEF Identify
  <2> QED
    BY <1>1, <2>2, FinishKeeps DEF Ends
<1>3. CASE SignedIn = Owner
  <2> DEFINE j == [job[p] EXCEPT !.at = "view"]
  <2>1. j \in AnyJobs /\ j.at = "view"
    <3>1. Typed /\ "view" \in Steps
      BY DEF SessionInv, Steps
    <3> QED
      BY <3>1, MovedType DEF Typed, AnyJobs
  <2>2. job' = [job EXCEPT ![p] = j] /\ holder' = holder
    BY <1>3, PeopleAssumption DEF Identify, Goes
  <2> HIDE DEF j
  <2> QED
    BY <1>1, <1>3, <2>1, <2>2, StepKeeps DEF Preparing, Clearing
<1> QED
  BY <1>2, <1>3

LEMMA ViewKeeps ==
    ASSUME SessionInv, NEW p \in Procs, View(p)
    PROVE  SessionInv'
<1> DEFINE v == IF SignedIn = Nobody THEN "logged_out" ELSE "ready"
           j == [job[p] EXCEPT !.at = "write", !.saw = v]
<1>1. /\ job[p].at = "view" /\ job' = [job EXCEPT ![p] = j]
      /\ UNCHANGED <<record, key, issued, store, holder, dropped, overlapped, raced>>
  BY DEF View, At, ghosts
<1>2. Typed /\ v \in States /\ "write" \in Steps
  BY DEF SessionInv, States, Steps
<1>3. j \in AnyJobs /\ j.at = "write" /\ j.saw = v
  BY <1>2, MovedType, ZenonT(40) DEF Typed, AnyJobs
<1>4. holder = {p} /\ record # None /\ SignedIn \in {Owner, Nobody}
  BY <1>1, PastFirst DEF SessionInv, Exclusive, Connected, Recorded, Steps
<1> HIDE DEF j, v
<1> QED
  BY <1>1, <1>2, <1>3, <1>4, StepKeeps DEF Preparing, Clearing

LEMMA WriteRecordKeeps ==
    ASSUME SessionInv, NEW p \in Procs, WriteRecord(p)
    PROVE  SessionInv'
<1>1. record # None /\ record' \in States
  BY DEF WriteRecord, At, SessionInv, RecordFirst
<1> QED
  BY <1>1, FinishKeeps DEF WriteRecord, ghosts, Ends

LEMMA ReadRecordKeeps ==
    ASSUME SessionInv, NEW p \in Procs, ReadRecord(p)
    PROVE  SessionInv'
<1>1. /\ job[p].at = "read" /\ holder = {p} /\ record # None
      /\ UNCHANGED <<record, key, issued, store, dropped, overlapped, raced>>
  <2>1. job[p].at = "read" /\ UNCHANGED <<record, key, issued, store, dropped, overlapped, raced>>
    BY DEF ReadRecord, At, ghosts
  <2> QED
    BY <2>1, PastFirst DEF Steps, SessionInv, Exclusive, Connected
<1> DEFINE j == [job[p] EXCEPT !.at = "tell"]
<1>2. j \in AnyJobs /\ j.at = "tell"
  <2>1. Typed /\ "tell" \in Steps
    BY DEF SessionInv, Steps
  <2> QED
    BY <2>1, MovedType DEF Typed, AnyJobs
<1>3. job' = [job EXCEPT ![p] = j] /\ holder' = holder
  BY <1>1 DEF ReadRecord, Goes
<1> HIDE DEF j
<1> QED
  BY <1>1, <1>2, <1>3, StepKeeps DEF Preparing, Clearing

\* Telegram has ended the login before anything is cleared up.
LEMMA TellKeeps ==
    ASSUME SessionInv, NEW p \in Procs, Tell(p)
    PROVE  SessionInv'
<1> DEFINE j == Job(job[p].cmd, "mark")
<1>1. /\ job[p].at = "tell" /\ job' = [job EXCEPT ![p] = j] /\ holder' = holder \ {p}
      /\ store' = IF store = None THEN None ELSE [store EXCEPT !.who = Nobody]
      /\ UNCHANGED <<record, key, issued, dropped, overlapped, raced>>
  BY DEF Tell, At, Finish, ghosts
<1>2. j \in AnyJobs /\ j.at = "mark"
  <2>1. job[p].cmd \in Commands \cup {None} /\ "mark" \in Steps \cup Ends
    BY DEF SessionInv, Typed, AnyJobs, Steps
  <2> QED
    BY <2>1, JobType DEF Job
<1>3. record # None
  BY <1>1, PastFirst DEF Steps
<1>4. SignedIn' = Nobody
  BY <1>1 DEF SignedIn, SessionInv, Typed
<1>5. store' = None \/ \E who \in People \cup {Nobody} :
                           store # None /\ store' = [store EXCEPT !.who = who]
  BY <1>1
<1> HIDE DEF j
<1> QED
  BY <1>1, <1>2, <1>3, <1>4, <1>5, StoreKeeps DEF Clearing

LEMMA MarkKeeps ==
    ASSUME SessionInv, NEW p \in Procs, Mark(p)
    PROVE  SessionInv'
<1> DEFINE j == [job[p] EXCEPT !.at = "destroy"]
<1>1. /\ job[p].at = "mark" /\ job' = [job EXCEPT ![p] = j] /\ record' \in States
      /\ UNCHANGED <<key, issued, store, holder, dropped, overlapped, raced>>
  BY DEF Mark, At, Goes, States, ghosts
<1>2. j \in AnyJobs /\ j.at = "destroy"
  <2>1. Typed /\ "destroy" \in Steps
    BY DEF SessionInv, Steps
  <2> QED
    BY <2>1, MovedType DEF Typed, AnyJobs
<1>3. record # None /\ (SignedIn = Nobody \/ raced)
  BY <1>1, PastFirst DEF Steps, SessionInv, Cleared, Clearing
<1> HIDE DEF j
<1> QED
  BY <1>1, <1>2, <1>3, StepKeeps DEF Connected, Preparing

LEMMA DestroyKeeps ==
    ASSUME SessionInv, NEW p \in Procs, Destroy(p)
    PROVE  SessionInv'
<1> DEFINE j == [job[p] EXCEPT !.at = "forget"]
<1>1. /\ job[p].at = "destroy" /\ job' = [job EXCEPT ![p] = j] /\ store' \in {store, None}
      /\ UNCHANGED <<record, key, issued, holder, dropped, overlapped, raced>>
  BY DEF Destroy, At, Goes, ghosts
<1>2. j \in AnyJobs /\ j.at = "forget"
  <2>1. Typed /\ "forget" \in Steps
    BY DEF SessionInv, Steps
  <2> QED
    BY <2>1, MovedType DEF Typed, AnyJobs
<1>3. record # None /\ (SignedIn = Nobody \/ raced)
  BY <1>1, PastFirst DEF Steps, SessionInv, Cleared, Clearing
<1> HIDE DEF j
<1>4. CASE store' = store
  BY <1>1, <1>2, <1>3, <1>4, StepKeeps DEF Connected, Preparing
<1>5. CASE store' = None
  <2>1. SignedIn' = Nobody
    BY <1>5 DEF SignedIn
  <2>2. job'[p] = j /\ \A q \in Procs : q # p => job'[q] = job[q]
    BY <1>1 DEF SessionInv, Typed
  <2>3. Typed'
    BY <1>1, <1>2, <1>5 DEF SessionInv, Typed
  <2>4. Exclusive' /\ RecordFirst' /\ Prepared'
    BY <1>1, <1>2, <1>3, <1>5, <2>2
       DEF SessionInv, Exclusive, Connected, RecordFirst, Prepared, Preparing
  <2>5. KeyIsRead' /\ KeysAreKept'
    BY <1>1, <1>2, <1>5, <2>2 DEF SessionInv, KeyIsRead, KeysAreKept
  <2>6. Recorded' /\ Cleared'
    BY <2>1 DEF Recorded, Cleared
  <2> QED
    BY <2>3, <2>4, <2>5, <2>6 DEF SessionInv
<1> QED
  BY <1>1, <1>4, <1>5

LEMMA ForgetKeeps ==
    ASSUME SessionInv, NEW p \in Procs, Forget(p)
    PROVE  SessionInv'
<1> DEFINE j == [job[p] EXCEPT !.at = "done"]
<1>1. /\ job[p].at = "forget" /\ job' = [job EXCEPT ![p] = j]
      /\ (key' = 0 /\ dropped' = TRUE) \/ UNCHANGED <<key, dropped>>
      /\ UNCHANGED <<record, issued, store, holder, overlapped, raced>>
  BY DEF Forget, At, Goes
<1>2. Typed /\ "done" \in Ends
  BY DEF SessionInv, Ends
<1>3. j \in AnyJobs /\ j.at = "done"
  BY <1>2, MovedType DEF Typed, AnyJobs
<1>4. job'[p] = j /\ \A q \in Procs : q # p => job'[q] = job[q]
  BY <1>1, <1>2 DEF Typed
<1> HIDE DEF j
<1>5. Typed'
  <2>1. key' \in Nat
    BY <1>1, <1>2 DEF Typed
  <2>2. dropped' \in BOOLEAN
    BY <1>1, <1>2 DEF Typed
  <2>3. job' \in [Procs -> AnyJobs]
    BY <1>1, <1>2, <1>3 DEF Typed
  <2> QED
    BY <1>1, <1>2, <2>1, <2>2, <2>3 DEF Typed
<1>6. Exclusive' /\ RecordFirst' /\ Prepared'
  BY <1>1, <1>3, <1>4
     DEF SessionInv, Exclusive, Connected, RecordFirst, Steps, Prepared, Preparing
<1>7. KeyIsRead' /\ KeysAreKept' /\ Recorded' /\ Cleared'
  BY <1>1, <1>3, <1>4
     DEF SessionInv, KeyIsRead, KeysAreKept, Recorded, Cleared, Clearing, SignedIn
<1> QED
  BY <1>5, <1>6, <1>7 DEF SessionInv

LEMMA RevokeKeeps ==
    ASSUME SessionInv, Revoke
    PROVE  SessionInv'
<1>1. /\ store # None /\ store' = [store EXCEPT !.who = Nobody]
      /\ UNCHANGED <<record, key, issued, holder, job, ghosts>>
  BY DEF Revoke, SignedIn
<1>2. SignedIn' = Nobody
  BY <1>1 DEF SignedIn, SessionInv, Typed
<1>3. Typed' /\ (store' # None => store'.key = store.key)
  BY <1>1 DEF SessionInv, Typed, ghosts
<1>4. Exclusive' /\ RecordFirst' /\ Prepared'
  BY <1>1 DEF SessionInv, Exclusive, RecordFirst, Prepared, ghosts
<1>5. KeyIsRead' /\ KeysAreKept' /\ Recorded' /\ Cleared'
  BY <1>1, <1>2, <1>3 DEF SessionInv, KeyIsRead, KeysAreKept, Recorded, Cleared, ghosts
<1> QED
  BY <1>3, <1>4, <1>5 DEF SessionInv

-----------------------------------------------------------------------------
LEMMA SessionNextInv ==
    ASSUME SessionInv, [Next]_vars
    PROVE  SessionInv'
<1>1. CASE UNCHANGED vars
  BY <1>1 DEF vars, SessionInv, Typed, Exclusive, RecordFirst, Prepared, KeyIsRead, Recorded, Cleared,
              KeysAreKept, SignedIn
<1>2. ASSUME NEW p \in Procs, Import(p) \/ Fail(p) PROVE SessionInv'
  BY <1>2, FinishKeeps DEF Import, Fail, ghosts, Ends
<1>3. ASSUME NEW p \in Procs, Step(p) PROVE SessionInv'
  BY <1>2, <1>3, SettingsKeeps, ReadKeyKeeps, LookKeeps, SetKeyKeeps, AddRecordKeeps, ConnectKeeps,
     AuthorizeKeeps, IdentifyKeeps, ViewKeeps, WriteRecordKeeps, ReadRecordKeeps, TellKeeps, MarkKeeps,
     DestroyKeeps, ForgetKeeps
     DEF Step
<1> QED
  BY <1>1, <1>2, <1>3, StartKeeps, RevokeKeeps DEF Next

\* Every reachable state satisfies the inductive invariant.
THEOREM SessionInvariant == Spec => []SessionInv
BY SessionInitInv, SessionNextInv, PTL DEF Spec

\* A record has its key until a logout has deleted it, and the key opens the
\* store, whatever was killed where (session.py, PrepareSession).
THEOREM KeysAreAlwaysKept == Spec => []KeysAreKept
BY SessionInvariant, PTL DEF SessionInv

\* A session is recorded as ready only when the account's own person is signed
\* in or nobody any more (authenticate.py, _require_same_person).
THEOREM ReadyIsAlwaysTheOwners == Spec => ReadyIsTheOwners
<1>1. SessionInv /\ [Next]_vars
        => [record' # record /\ record' = "ready" => SignedIn \in {Owner, Nobody}]_vars
  <2> SUFFICES ASSUME SessionInv, Next, record' # record, record' = "ready"
               PROVE  SignedIn \in {Owner, Nobody}
    OBVIOUS
  <2>1. PICK p \in Procs : WriteRecord(p)
    BY DEF Next, Step, Fail, Start, Revoke, Settings, ReadKey, Look, SetKey, AddRecord, Connect,
           Authorize, Identify, View, ReadRecord, Tell, Mark, Destroy, Forget, Import
  <2> QED
    BY <2>1 DEF WriteRecord, At, SessionInv, Recorded
<1> QED
  BY <1>1, SessionInvariant, PTL DEF Spec, ReadyIsTheOwners

\* The store and its key are destroyed only when the login in it has ended
\* (authenticate.py, LogOutAccount).
THEOREM DestroyedIsAlwaysOver == Spec => DestroyedIsOver
<1>1. SessionInv /\ [Next]_vars
        => [(store # None /\ store' = None) \/ (key # 0 /\ key' = 0)
               => SignedIn = Nobody \/ raced]_vars
  <2> SUFFICES ASSUME SessionInv, Next, (store # None /\ store' = None) \/ (key # 0 /\ key' = 0)
               PROVE  SignedIn = Nobody \/ raced
    OBVIOUS
  <2>1. CASE \E p \in Procs : job[p].at \in Clearing
    BY <2>1 DEF SessionInv, Cleared
  <2>2. CASE \A p \in Procs : job[p].at \notin Clearing
    <3> SUFFICES SignedIn = Nobody
      OBVIOUS
    <3>1. key' = 0 => key' = key
      <4>1. \A p \in Procs : SetKey(p) => key' # 0
        BY DEF SetKey, SessionInv, Typed
      <4> QED
        BY <2>2, <4>1 DEF Clearing, Next, Step, Fail, Start, Revoke, Settings, ReadKey, Look, AddRecord,
               Connect, Authorize, Identify, View, WriteRecord, ReadRecord, Tell, Mark, Destroy, Forget,
               Import, At
    <3>2. CASE store # None /\ store' = None
      <4>1. store \in [key : Nat, who : People \cup {Nobody}]
        BY <3>2 DEF SessionInv, Typed
      <4>2. \A who \in People \cup {Nobody} : [store EXCEPT !.who = who] # None
        BY <4>1, NoneAssumption
      <4>3. \A p \in Procs : ~Authorize(p) /\ ~Tell(p) /\ ~Connect(p)
        BY <3>2, <4>1, <4>2 DEF Authorize, Tell, Connect
      <4>4. ~Revoke
        BY <3>2, <4>2 DEF Revoke
      <4> QED
        BY <2>2, <3>2, <4>3, <4>4 DEF Clearing, Next, Step, Fail, Start, Settings, ReadKey, Look, SetKey,
               AddRecord, Identify, View, WriteRecord, ReadRecord, Mark, Destroy, Forget, Import, At
    <3> QED
      BY <3>1, <3>2
  <2> QED
    BY <2>1, <2>2
<1> QED
  BY <1>1, SessionInvariant, PTL DEF Spec, DestroyedIsOver

-----------------------------------------------------------------------------
(***************************************************************************)
(* The schema: where the stamp, the objects and every migration may be.    *)
(***************************************************************************)
\* A process on its way has its goal ahead of it.
Ahead(w) == w.at \in {"statement", "stamp"} => IF w.upward THEN w.base < w.goal ELSE w.goal < w.base

SchemaInv == SchemaTypeOK /\ \A p \in Shells : Ahead(work[p])

-----------------------------------------------------------------------------
LEMMA SchemaInitInv == SchemaInit => SchemaInv
BY RevisionsAssumption, PartsAssumption, MaxRunsAssumption
   DEF SchemaInit, SchemaInv, SchemaTypeOK, Ahead, Work, Rests, Objects

\* A step that only moves a process to a place without a revision keeps all.
LEMMA MovesKeeps ==
    ASSUME SchemaInv, NEW p \in Shells, NEW place \in Rests \cup {"report", "plan"}, Moves(p, place),
           torn' \subseteq 1..Newest, UNCHANGED <<stamp, objects, runs>>
    PROVE  SchemaInv'
BY DEF SchemaInv, SchemaTypeOK, Ahead, Work, Rests, Moves

LEMMA RevisionType ==
    ASSUME SchemaInv, NEW p \in Shells, work[p].at \in {"statement", "stamp"}
    PROVE  Revision(work[p]) \in 1..Newest
BY RevisionsAssumption DEF SchemaInv, SchemaTypeOK, Ahead, Work, Revision

LEMMA TornType ==
    ASSUME SchemaInv, NEW p \in Shells, Leaves(p)
    PROVE  torn' \subseteq 1..Newest
BY RevisionType DEF SchemaInv, SchemaTypeOK, Leaves, Halfway

LEMMA BeginsKeeps ==
    ASSUME SchemaInv, NEW p \in Shells, StartContainer(p) \/ MigrateTo(p) \/ DowngradeTo(p)
    PROVE  SchemaInv'
<1>1. ASSUME NEW isStart \in BOOLEAN, NEW isUp \in BOOLEAN, NEW target \in 0..Newest,
             NEW place \in {"status", "report", "plan"}, Runs(p, isStart, isUp, target, place)
      PROVE  SchemaInv'
  <2>1. [at |-> place, start |-> isStart, upward |-> isUp, goal |-> target, base |-> 0, part |-> 1]
           \in Work
    BY <1>1, RevisionsAssumption, PartsAssumption DEF Work, Rests
  <2> QED
    BY <1>1, <2>1, MaxRunsAssumption DEF Runs, SchemaInv, SchemaTypeOK, Ahead
<1>2. Knows[p] \in 0..Newest /\ Newest \in Nat
  BY RevisionsAssumption
<1>3. CASE StartContainer(p)
  BY <1>1, <1>2, <1>3 DEF StartContainer
<1>4. CASE MigrateTo(p)
  <2>1. PICK target \in 1..Knows[p] : Runs(p, FALSE, TRUE, target, "report")
    BY <1>4 DEF MigrateTo
  <2>2. target \in 0..Newest
    BY <1>2, <2>1
  <2> QED
    BY <1>1, <2>1, <2>2
<1>5. CASE DowngradeTo(p)
  <2>1. PICK target \in 0..Knows[p] : Runs(p, FALSE, FALSE, target, "plan")
    BY <1>5 DEF DowngradeTo
  <2>2. target \in 0..Newest
    BY <1>2, <2>1
  <2> QED
    BY <1>1, <2>1, <2>2
<1> QED
  BY <1>3, <1>4, <1>5

LEMMA PlanKeeps ==
    ASSUME SchemaInv, NEW p \in Shells, Plan(p)
    PROVE  SchemaInv'
<1> DEFINE w == [work[p] EXCEPT !.base = stamp]
<1>1. w \in Work /\ First(w) \in 1..Parts
  BY PartsAssumption DEF SchemaInv, SchemaTypeOK, Work, First
<1>2. PICK place \in {"failed", "up", "done", "statement"} :
          /\ work' = [work EXCEPT ![p] = [w EXCEPT !.part = First(w), !.at = place]]
          /\ place = "statement" => IF w.upward THEN stamp < w.goal ELSE w.goal < stamp
  <2>1. w.goal \in 0..Newest /\ stamp \in 0..Newest /\ w.upward \in BOOLEAN
    BY <1>1 DEF SchemaInv, SchemaTypeOK, Work
  <2>2. PICK place : /\ place = CASE Unknown(p) \/ (~w.upward /\ w.goal > stamp) -> "failed"
                                  [] ~Unknown(p) /\ (IF w.upward THEN w.goal <= stamp
                                                     ELSE w.goal = stamp) -> Over(p)
                                  [] OTHER -> "statement"
                     /\ work' = [work EXCEPT ![p] = [w EXCEPT !.part = First(w), !.at = place]]
    BY DEF Plan
  <2>3. place \in {"failed", "up", "done", "statement"}
    BY <2>2 DEF Over
  <2>4. place = "statement" => IF w.upward THEN stamp < w.goal ELSE w.goal < stamp
    BY <2>1, <2>2, RevisionsAssumption DEF Over
  <2> QED
    BY <2>2, <2>3, <2>4
<1>3. [w EXCEPT !.part = First(w), !.at = place] \in Work
  BY <1>1 DEF Work, Rests
<1>4. Ahead([w EXCEPT !.part = First(w), !.at = place])
  BY <1>1, <1>2 DEF Ahead, Work
<1>5. UNCHANGED <<stamp, objects, runs, torn>>
  BY DEF Plan
<1> QED
  BY <1>2, <1>3, <1>4, <1>5 DEF SchemaInv, SchemaTypeOK

LEMMA StatementKeeps ==
    ASSUME SchemaInv, NEW p \in Shells, Statement(p)
    PROVE  SchemaInv'
<1> DEFINE w == work[p]
           place == IF w.part = Last(w) THEN "stamp" ELSE "statement"
           part == IF w.part = Last(w) THEN w.part ELSE IF w.upward THEN w.part + 1 ELSE w.part - 1
<1>1. CASE ~Applies(w)
  BY <1>1, MovesKeeps, TornType DEF Statement, Rests
<1>2. CASE Applies(w)
  <2>1. part \in 1..Parts
    BY PartsAssumption DEF SchemaInv, SchemaTypeOK, Work, Last
  <2>2. [w EXCEPT !.at = place, !.part = part] \in Work
    BY <2>1 DEF SchemaInv, SchemaTypeOK, Work
  <2>3. <<Revision(w), w.part>> \in Objects
    BY RevisionType DEF Statement, SchemaInv, SchemaTypeOK, Work, Objects
  <2>4. work' = [work EXCEPT ![p] = [w EXCEPT !.at = place, !.part = part]]
    BY <1>2 DEF Statement
  <2> QED
    BY <1>2, <2>2, <2>3, <2>4, SMTT(30) DEF Statement, SchemaInv, SchemaTypeOK, Ahead, Work
<1> QED
  BY <1>1, <1>2

LEMMA StampKeeps ==
    ASSUME SchemaInv, NEW p \in Shells, Stamp(p)
    PROVE  SchemaInv'
<1> DEFINE base == IF work[p].upward THEN work[p].base + 1 ELSE work[p].base - 1
           next == [work[p] EXCEPT !.base = base]
           place == IF next.base = next.goal THEN Over(p) ELSE "statement"
<1>1. CASE stamp # work[p].base
  BY <1>1, MovesKeeps, TornType DEF Stamp, Rests
<1>2. CASE stamp = work[p].base
  <2>1. base \in 0..Newest /\ next \in Work
    <3>1. work[p].base \in 0..Newest /\ work[p].goal \in 0..Newest /\ work[p] \in Work
      BY DEF SchemaInv, SchemaTypeOK, Work
    <3>2. IF work[p].upward THEN work[p].base < work[p].goal ELSE work[p].goal < work[p].base
      BY DEF Stamp, SchemaInv, Ahead
    <3>3. base \in 0..Newest
      BY <3>1, <3>2, RevisionsAssumption
    <3> QED
      BY <3>1, <3>3 DEF Work
  <2>2. First(next) \in 1..Parts
    BY PartsAssumption DEF First
  <2>3. [next EXCEPT !.part = First(next), !.at = place] \in Work
    BY <2>1, <2>2 DEF Work, Rests, Over
  <2>4. base = work[p].goal \/ IF work[p].upward THEN base < work[p].goal ELSE work[p].goal < base
    <3>1. work[p].base \in 0..Newest /\ work[p].goal \in 0..Newest
      BY DEF SchemaInv, SchemaTypeOK, Work
    <3>2. IF work[p].upward THEN work[p].base < work[p].goal ELSE work[p].goal < work[p].base
      BY DEF Stamp, SchemaInv, Ahead
    <3> QED
      BY <3>1, <3>2, RevisionsAssumption
  <2>5. /\ work' = [work EXCEPT ![p] = [next EXCEPT !.part = First(next), !.at = place]]
        /\ stamp' = base /\ UNCHANGED <<objects, runs, torn>>
    BY <1>2 DEF Stamp
  <2>6. Ahead([next EXCEPT !.part = First(next), !.at = place])
    BY <2>1, <2>4 DEF Ahead, Over, SchemaInv, SchemaTypeOK, Work
  <2> QED
    BY <2>1, <2>3, <2>5, <2>6 DEF SchemaInv, SchemaTypeOK
<1> QED
  BY <1>1, <1>2

LEMMA SchemaNextInv ==
    ASSUME SchemaInv, [SchemaNext]_schemaVars
    PROVE  SchemaInv'
<1>1. CASE UNCHANGED schemaVars
  BY <1>1 DEF schemaVars, SchemaInv, SchemaTypeOK, Ahead
<1>2. ASSUME NEW p \in Shells, StartDatabase(p) \/ Upgrade(p) PROVE SchemaInv'
  <2>1. PICK place \in Rests \cup {"report", "plan"} : Moves(p, place)
    BY <1>2 DEF StartDatabase, Upgrade, Rests
  <2>2. torn' \subseteq 1..Newest /\ UNCHANGED <<stamp, objects, runs>>
    BY <1>2 DEF StartDatabase, Upgrade, SchemaInv, SchemaTypeOK
  <2> QED
    BY <2>1, <2>2, MovesKeeps
<1>3. ASSUME NEW p \in Shells, Breaks(p) PROVE SchemaInv'
  BY <1>3, MovesKeeps, TornType DEF Breaks, Rests
<1> QED
  BY <1>1, <1>2, <1>3, BeginsKeeps, PlanKeeps, StatementKeeps, StampKeeps DEF SchemaNext

\* Every reachable state has its types, and every migration its goal ahead.
THEOREM SchemaInvariant == SchemaSpec => []SchemaInv
BY SchemaInitInv, SchemaNextInv, PTL DEF SchemaSpec

-----------------------------------------------------------------------------
(***************************************************************************)
(* What the database has of a revision that no migration was broken off    *)
(* in.  Of the processes changing it, one at most is between two of its    *)
(* statements; the others have run them all and have still to stamp it.    *)
(* They went up and down in turn, so the stamp, moved by every one of      *)
(* them, would say what is there: that is Balance.                         *)
(***************************************************************************)
Finished(r, up) ==
    {p \in Shells : work[p].at = "stamp" /\ work[p].upward = up /\ Revision(work[p]) = r}

Rising(r) == Finished(r, TRUE)
Falling(r) == Finished(r, FALSE)
Stamped(r) == IF r <= stamp THEN 1 ELSE 0

Balance(r) ==
    Stamped(r) + Cardinality(Rising(r)) - Cardinality(Falling(r))

Midway(p, r) ==
    work[p].at = "statement" /\ work[p].part # First(work[p]) /\ Revision(work[p]) = r

\* The first k objects of r exist and no other.
Level(r, k) == \A i \in 1..Parts : <<r, i>> \in objects <=> i <= k

Settled(r) ==
    /\ \A p, q \in Shells : Midway(p, r) /\ Midway(q, r) => p = q
    /\ \A p \in Shells : Midway(p, r) =>
         IF work[p].upward THEN Balance(r) = 0 /\ Level(r, work[p].part - 1)
                           ELSE Balance(r) = 1 /\ Level(r, work[p].part)
    /\ (\A p \in Shells : ~Midway(p, r)) =>
         \/ Balance(r) = 0 /\ Level(r, 0)
         \/ Balance(r) = 1 /\ Level(r, Parts)

SettledInv == \A r \in (1..Newest) \ torn : Settled(r)

LEMMA FinishedIsFinite ==
    ASSUME NEW r, NEW up
    PROVE  /\ IsFiniteSet(Finished(r, up)) /\ Cardinality(Finished(r, up)) \in Nat
<1>1. Finished(r, up) \in SUBSET Shells
  BY DEF Finished
<1> QED
  BY <1>1, ShellsAssumption, FS_Subset, FS_CardinalityType

\* A step of p that neither changes r nor leaves p in the middle of it.
LEMMA SettledWhile ==
    ASSUME SchemaInv, NEW r \in 1..Newest, Settled(r), NEW p \in Shells,
           \A q \in Shells \ {p} : work'[q] = work[q],
           ~Midway(p, r), ~Midway(p, r)',
           \A up \in BOOLEAN : p \notin Finished(r, up) /\ p \notin Finished(r, up)',
           r <= stamp' <=> r <= stamp,
           \A i \in 1..Parts : <<r, i>> \in objects' <=> <<r, i>> \in objects
    PROVE  Settled(r)'
<1>1. \A up \in BOOLEAN : Finished(r, up)' = Finished(r, up)
  BY DEF Finished
<1>2. Balance(r)' = Balance(r)
  BY <1>1 DEF Balance, Stamped, Rising, Falling
<1>3. \A q \in Shells : Midway(q, r)' => q # p /\ Midway(q, r) /\ work'[q] = work[q]
  BY DEF Midway
<1>4. \A q \in Shells : Midway(q, r) => Midway(q, r)'
  BY DEF Midway
<1>5. \A k : Level(r, k)' <=> Level(r, k)
  BY DEF Level
<1> QED
  BY <1>2, <1>3, <1>4, <1>5 DEF Settled

\* A statement applies only where all before it have run, and nobody else is
\* between two statements.
LEMMA AppliesOnlyNext ==
    ASSUME SchemaInv, NEW r \in 1..Newest, Settled(r), NEW p \in Shells,
           work[p].at = "statement", Revision(work[p]) = r, Applies(work[p])
    PROVE  /\ \A q \in Shells : Midway(q, r) => q = p
           /\ IF work[p].upward THEN Balance(r) = 0 /\ Level(r, work[p].part - 1)
                                ELSE Balance(r) = 1 /\ Level(r, work[p].part)
<1> DEFINE w == work[p]
<1>1. /\ Parts \in Nat /\ 1 <= Parts /\ w \in Work /\ w.part \in 1..Parts
      /\ w.upward \in BOOLEAN
      /\ w.upward => <<r, w.part>> \notin objects
      /\ ~w.upward => <<r, w.part>> \in objects
  BY PartsAssumption DEF SchemaInv, SchemaTypeOK, Work, Applies
<1>2. CASE Midway(p, r)
  BY <1>2 DEF Settled
<1>3. CASE ~Midway(p, r)
  <2>1. w.part = IF w.upward THEN 1 ELSE Parts
    BY <1>3 DEF Midway, First
  <2>2. ASSUME NEW q \in Shells, Midway(q, r) PROVE FALSE
    <3> DEFINE v == work[q]
    <3>1. v.part \in 1..Parts /\ v.part # (IF v.upward THEN 1 ELSE Parts)
      BY <2>2 DEF Midway, First, SchemaInv, SchemaTypeOK, Work
    <3>2. IF v.upward THEN Level(r, v.part - 1) ELSE Level(r, v.part)
      BY <2>2 DEF Settled
    <3>3. <<r, 1>> \in objects /\ <<r, Parts>> \notin objects
      BY <1>1, <3>1, <3>2 DEF Level
    <3> QED
      BY <1>1, <2>1, <3>3
  <2>3. \/ Balance(r) = 0 /\ Level(r, 0)
        \/ Balance(r) = 1 /\ Level(r, Parts)
    BY <2>2 DEF Settled
  <2>4. Level(r, 0) => <<r, 1>> \notin objects /\ <<r, Parts>> \notin objects
    BY <1>1 DEF Level
  <2>5. Level(r, Parts) => <<r, 1>> \in objects /\ <<r, Parts>> \in objects
    BY <1>1 DEF Level
  <2> QED
    BY <1>1, <2>1, <2>2, <2>3, <2>4, <2>5
<1> QED
  BY <1>2, <1>3

LEMMA StatementSettles ==
    ASSUME SchemaInv, SchemaInv', NEW r \in (1..Newest) \ torn', Settled(r), NEW p \in Shells,
           Statement(p)
    PROVE  Settled(r)'
<1> DEFINE w == work[p]
           last == w.part = Last(w)
           place == IF last THEN "stamp" ELSE "statement"
           part == IF last THEN w.part ELSE IF w.upward THEN w.part + 1 ELSE w.part - 1
<1>0. /\ w \in Work /\ w.at = "statement" /\ w.part \in 1..Parts /\ w.upward \in BOOLEAN
      /\ work \in [Shells -> Work] /\ Parts \in Nat /\ 1 <= Parts
      /\ UNCHANGED stamp
  BY PartsAssumption DEF Statement, SchemaInv, SchemaTypeOK, Work
<1>1. CASE ~Applies(w)
  <2>1. /\ work' = [work EXCEPT ![p].at = "failed"] /\ UNCHANGED objects
        /\ torn' = IF Halfway(w) THEN torn \cup {Revision(w)} ELSE torn
    BY <1>1 DEF Statement, Moves, Leaves
  <2>2. /\ \A q \in Shells \ {p} : work'[q] = work[q]
        /\ work'[p].at = "failed"
    BY <1>0, <2>1 DEF Work
  <2>3. ~Midway(p, r) /\ ~Midway(p, r)'
    BY <1>0, <2>1, <2>2 DEF Midway, Halfway
  <2>4. \A up \in BOOLEAN : p \notin Finished(r, up) /\ p \notin Finished(r, up)'
    BY <1>0, <2>2 DEF Finished
  <2> QED
    BY <1>0, <2>1, <2>2, <2>3, <2>4, SettledWhile
<1>2. CASE Applies(w)
  <2>1. /\ objects' = IF w.upward THEN objects \cup {<<Revision(w), w.part>>}
                                  ELSE objects \ {<<Revision(w), w.part>>}
        /\ work' = [work EXCEPT ![p] = [w EXCEPT !.at = place, !.part = part]]
    BY <1>2 DEF Statement
  <2>2. /\ \A q \in Shells \ {p} : work'[q] = work[q]
        /\ work'[p].at = place /\ work'[p].part = part
        /\ work'[p].upward = w.upward /\ work'[p].base = w.base
    BY <1>0, <2>1 DEF Work
  <2>3. Revision(work'[p]) = Revision(w) /\ First(work'[p]) = First(w)
    BY <2>2 DEF Revision, First
  <2>4. CASE Revision(w) # r
    <3>1. ~Midway(p, r) /\ ~Midway(p, r)'
      BY <2>3, <2>4 DEF Midway
    <3>2. \A up \in BOOLEAN : p \notin Finished(r, up) /\ p \notin Finished(r, up)'
      BY <2>3, <2>4 DEF Finished
    <3>3. \A i \in 1..Parts : <<r, i>> \in objects' <=> <<r, i>> \in objects
      BY <2>1, <2>4
    <3> QED
      BY <1>0, <2>2, <3>1, <3>2, <3>3, SettledWhile
  <2>5. CASE Revision(w) = r
    <3> PICK k \in 1..Parts, up \in BOOLEAN : k = w.part /\ up = w.upward
      BY <1>0
    <3>0. k = w.part /\ up = w.upward /\ k \in 1..Parts /\ up \in BOOLEAN
      OBVIOUS
    <3>1. /\ \A q \in Shells : Midway(q, r) => q = p
          /\ IF up THEN Balance(r) = 0 /\ Level(r, k - 1)
                   ELSE Balance(r) = 1 /\ Level(r, k)
      BY <1>0, <1>2, <2>5, <3>0, AppliesOnlyNext
    <3>2. \A q \in Shells : Midway(q, r)' => q = p
      BY <2>2, <3>1 DEF Midway
    <3>3. \A i \in 1..Parts :
            <<r, i>> \in objects' <=> (IF up THEN i <= k ELSE i <= k - 1)
      <4>1. \A i \in 1..Parts : <<r, i>> \in objects' <=>
                (IF up THEN <<r, i>> \in objects \/ i = k
                       ELSE <<r, i>> \in objects /\ i # k)
        BY <2>1, <2>5, <3>0
      <4>2. \A i \in 1..Parts : <<r, i>> \in objects <=> (IF up THEN i <= k - 1 ELSE i <= k)
        BY <3>0, <3>1 DEF Level
      <4>3. k \in Nat /\ \A i \in 1..Parts : i \in Nat
        BY <3>0
      <4> QED
        BY <4>1, <4>2, <4>3
    <3>4. CASE ~last
      <4>1. work'[p].at = "statement"
        BY <2>2, <3>4
      <4>2. \A u \in BOOLEAN : Finished(r, u)' = Finished(r, u)
        BY <1>0, <2>2, <4>1 DEF Finished
      <4>3. Balance(r)' = Balance(r)
        BY <1>0, <4>2 DEF Balance, Stamped, Rising, Falling
      <4>4. work'[p].part = IF up THEN k + 1 ELSE k - 1
        BY <2>2, <3>0, <3>4
      <4>5. work'[p].upward = up
        BY <2>2, <3>0
      <4>6. IF work'[p].upward
            THEN \A i \in 1..Parts : <<r, i>> \in objects' <=> i <= work'[p].part - 1
            ELSE \A i \in 1..Parts : <<r, i>> \in objects' <=> i <= work'[p].part
        BY <3>0, <3>3, <4>4, <4>5
      <4>7. (IF work[p].upward THEN Level(r, work[p].part - 1) ELSE Level(r, work[p].part))'
        BY <4>6 DEF Level
      <4>8. First(w) = IF up THEN 1 ELSE Parts
        BY <3>0 DEF First
      <4>9. k # Last(w) /\ Last(w) = IF up THEN Parts ELSE 1
        BY <3>0, <3>4 DEF Last
      <4>10. work'[p].part # First(work'[p])
        BY <1>0, <2>3, <3>0, <4>4, <4>8, <4>9
      <4>11. Midway(p, r)'
        BY <2>3, <2>5, <4>1, <4>10 DEF Midway
      <4>12. \A q \in Shells : Midway(q, r)' =>
               (IF work[q].upward THEN Balance(r) = 0 /\ Level(r, work[q].part - 1)
                                  ELSE Balance(r) = 1 /\ Level(r, work[q].part))'
        BY <3>0, <3>1, <3>2, <4>3, <4>5, <4>7
      <4> QED
        BY <3>2, <4>11, <4>12 DEF Settled
    <3>5. CASE last
      <4>1. work'[p].at = "stamp"
        BY <2>2, <3>5
      <4>2. /\ Revision(work'[p]) = r /\ work'[p].upward = up
            /\ \A u \in BOOLEAN : p \notin Finished(r, u)
        BY <1>0, <2>2, <2>3, <2>5, <3>0 DEF Finished
      <4>3. /\ Finished(r, up)' = Finished(r, up) \cup {p}
            /\ Finished(r, ~up)' = Finished(r, ~up)
        BY <1>0, <2>2, <3>0, <4>1, <4>2 DEF Finished
      <4>4. /\ Cardinality(Finished(r, up))' = Cardinality(Finished(r, up)) + 1
            /\ Cardinality(Finished(r, ~up))' = Cardinality(Finished(r, ~up))
        <5>1. IsFiniteSet(Finished(r, up)) /\ p \notin Finished(r, up)
          BY <3>0, <4>2, FinishedIsFinite
        <5>2. Cardinality(Finished(r, up) \cup {p}) = Cardinality(Finished(r, up)) + 1
          BY <5>1, FS_AddElement
        <5> QED
          BY <4>3, <5>2
      <4>5. /\ Cardinality(Rising(r)) \in Nat
            /\ Cardinality(Falling(r)) \in Nat
        BY FinishedIsFinite DEF Rising, Falling
      <4>6. Balance(r)' = IF up THEN Balance(r) + 1 ELSE Balance(r) - 1
        <5>1. Stamped(r)' = Stamped(r) /\ Stamped(r) \in Nat
          BY <1>0 DEF Stamped
        <5>2. CASE up = TRUE
          <6>1. /\ Cardinality(Rising(r))' = Cardinality(Rising(r)) + 1
                /\ Cardinality(Falling(r))' = Cardinality(Falling(r))
            BY <4>4, <5>2 DEF Rising, Falling
          <6> QED
            BY <4>5, <5>1, <5>2, <6>1 DEF Balance
        <5>3. CASE up = FALSE
          <6>1. /\ Cardinality(Falling(r))' = Cardinality(Falling(r)) + 1
                /\ Cardinality(Rising(r))' = Cardinality(Rising(r))
            BY <4>4, <5>3 DEF Rising, Falling
          <6> QED
            BY <4>5, <5>1, <5>3, <6>1 DEF Balance
        <5> QED
          BY <3>0, <5>2, <5>3
      <4>7. \A q \in Shells : ~Midway(q, r)'
        BY <3>2, <4>1 DEF Midway
      <4>8. k = IF up THEN Parts ELSE 1
        BY <3>0, <3>5 DEF Last
      <4>9. \/ (Balance(r) = 0 /\ Level(r, 0))'
            \/ (Balance(r) = 1 /\ Level(r, Parts))'
        <5>1. \A i \in 1..Parts : <<r, i>> \in objects' <=> i <= IF up THEN Parts ELSE 0
          BY <3>0, <3>3, <4>8
        <5>2. Balance(r)' = IF up THEN 1 ELSE 0
          BY <3>1, <4>6
        <5>3. CASE up = TRUE
          BY <5>1, <5>2, <5>3 DEF Level
        <5>4. CASE up = FALSE
          BY <5>1, <5>2, <5>4 DEF Level
        <5> QED
          BY <3>0, <5>3, <5>4
      <4> QED
        BY <4>7, <4>9 DEF Settled
    <3> QED
      BY <3>4, <3>5
  <2> QED
    BY <2>4, <2>5
<1> QED
  BY <1>1, <1>2

LEMMA StampSettles ==
    ASSUME SchemaInv, SchemaInv', NEW r \in (1..Newest) \ torn', Settled(r), NEW p \in Shells,
           Stamp(p)
    PROVE  Settled(r)'
<1> DEFINE w == work[p]
           base == IF w.upward THEN w.base + 1 ELSE w.base - 1
           next == [w EXCEPT !.base = base]
           place == IF next.base = next.goal THEN Over(p) ELSE "statement"
<1>0. /\ w \in Work /\ w.at = "stamp" /\ w.upward \in BOOLEAN /\ w.base \in Nat
      /\ work \in [Shells -> Work] /\ stamp \in Nat /\ r \in Nat
      /\ UNCHANGED objects
  BY RevisionsAssumption DEF Stamp, SchemaInv, SchemaTypeOK, Work
<1>1. ~Midway(p, r)
  BY <1>0 DEF Midway
<1>2. CASE stamp # w.base
  <2>1. /\ work' = [work EXCEPT ![p].at = "failed"] /\ UNCHANGED stamp
        /\ torn' = torn \cup {Revision(w)}
    BY <1>0, <1>2 DEF Stamp, Moves, Leaves, Halfway
  <2>2. /\ \A q \in Shells \ {p} : work'[q] = work[q]
        /\ work'[p].at = "failed" /\ Revision(w) # r
    BY <1>0, <2>1 DEF Work
  <2>3. ~Midway(p, r)' /\ \A up \in BOOLEAN : p \notin Finished(r, up) /\ p \notin Finished(r, up)'
    BY <2>2 DEF Midway, Finished
  <2> QED
    BY <1>0, <1>1, <2>1, <2>2, <2>3, SettledWhile
<1>3. CASE stamp = w.base
  <2>1. /\ work' = [work EXCEPT ![p] = [next EXCEPT !.part = First(next), !.at = place]]
        /\ stamp' = next.base
    BY <1>3 DEF Stamp
  <2>2. place \in {"up", "done", "statement"}
    BY DEF Over
  <2> HIDE DEF place
  <2>3. /\ \A q \in Shells \ {p} : work'[q] = work[q]
        /\ work'[p].at = place /\ work'[p].upward = w.upward /\ work'[p].base = base
        /\ work'[p].part = First(next) /\ stamp' = base
    BY <1>0, <2>1 DEF Work
  <2>4. First(work'[p]) = First(next)
    BY <1>0, <2>3 DEF First, Work
  <2>5. ~Midway(p, r)' /\ \A up \in BOOLEAN : p \notin Finished(r, up)'
    BY <2>2, <2>3, <2>4 DEF Midway, Finished
  <2>6. CASE Revision(w) # r
    <3>1. \A up \in BOOLEAN : p \notin Finished(r, up)
      BY <2>6 DEF Finished
    <3>2. r <= stamp' <=> r <= stamp
      BY <1>0, <1>3, <2>3, <2>6 DEF Revision
    <3> QED
      BY <1>0, <1>1, <2>3, <2>5, <3>1, <3>2, SettledWhile
  <2>7. CASE Revision(w) = r
    <3> PICK up \in BOOLEAN : up = w.upward
      BY <1>0
    <3>1. /\ p \in Finished(r, up)
          /\ Finished(r, up)' = Finished(r, up) \ {p}
          /\ Finished(r, ~up)' = Finished(r, ~up)
      BY <1>0, <2>3, <2>5, <2>7 DEF Finished
    <3>2. /\ Cardinality(Finished(r, up))' = Cardinality(Finished(r, up)) - 1
          /\ Cardinality(Finished(r, ~up))' = Cardinality(Finished(r, ~up))
      <4>1. Cardinality(Finished(r, up) \ {p}) = Cardinality(Finished(r, up)) - 1
        BY <3>1, FinishedIsFinite, FS_RemoveElement
      <4> QED
        BY <3>1, <4>1
    <3>3. /\ IF up THEN r <= stamp' /\ ~(r <= stamp) ELSE ~(r <= stamp') /\ r <= stamp
          /\ Cardinality(Rising(r)) \in Nat /\ Cardinality(Falling(r)) \in Nat
      <4>1. IF up THEN r <= stamp' /\ ~(r <= stamp) ELSE ~(r <= stamp') /\ r <= stamp
        BY <1>0, <1>3, <2>3, <2>7 DEF Revision
      <4> QED
        BY <4>1, FinishedIsFinite DEF Rising, Falling
    <3>4. Balance(r)' = Balance(r)
      <4>1. CASE up = TRUE
        <5>1. Stamped(r)' = 1 /\ Stamped(r) = 0
          BY <3>3, <4>1 DEF Stamped
        <5>2. /\ Cardinality(Rising(r))' = Cardinality(Rising(r)) - 1
              /\ Cardinality(Falling(r))' = Cardinality(Falling(r))
          BY <3>2, <4>1 DEF Rising, Falling
        <5> QED
          BY <3>3, <5>1, <5>2 DEF Balance
      <4>2. CASE up = FALSE
        <5>1. Stamped(r)' = 0 /\ Stamped(r) = 1
          BY <3>3, <4>2 DEF Stamped
        <5>2. /\ Cardinality(Falling(r))' = Cardinality(Falling(r)) - 1
              /\ Cardinality(Rising(r))' = Cardinality(Rising(r))
          BY <3>2, <4>2 DEF Rising, Falling
        <5> QED
          BY <3>3, <5>1, <5>2 DEF Balance
      <4> QED
        BY <4>1, <4>2
    <3>5. \A q \in Shells : /\ Midway(q, r)' <=> Midway(q, r)
                            /\ Midway(q, r) => work'[q] = work[q]
      BY <1>1, <2>3, <2>5 DEF Midway
    <3>6. \A k : Level(r, k)' <=> Level(r, k)
      BY <1>0 DEF Level
    <3> QED
      BY <3>4, <3>5, <3>6 DEF Settled
  <2> QED
    BY <2>6, <2>7
<1> QED
  BY <1>2, <1>3

LEMMA SettledNext ==
    ASSUME SchemaInv, SchemaInv', SettledInv, [SchemaNext]_schemaVars
    PROVE  SettledInv'
<1>1. CASE UNCHANGED schemaVars
  <2>1. UNCHANGED <<stamp, objects, work, torn>>
    BY <1>1 DEF schemaVars
  <2>2. \A r, u : Finished(r, u)' = Finished(r, u)
    BY <2>1 DEF Finished
  <2>3. \A r : Balance(r)' = Balance(r)
    BY <2>1, <2>2 DEF Balance, Stamped, Rising, Falling
  <2>4. \A r, k : Level(r, k)' = Level(r, k)
    BY <2>1 DEF Level
  <2>5. \A p, r : Midway(p, r)' = Midway(p, r)
    BY <2>1 DEF Midway
  <2> QED
    BY <2>1, <2>3, <2>4, <2>5 DEF SettledInv, Settled
<1>2. ASSUME NEW p \in Shells,
             StartContainer(p) \/ MigrateTo(p) \/ DowngradeTo(p) \/ StartDatabase(p)
             \/ Upgrade(p) \/ Plan(p) \/ Breaks(p),
             NEW r \in (1..Newest) \ torn', r \notin torn => Settled(r)
      PROVE  Settled(r)'
  <2>1. UNCHANGED <<stamp, objects>> /\ work \in [Shells -> Work] /\ r \notin torn
    BY <1>2 DEF StartContainer, MigrateTo, DowngradeTo, Runs, StartDatabase, Upgrade, Plan,
                Breaks, Leaves, SchemaInv, SchemaTypeOK
  <2>2. \A q \in Shells \ {p} : work'[q] = work[q]
    BY <1>2, <2>1 DEF StartContainer, MigrateTo, DowngradeTo, Runs, StartDatabase, Upgrade, Plan,
                      Breaks, Moves
  <2>3. ~Midway(p, r) /\ \A up \in BOOLEAN : p \notin Finished(r, up)
    BY <1>2, <2>1 DEF StartContainer, MigrateTo, DowngradeTo, Runs, StartDatabase, Upgrade, Plan,
                      Breaks, Rests, Leaves, Halfway, Midway, Finished
  <2>4. ~Midway(p, r)' /\ \A up \in BOOLEAN : p \notin Finished(r, up)'
    <3>1. CASE Plan(p)
      <4> DEFINE w == [work[p] EXCEPT !.base = stamp]
      <4>1. /\ work'[p].upward = w.upward /\ work'[p].part = First(w) /\ work'[p].at # "stamp"
        BY <2>1, <3>1 DEF Plan, Work, Over
      <4>2. First(work'[p]) = First(w)
        BY <4>1 DEF First
      <4> QED
        BY <4>1, <4>2 DEF Midway, Finished
    <3>2. CASE ~Plan(p)
      <4>1. work'[p].at \notin {"statement", "stamp"}
        BY <1>2, <2>1, <3>2 DEF StartContainer, MigrateTo, DowngradeTo, Runs, StartDatabase,
                                Upgrade, Breaks, Moves, Work
      <4> QED
        BY <4>1 DEF Midway, Finished
    <3> QED
      BY <3>1, <3>2
  <2> QED
    BY <1>2, <2>1, <2>2, <2>3, <2>4, SettledWhile
<1>3. ASSUME NEW p \in Shells, Statement(p) \/ Stamp(p) PROVE torn \subseteq torn'
  BY <1>3 DEF Statement, Stamp, Leaves
<1>4. CASE SchemaNext
  <2> SUFFICES ASSUME NEW r \in (1..Newest) \ torn' PROVE Settled(r)'
    BY DEF SettledInv
  <2>1. r \notin torn => Settled(r)
    BY DEF SettledInv
  <2> QED
    BY <1>2, <1>3, <1>4, <2>1, StatementSettles, StampSettles DEF SchemaNext
<1> QED
  BY <1>1, <1>4

LEMMA SettledInit == SchemaInit => SettledInv
<1> SUFFICES ASSUME SchemaInit, NEW r \in 1..Newest PROVE Settled(r)
  BY DEF SettledInv
<1>1. \A p \in Shells : work[p].at = "off"
  BY DEF SchemaInit
<1>2. Rising(r) = {} /\ Falling(r) = {}
  BY <1>1 DEF Finished, Rising, Falling
<1>3. Balance(r) = 0
  <2>1. Cardinality(Rising(r)) = 0 /\ Cardinality(Falling(r)) = 0
    BY <1>2, FS_EmptySet
  <2>2. ~(r <= stamp)
    BY RevisionsAssumption DEF SchemaInit
  <2> QED
    BY <2>1, <2>2 DEF Balance, Stamped
<1>4. Level(r, 0)
  BY DEF Level, SchemaInit
<1> QED
  BY <1>1, <1>3, <1>4 DEF Settled, Midway

\* The revision a command finds stamped is what the database has (migrations.py,
\* migrations/env.py): however many releases migrate at once, a revision nobody
\* is changing, and in which no migration was broken off, is all there up to the
\* stamp and not at all beyond it.
THEOREM StampIsAlwaysTrue == SchemaSpec => []StampIsTrue
<1>1. SchemaInv /\ SettledInv => StampIsTrue
  <2> SUFFICES ASSUME SchemaInv, SettledInv, NEW r \in (1..Newest) \ torn, ~Changing(r)
               PROVE  IF r <= stamp THEN Whole(r) ELSE Absent(r)
    BY DEF StampIsTrue
  <2>1. \A p \in Shells : ~Midway(p, r)
    BY DEF Changing, Midway
  <2>2. Rising(r) = {} /\ Falling(r) = {}
    BY DEF Changing, Finished, Rising, Falling
  <2>3. Balance(r) = IF r <= stamp THEN 1 ELSE 0
    <3>1. Cardinality(Rising(r)) = 0 /\ Cardinality(Falling(r)) = 0
      BY <2>2, FS_EmptySet
    <3> QED
      BY <3>1 DEF Balance, Stamped
  <2>4. IF r <= stamp THEN Level(r, Parts) ELSE Level(r, 0)
    BY <2>1, <2>3 DEF SettledInv, Settled
  <2> QED
    BY <2>4, PartsAssumption DEF Level, Whole, Absent
<1>2. SettledInv /\ SchemaInv /\ SchemaInv' /\ [SchemaNext]_schemaVars => SettledInv'
  BY SettledNext
<1> QED
  BY <1>1, <1>2, SettledInit, SchemaInvariant, PTL DEF SchemaSpec

-----------------------------------------------------------------------------
(***************************************************************************)
(* The accounts and their profiles.                                        *)
(***************************************************************************)
\* What a process holds is what its step needs: a switch goes to an account
\* there is, an account is inserted inactive only once another is active, a
\* profile that is to be written is there and was there when it was read.
HeldIsFit ==
    \A t \in Terminals :
        /\ task[t].at \in {"look", "insert", "read", "add", "update"} => task[t].on \in Accounts
        /\ task[t].at = "insert" /\ ~task[t].first => active # {}
        /\ task[t].at = "switch" => task[t].on \in accounts
        /\ task[t].at = "update" => task[t].row \in Profiles /\ profiles[task[t].on] # Unset

\* What has not been made was not set.
NothingYet == \A a \in Accounts : profiles[a] = Unset => latest[a] = Defaults

AccountsInv ==
    AccountsTypeOK /\ OneIsOperated /\ HeldIsFit /\ NothingYet /\ PreferencesStay

-----------------------------------------------------------------------------
\* A change of preferences makes preferences of preferences.
LEMMA ChangedIsProfile ==
    ASSUME NEW row \in Profiles, NEW changes \in Changes
    PROVE  Changed(row, changes) \in Profiles
BY DEF Changed, Profiles, Changes

LEMMA DefaultsIsProfile == Defaults \in Profiles
BY AccountsAssumption DEF Defaults, Profiles

LEMMA UnsetIsNoProfile == Unset \notin Profiles
BY ProfilesAssumption DEF Profiles

\* A process at rest holds nothing and has its type.
LEMMA RestingType ==
    Resting \in Tasks
BY DEF Resting, Tasks, Changes, NoChange

\* The installation begins without accounts.
LEMMA AccountsInitInv == AccountsInit => AccountsInv
<1> SUFFICES ASSUME AccountsInit PROVE AccountsInv
  OBVIOUS
<1>1. AccountsTypeOK
  BY RestingType, DefaultsIsProfile, MaxUsesAssumption DEF AccountsInit, AccountsTypeOK
<1>2. OneIsOperated /\ HeldIsFit /\ NothingYet /\ PreferencesStay
  BY DEF AccountsInit, OneIsOperated, HeldIsFit, NothingYet, PreferencesStay, Resting
<1> QED
  BY <1>1, <1>2 DEF AccountsInv

\* A process that leaves disturbs nothing.
LEMMA LeaveKeeps ==
    ASSUME AccountsInv, NEW t \in Terminals, Leave(t),
           UNCHANGED <<accounts, active, profiles, uses, ghostVars>>
    PROVE  AccountsInv'
BY RestingType
   DEF Leave, AccountsInv, AccountsTypeOK, Tasks, OneIsOperated, HeldIsFit, NothingYet, PreferencesStay,
       Resting, ghostVars

\* A command that begins holds no more than its name.
LEMMA BeginKeeps ==
    ASSUME AccountsInv, NEW t \in Terminals,
           AccountCreate(t) \/ AccountActivate(t) \/ ProfileShow(t) \/ ProfileSet(t)
    PROVE  AccountsInv'
<1>1. PICK doing \in Tasks :
          (doing.at = "find" \/ (doing.at = "look" /\ doing.on \in Accounts)) /\ Use(t, doing)
  BY RestingType DEF AccountCreate, AccountActivate, ProfileShow, ProfileSet, Resting, Tasks
<1>2. AccountsTypeOK'
  BY <1>1, MaxUsesAssumption DEF Use, AccountsInv, AccountsTypeOK, ghostVars
<1>3. (OneIsOperated /\ HeldIsFit /\ NothingYet /\ PreferencesStay)'
  BY <1>1 DEF Use, AccountsInv, AccountsTypeOK, Tasks, OneIsOperated, HeldIsFit, NothingYet,
              PreferencesStay, ghostVars
<1> QED
  BY <1>2, <1>3 DEF AccountsInv

LEMMA AccountsLookKeeps ==
    ASSUME AccountsInv, NEW t \in Terminals, LookForAccount(t)
    PROVE  AccountsInv'
<1>1. CASE Leave(t)
  BY <1>1, LeaveKeeps DEF LookForAccount
<1>2. CASE task[t].cmd = "create" /\ task[t].on \notin accounts
           /\ task' = [task EXCEPT ![t].at = "insert", ![t].first = active = {}]
  <2>0. PICK isFirst \in BOOLEAN : isFirst = (active = {})
    OBVIOUS
  <2>3. task' = [task EXCEPT ![t].at = "insert", ![t].first = isFirst]
    BY <1>2, <2>0
  <2>1. AccountsTypeOK'
    BY <2>3 DEF LookForAccount, AccountsInv, AccountsTypeOK, Tasks, ghostVars
  <2>2. task[t].on \in Accounts
    BY DEF LookForAccount, AccountsInv, HeldIsFit
  <2> QED
    BY <2>0, <2>1, <2>2, <2>3 DEF LookForAccount, AccountsInv, AccountsTypeOK, Tasks, OneIsOperated, HeldIsFit,
                                  NothingYet, PreferencesStay, ghostVars
<1>3. CASE task[t].on \in accounts /\ task' = [task EXCEPT ![t].at = "switch"]
  BY <1>3 DEF LookForAccount, AccountsInv, AccountsTypeOK, Tasks, OneIsOperated, HeldIsFit,
              NothingYet, PreferencesStay, ghostVars
<1> QED
  BY <1>1, <1>2, <1>3 DEF LookForAccount

\* The index lets a second active account in as little as a second account
\* for one Telegram user.
LEMMA InsertKeeps ==
    ASSUME AccountsInv, NEW t \in Terminals, InsertAccount(t)
    PROVE  AccountsInv'
<1> DEFINE a == task[t].on
<1>1. CASE Clashes(a, task[t].first)
  BY <1>1, LeaveKeeps DEF InsertAccount, ghostVars
<1>2. CASE ~Clashes(a, task[t].first)
  <2>1. /\ accounts' = accounts \cup {a} /\ a \in Accounts
        /\ active' = IF task[t].first THEN active \cup {a} ELSE active
        /\ task' = [task EXCEPT ![t] = Resting]
        /\ UNCHANGED <<profiles, uses, ghostVars>>
    BY <1>2 DEF InsertAccount, Leave, AccountsInv, HeldIsFit
  <2>2. AccountsTypeOK'
    BY <2>1, RestingType DEF AccountsInv, AccountsTypeOK, Tasks, ghostVars
  <2>3. OneIsOperated'
    <3>1. CASE task[t].first
      <4>1. active' = {a} /\ a \in accounts'
        BY <1>2, <2>1, <3>1 DEF Clashes
      <4> QED
        BY <4>1 DEF OneIsOperated
    <3>2. CASE ~task[t].first
      <4>1. active # {} /\ active \subseteq accounts
        BY <3>2 DEF InsertAccount, AccountsInv, AccountsTypeOK, HeldIsFit
      <4>2. \E b \in accounts : active = {b}
        BY <4>1 DEF AccountsInv, OneIsOperated
      <4> QED
        BY <2>1, <3>2, <4>2 DEF OneIsOperated
    <3> QED
      BY <3>1, <3>2
  <2>4. (HeldIsFit /\ NothingYet /\ PreferencesStay)'
    BY <2>1 DEF AccountsInv, AccountsTypeOK, Tasks, HeldIsFit, NothingYet, PreferencesStay, Resting, ghostVars
  <2> QED
    BY <2>2, <2>3, <2>4 DEF AccountsInv
<1> QED
  BY <1>1, <1>2

LEMMA SwitchKeeps ==
    ASSUME AccountsInv, NEW t \in Terminals, SwitchAccount(t)
    PROVE  AccountsInv'
<1>1. task[t].on \in accounts
  BY DEF SwitchAccount, AccountsInv, HeldIsFit
<1>2. AccountsTypeOK'
  BY <1>1, RestingType DEF SwitchAccount, Leave, AccountsInv, AccountsTypeOK, ghostVars
<1>3. OneIsOperated'
  BY <1>1 DEF SwitchAccount, OneIsOperated
<1>4. (HeldIsFit /\ NothingYet /\ PreferencesStay)'
  BY DEF SwitchAccount, Leave, AccountsInv, AccountsTypeOK, Tasks, HeldIsFit, NothingYet, PreferencesStay,
         Resting, ghostVars
<1> QED
  BY <1>2, <1>3, <1>4 DEF AccountsInv

LEMMA ReadKeeps ==
    ASSUME AccountsInv, NEW t \in Terminals, Resolve(t) \/ ReadProfile(t)
    PROVE  AccountsInv'
<1>1. CASE Leave(t)
  BY <1>1, LeaveKeeps DEF Resolve, Tasks, ReadProfile
<1>2. CASE ~Leave(t)
  <2>1. UNCHANGED <<accounts, active, profiles, uses, ghostVars>>
    BY DEF Resolve, Tasks, ReadProfile
  <2>2. CASE Resolve(t)
    <3>1. PICK a \in Accounts : task' = [task EXCEPT ![t].on = a, ![t].at = "read"]
      BY <1>2, <2>2 DEF Resolve, Tasks, Resolved, AccountsInv, AccountsTypeOK
    <3> QED
      <4>1. AccountsTypeOK'
        <5>1. [task[t] EXCEPT !.on = a, !.at = "read"] \in Tasks
          BY DEF AccountsInv, AccountsTypeOK, Tasks
        <5> QED
          BY <2>1, <3>1, <5>1 DEF AccountsInv, AccountsTypeOK, ghostVars
      <4>2. (OneIsOperated /\ NothingYet /\ PreferencesStay)'
        BY <2>1 DEF AccountsInv, OneIsOperated, NothingYet, PreferencesStay, ghostVars
      <4>3. HeldIsFit'
        BY <2>1, <3>1 DEF AccountsInv, AccountsTypeOK, Tasks, HeldIsFit, ghostVars
      <4> QED
        BY <4>1, <4>2, <4>3 DEF AccountsInv
  <2>3. CASE ReadProfile(t)
    <3> DEFINE a == task[t].on
    <3>1. a \in Accounts
      BY <2>3 DEF ReadProfile, AccountsInv, HeldIsFit
    <3>2. CASE profiles[a] = Unset
      BY <2>1, <2>3, <3>1, <3>2
         DEF ReadProfile, AccountsInv, AccountsTypeOK, Tasks, OneIsOperated, HeldIsFit, NothingYet,
             PreferencesStay, ghostVars
    <3>3. CASE profiles[a] # Unset
      <4>1. profiles[a] \in Profiles
        BY <3>1, <3>3 DEF AccountsInv, AccountsTypeOK
      <4>2. task' = [task EXCEPT ![t].on = a, ![t].row = profiles[a], ![t].at = "update"]
        BY <1>2, <2>3, <3>3 DEF ReadProfile, Proceed
      <4>3. AccountsTypeOK'
        <5>1. [task[t] EXCEPT !.on = a, !.row = profiles[a], !.at = "update"] \in Tasks
          BY <3>1, <4>1 DEF AccountsInv, AccountsTypeOK, Tasks
        <5> QED
          BY <2>1, <4>2, <5>1 DEF AccountsInv, AccountsTypeOK, ghostVars
      <4>4. (OneIsOperated /\ NothingYet /\ PreferencesStay)'
        BY <2>1 DEF AccountsInv, OneIsOperated, NothingYet, PreferencesStay, ghostVars
      <4>5. HeldIsFit'
        BY <2>1, <3>1, <3>3, <4>1, <4>2 DEF AccountsInv, AccountsTypeOK, Tasks, HeldIsFit, ghostVars
      <4> QED
        BY <4>3, <4>4, <4>5 DEF AccountsInv
    <3> QED
      BY <3>2, <3>3
  <2> QED
    BY <2>2, <2>3
<1> QED
  BY <1>1, <1>2

\* A profile that is added is at its defaults, like what was set of it.
LEMMA AddKeeps ==
    ASSUME AccountsInv, NEW t \in Terminals, AddProfile(t)
    PROVE  AccountsInv'
<1> DEFINE a == task[t].on
<1>1. a \in Accounts
  BY DEF AddProfile, AccountsInv, HeldIsFit
<1>2. CASE profiles[a] # Unset
  BY <1>2, LeaveKeeps DEF AddProfile, ghostVars
<1>3. CASE profiles[a] = Unset
  <2>1. /\ profiles' = [profiles EXCEPT ![a] = Defaults]
        /\ UNCHANGED <<accounts, active, uses, ghostVars>>
    BY <1>3 DEF AddProfile
  <2>2. \/ task' = [task EXCEPT ![t] = Resting]
        \/ task' = [task EXCEPT ![t].on = a, ![t].row = Defaults, ![t].at = "update"]
    BY <1>3 DEF AddProfile, Proceed, Leave
  <2>3. AccountsTypeOK'
    BY <1>1, <2>1, <2>2, RestingType, DefaultsIsProfile DEF AccountsInv, AccountsTypeOK, Tasks, ghostVars
  <2>4. (OneIsOperated /\ NothingYet /\ PreferencesStay)'
    BY <1>1, <1>3, <2>1, DefaultsIsProfile, UnsetIsNoProfile
       DEF AccountsInv, AccountsTypeOK, Tasks, OneIsOperated, NothingYet, PreferencesStay, ghostVars
  <2>5. HeldIsFit'
    BY <1>1, <2>1, <2>2, DefaultsIsProfile, UnsetIsNoProfile
       DEF AccountsInv, AccountsTypeOK, Tasks, HeldIsFit, Resting
  <2> QED
    BY <2>3, <2>4, <2>5 DEF AccountsInv
<1> QED
  BY <1>2, <1>3

\* Written on a reading that holds, a profile is what was set of it.
LEMMA UpdateKeeps ==
    ASSUME AccountsInv, NEW t \in Terminals, UpdateProfile(t)
    PROVE  AccountsInv'
<1> DEFINE a == task[t].on
           changes == task[t].changes
           row == task[t].row
<1>1. /\ a \in Accounts /\ changes \in Changes /\ row \in Profiles /\ profiles[a] # Unset
      /\ latest[a] \in Profiles
  BY DEF UpdateProfile, AccountsInv, AccountsTypeOK, Tasks, HeldIsFit
<1>2. Changed(row, changes) \in Profiles /\ Changed(latest[a], changes) \in Profiles
  BY <1>1, ChangedIsProfile
<1>3. /\ profiles' = [profiles EXCEPT ![a] = Changed(row, changes)]
      /\ latest' = [latest EXCEPT ![a] = Changed(latest[a], changes)]
      /\ crossed' = IF profiles[a] = row THEN crossed ELSE crossed \cup {a}
      /\ task' = [task EXCEPT ![t] = Resting]
      /\ UNCHANGED <<accounts, active, uses>>
  BY DEF UpdateProfile, Leave
<1>4. AccountsTypeOK'
  BY <1>1, <1>2, <1>3, RestingType DEF AccountsInv, AccountsTypeOK
<1>5. OneIsOperated' /\ HeldIsFit'
  BY <1>1, <1>2, <1>3, UnsetIsNoProfile
     DEF AccountsInv, AccountsTypeOK, Tasks, OneIsOperated, HeldIsFit, Resting
<1>6. NothingYet'
  BY <1>1, <1>2, <1>3, UnsetIsNoProfile DEF AccountsInv, AccountsTypeOK, NothingYet
<1>7. PreferencesStay'
  <2> SUFFICES ASSUME NEW b \in Accounts, profiles'[b] # Unset, b \notin crossed'
               PROVE  profiles'[b] = latest'[b]
    BY DEF PreferencesStay
  <2>1. CASE b # a
    BY <1>3, <2>1 DEF AccountsInv, AccountsTypeOK, PreferencesStay
  <2>2. CASE b = a
    <3>1. profiles[a] = row /\ a \notin crossed
      BY <1>3, <2>2
    <3>2. profiles[a] = latest[a]
      BY <1>1, <3>1 DEF AccountsInv, PreferencesStay
    <3> QED
      BY <1>1, <1>3, <2>2, <3>1, <3>2 DEF AccountsInv, AccountsTypeOK
  <2> QED
    BY <2>1, <2>2
<1> QED
  BY <1>4, <1>5, <1>6, <1>7 DEF AccountsInv

LEMMA AccountsNextInv ==
    ASSUME AccountsInv, [AccountsNext]_accountVars
    PROVE  AccountsInv'
<1>1. CASE UNCHANGED accountVars
  BY <1>1 DEF accountVars, ghostVars, AccountsInv, AccountsTypeOK, Tasks, OneIsOperated, HeldIsFit, NothingYet,
              PreferencesStay
<1>2. ASSUME NEW t \in Terminals, Quit(t) PROVE AccountsInv'
  BY <1>2, LeaveKeeps DEF Quit
<1> QED
  BY <1>1, <1>2, BeginKeeps, AccountsLookKeeps, InsertKeeps, SwitchKeeps, ReadKeeps, AddKeeps, UpdateKeeps
     DEF AccountsNext

\* Every reachable state of the accounts satisfies the inductive invariant.
THEOREM AccountsInvariant == AccountsSpec => []AccountsInv
BY AccountsInitInv, AccountsNextInv, PTL DEF AccountsSpec

\* Creations and switches that looked at the same time leave one account
\* operated, as soon as there is one (account.py, ux_accounts_active).
THEOREM AlwaysOneOperated == AccountsSpec => []OneIsOperated
BY AccountsInvariant, PTL DEF AccountsInv

\* A preference is as it was last set unless one was set on a reading that was
\* out of date (user_profile.py).
THEOREM PreferencesAlwaysStay == AccountsSpec => []PreferencesStay
BY AccountsInvariant, PTL DEF AccountsInv

-----------------------------------------------------------------------------
(***************************************************************************)
(* The supervised tasks, for any set of them and any max_restarts.         *)
(***************************************************************************)
\* A status says what its coroutine does, but for one cancelled before it
\* began, whose mark stop() clears.
Marked ==
    /\ caller = "starting" => \A t \in TaskNames : at[t] = "unstarted"
    /\ \A t \in TaskNames : at[t] \in {"scheduled", "running"} => status[t].running
    /\ \A t \in TaskNames : status[t].running =>
          at[t] \in {"scheduled", "running"} \/ (at[t] = "ended" /\ t \in left)
    /\ \A t \in TaskNames : status[t].finished \/ status[t].failure => at[t] = "ended"

\* The caller tells every task it took before it waits for the first, and takes
\* no other; a task that is told and not in its factory has its cancellation
\* on the way; and one that was waited for has ended.
Told ==
    /\ \A t \in TaskNames : stopping[t] <=> Stopped /\ at[t] # "unstarted"
    /\ \A t \in TaskNames : t \in cancelled => stopping[t]
    /\ \A t \in TaskNames : stopping[t] /\ at[t] \in {"scheduled", "sleeping"} => t \in cancelled
    /\ \A t \in TaskNames : t \in left => stopping[t]
    /\ caller = "returned" => left = {}
    /\ \A t \in TaskNames : stopping[t] /\ t \notin left => at[t] = "ended"

Supervised == SupervisorTypeOK /\ Marked /\ Told /\ EndIsExplained

LEMMA SupervisedInit == SupervisorInit => Supervised
<1> SUFFICES ASSUME SupervisorInit PROVE Supervised
  OBVIOUS
<1>1. \A t \in TaskNames : status[t] = Fresh
  BY DEF SupervisorInit
<1>2. SupervisorTypeOK
  <2>1. Fresh \in Statuses
    BY MaxRestartsAssumption DEF Fresh, Statuses
  <2> QED BY <2>1 DEF SupervisorInit, SupervisorTypeOK
<1>3. Marked /\ Told /\ EndIsExplained
  BY <1>1 DEF SupervisorInit, Marked, Told, EndIsExplained, Fresh
<1> QED BY <1>2, <1>3 DEF Supervised

\* start() is called only before stop(), for tasks not yet taken.
LEMMA StartsKeep ==
    ASSUME Supervised, NEW names \in SUBSET TaskNames, Starts(names), ~Stopped, caller' = "polling"
    PROVE  Supervised'
<1> USE DEF Supervised
<1>1. \A t \in TaskNames : [status[t] EXCEPT !.running = TRUE] \in Statuses
  BY DEF SupervisorTypeOK, Statuses
<1>2. SupervisorTypeOK'
  BY <1>1 DEF Starts, SupervisorTypeOK
<1>3. \A t \in TaskNames :
         \/ t \in names /\ at[t] = "unstarted" /\ at'[t] = "scheduled" /\ status'[t].running
            /\ status'[t].finished = status[t].finished /\ status'[t].failure = status[t].failure
         \/ t \notin names /\ at'[t] = at[t] /\ status'[t] = status[t]
  BY DEF Starts, MayStart, SupervisorTypeOK, Statuses
<1>4. UNCHANGED <<stopping, cancelled, left, interrupted>>
  BY DEF Starts
<1>5. Marked'
  BY <1>3, <1>4 DEF Marked
<1>6. Told'
  BY <1>3, <1>4 DEF Told, Stopped
<1>7. EndIsExplained'
  BY <1>3, <1>4 DEF EndIsExplained
<1> QED BY <1>2, <1>5, <1>6, <1>7

LEMMA SupervisedStep == Supervised /\ [SupervisorNext]_supervisorVars => Supervised'
<1> SUFFICES ASSUME Supervised, [SupervisorNext]_supervisorVars PROVE Supervised'
  OBVIOUS
<1> USE DEF Supervised
<1>1. CASE StartSome
  <2>1. PICK names \in Batches : Starts(names)
    BY <1>1 DEF StartSome
  <2>2. names \in SUBSET TaskNames /\ ~Stopped /\ caller' = "polling"
    BY <1>1 DEF StartSome, Stopped, Batches
  <2> QED BY <2>1, <2>2, StartsKeep
<1>11. ASSUME NEW t \in TaskNames, StartAnother(t) PROVE Supervised'
  <2>1. Starts({t}) /\ ~Stopped
    BY <1>11 DEF StartAnother, Starts, MayStart
  <2>2. caller' = "polling"
    BY <1>11, <2>1 DEF StartAnother, Stopped, SupervisorTypeOK
  <2> QED BY <2>1, <2>2, StartsKeep
<1>2. ASSUME NEW t \in TaskNames, Begin(t) PROVE Supervised'
  <2>1. SupervisorTypeOK'
    BY <1>2 DEF Begin, Running, SupervisorTypeOK, Statuses
  <2>2. Marked'
    BY <1>2 DEF Begin, Running, SupervisorTypeOK, Statuses, Marked, Told, Stopped
  <2>3. Told'
    BY <1>2 DEF Begin, Running, SupervisorTypeOK, Statuses, Marked, Told, Stopped
  <2>4. EndIsExplained'
    BY <1>2 DEF Begin, Running, SupervisorTypeOK, Statuses, Marked, Told, Stopped, EndIsExplained
  <2> QED BY <2>1, <2>2, <2>3, <2>4
<1>3. ASSUME NEW t \in TaskNames, Return(t) PROVE Supervised'
  <2>1. SupervisorTypeOK'
    BY <1>3 DEF Return, SupervisorTypeOK, Statuses
  <2>2. Marked'
    BY <1>3 DEF Return, SupervisorTypeOK, Statuses, Marked, Told, Stopped
  <2>3. Told'
    BY <1>3 DEF Return, SupervisorTypeOK, Statuses, Marked, Told, Stopped
  <2>4. EndIsExplained'
    BY <1>3 DEF Return, SupervisorTypeOK, Statuses, Marked, Told, Stopped, EndIsExplained
  <2> QED BY <2>1, <2>2, <2>3, <2>4
<1>4. ASSUME NEW t \in TaskNames, Raise(t) PROVE Supervised'
  <2>1. SupervisorTypeOK'
    <3>1. status[t] \in Statuses
      BY DEF SupervisorTypeOK
    <3>2. CASE GivesUp(t)
      <4>1. [status[t] EXCEPT !.running = FALSE, !.failure = TRUE] \in Statuses
        BY <3>1 DEF Statuses
      <4> QED BY <1>4, <3>2, <4>1 DEF Raise, SupervisorTypeOK
    <3>3. CASE ~GivesUp(t)
      <4>1. status[t].restarts + 1 \in 0..MaxRestarts
        BY <3>1, <3>3, MaxRestartsAssumption DEF GivesUp, MayRestart, Statuses
      <4>2. [status[t] EXCEPT !.running = FALSE, !.restarts = @ + 1] \in Statuses
        BY <3>1, <4>1 DEF Statuses
      <4> QED BY <1>4, <3>3, <4>2, ZenonT(40) DEF Raise, SupervisorTypeOK
    <3> QED BY <3>2, <3>3
  <2>2. Marked'
    BY <1>4 DEF Raise, SupervisorTypeOK, Statuses, Marked
  <2>3. Told'
    BY <1>4 DEF Raise, GivesUp, SupervisorTypeOK, Statuses, Marked, Told, Stopped
  <2>4. EndIsExplained'
    BY <1>4, MaxRestartsAssumption
    DEF Raise, GivesUp, MayRestart, SupervisorTypeOK, Statuses, Marked, EndIsExplained
  <2> QED BY <2>1, <2>2, <2>3, <2>4
<1>5. ASSUME NEW t \in TaskNames, Wake(t) PROVE Supervised'
  <2>1. SupervisorTypeOK'
    BY <1>5 DEF Wake, Running, SupervisorTypeOK, Statuses
  <2>2. Marked'
    BY <1>5 DEF Wake, Running, SupervisorTypeOK, Statuses, Marked, Told, Stopped
  <2>3. Told'
    BY <1>5 DEF Wake, Running, SupervisorTypeOK, Statuses, Marked, Told, Stopped
  <2>4. EndIsExplained'
    BY <1>5 DEF Wake, Running, SupervisorTypeOK, Statuses, Marked, Told, Stopped, EndIsExplained
  <2> QED BY <2>1, <2>2, <2>3, <2>4
<1>6. ASSUME NEW t \in TaskNames, Cancelled(t) PROVE Supervised'
  <2>1. SupervisorTypeOK'
    <3>1. [status[t] EXCEPT !.running = FALSE] \in Statuses
      BY DEF SupervisorTypeOK, Statuses
    <3>2. status' \in [TaskNames -> Statuses]
      BY <1>6, <3>1 DEF Cancelled, Running, SupervisorTypeOK
    <3> QED BY <1>6, <3>2 DEF Cancelled, SupervisorTypeOK
  <2>2. Marked'
    BY <1>6 DEF Cancelled, Running, SupervisorTypeOK, Statuses, Marked, Told, Stopped
  <2>3. Told'
    BY <1>6 DEF Cancelled, Running, SupervisorTypeOK, Statuses, Marked, Told, Stopped
  <2>4. EndIsExplained'
    BY <1>6 DEF Cancelled, Running, SupervisorTypeOK, Statuses, Marked, Told, Stopped, EndIsExplained
  <2> QED BY <2>1, <2>2, <2>3, <2>4
<1>7. ASSUME Poll \/ Interrupt PROVE Supervised'
  <2>0. StopAll /\ caller = "polling" /\ interrupted' \in BOOLEAN
    BY <1>7 DEF Poll, Interrupt, SupervisorTypeOK
  <2>1. SupervisorTypeOK'
    BY <2>0 DEF StopAll, Registered, SupervisorTypeOK
  <2>2. Marked'
    BY <2>0 DEF StopAll, Registered, Marked, Told, Stopped
  <2>3. Told'
    BY <2>0 DEF StopAll, Registered, SupervisorTypeOK, Marked, Told, Stopped
  <2>4. EndIsExplained'
    BY <2>0 DEF StopAll, Registered, EndIsExplained, Told, Stopped
  <2> QED BY <2>1, <2>2, <2>3, <2>4
<1>8. ASSUME NEW t \in TaskNames, Await(t) PROVE Supervised'
  <2>1. SupervisorTypeOK'
    BY <1>8 DEF Await, HasEnded, Running, SupervisorTypeOK, Statuses
  <2>2. Marked'
    BY <1>8 DEF Await, HasEnded, Running, SupervisorTypeOK, Statuses, Marked, Told, Stopped
  <2>3. Told'
    BY <1>8 DEF Await, HasEnded, Running, SupervisorTypeOK, Statuses, Marked, Told, Stopped
  <2>4. EndIsExplained'
    BY <1>8 DEF Await, HasEnded, Running, SupervisorTypeOK, Statuses, Marked, Told, Stopped, EndIsExplained
  <2> QED BY <2>1, <2>2, <2>3, <2>4
<1>9. ASSUME StopReturns PROVE Supervised'
  BY <1>9 DEF StopReturns, SupervisorTypeOK, Statuses, Marked, Told, Stopped, EndIsExplained
<1>10. ASSUME UNCHANGED supervisorVars PROVE Supervised'
  BY <1>10 DEF supervisorVars, SupervisorTypeOK, Statuses, Marked, Told, Stopped, EndIsExplained
<1> QED
  BY <1>1, <1>2, <1>3, <1>4, <1>5, <1>6, <1>7, <1>8, <1>9, <1>10, <1>11
  DEF SupervisorNext, Task

LEMMA SupervisedHolds == SupervisorSpec => []Supervised
<1> QED BY SupervisedInit, SupervisedStep, PTL DEF SupervisorSpec

\* The restart counter stays within max_restarts and no status has a value the
\* report cannot show.
THEOREM SupervisorTypeCorrect == SupervisorSpec => []SupervisorTypeOK
<1>1. Supervised => SupervisorTypeOK
  BY DEF Supervised
<1> QED BY <1>1, SupervisedHolds, PTL

\* When stop() has returned, every coroutine it took has ended and is marked
\* so: whether it was running, asleep, not begun, or swallowed its cancellation.
THEOREM StopEndsEverything == SupervisorSpec => []StoppedMeansEnded
<1>1. Supervised => StoppedMeansEnded
  <2> SUFFICES ASSUME Supervised, caller = "returned", NEW t \in TaskNames
               PROVE  at[t] \in {"unstarted", "ended"} /\ ~status[t].running
    BY DEF StoppedMeansEnded
  <2>1. left = {}
    BY DEF Supervised, Told
  <2>2. at[t] \in {"unstarted", "ended"}
    BY <2>1 DEF Supervised, Told, Stopped
  <2> QED BY <2>1, <2>2 DEF Supervised, Marked
<1> QED BY <1>1, SupervisedHolds, PTL

\* A task that ended by itself finished, or failed after exactly max_restarts
\* restarts.
THEOREM EndsAreExplained == SupervisorSpec => []EndIsExplained
<1>1. Supervised => EndIsExplained
  BY DEF Supervised
<1> QED BY <1>1, SupervisedHolds, PTL

\* No attempt begins after a task finished or was told to stop.
THEOREM NothingStartsAgain == SupervisorSpec => NoAttemptAfterEnd
<1>1. ASSUME Supervised, [SupervisorNext]_supervisorVars
      PROVE  [\A t \in TaskNames : (stopping[t] \/ status[t].finished) /\ at[t] # "running"
                 => at'[t] # "running"]_supervisorVars
  <2> SUFFICES ASSUME NEW t \in TaskNames, SupervisorNext,
                      stopping[t] \/ status[t].finished, at[t] # "running"
               PROVE  at'[t] # "running"
    BY <1>1
  <2>1. CASE StartSome \/ \E u \in TaskNames : StartAnother(u)
    BY <1>1, <2>1 DEF StartSome, StartAnother, Starts, MayStart, Supervised, SupervisorTypeOK, Marked, Told
  <2>2. ASSUME NEW u \in TaskNames, Task(u) PROVE at'[t] # "running"
    BY <1>1, <2>2
    DEF Task, Begin, Return, Raise, Wake, Cancelled, Running, Supervised, SupervisorTypeOK, Statuses,
        Marked, Told
  <2>3. CASE Poll \/ Interrupt \/ StopReturns \/ \E u \in TaskNames : Await(u)
    BY <2>3 DEF Poll, Interrupt, StopAll, StopReturns, Await
  <2> QED BY <2>1, <2>2, <2>3 DEF SupervisorNext
<1> QED BY <1>1, SupervisedHolds, PTL DEF SupervisorSpec, NoAttemptAfterEnd
=============================================================================
