-------------------------- MODULE UnitOfWorkProofs --------------------------
(***************************************************************************)
(* Units of work are isolated and whole, for any number of units, rows and *)
(* cancellations.                                                          *)
(***************************************************************************)
EXTENDS UnitOfWork, TLAPS, SequenceTheorems

\* Where a unit is while it waits for a job of some kind.
Awaits(kind) ==
    CASE kind = "release" -> {"releasing"} [] kind = "begin" -> {"beginning"}
      [] kind = "write" -> {"writing"} [] kind = "commit" -> {"committing"}
      [] kind = "rollback" -> {"undoing", "leaving"}

\* Where a unit is that was cancelled while its job ran.
Cut == {"leaving", "stranded", "unrolled"}

\* One job runs that nobody waits for any more, at most; behind it, or without
\* it, there is at most the one job that the unit with the lock waits for.
QueueFits ==
    /\ Len(jobs) <= 2 /\ (running => jobs # <<>>)
    /\ \A i \in 1..Len(jobs) :
          IF jobs[i].awaited THEN i = Len(jobs) /\ at[jobs[i].unit] \in Awaits(jobs[i].kind)
          ELSE i = 1 /\ running /\ at[jobs[i].unit] \in Cut
    /\ \A u \in Units : at[u] \in AwaitsJob =>
          jobs # <<>> /\ jobs[Len(jobs)].awaited /\ jobs[Len(jobs)].unit = u
    /\ Len(jobs) = 2 => jobs[2].kind \in {"release", "rollback"}

\* One unit has the lock, and every unit at work has it.
LockFits ==
    /\ \A u, v \in holding : u = v
    /\ \A u \in Units :
          /\ at[u] \in AwaitsJob \cup {"open"} => u \in holding
          /\ u \in holding => at[u] \in AwaitsJob \cup {"open", "stranded"}
          /\ at[u] = "open" => jobs = <<>>

\* A transaction is open under every unit that may write, and holds what that
\* unit wrote; a unit that has no transaction yet wrote nothing.
ConnectionFits ==
    /\ conn.by # "auto"
    /\ conn.by = "free" => conn.rows = {}
    /\ \A u \in Units :
          /\ conn.by = u => conn.rows = {u} \X (1..wrote[u])
          /\ at[u] = "open" => conn.by = u
          /\ at[u] \in {"idle", "locking", "releasing", "beginning"} => wrote[u] = 0
    /\ \A i \in 1..Len(jobs) :
          /\ jobs[i].kind \in {"release", "begin"} => wrote[jobs[i].unit] = 0
          /\ jobs[i].kind \in {"write", "commit"} => conn.by = jobs[i].unit
          /\ jobs[i].kind = "write" => wrote[jobs[i].unit] < Writes
          /\ jobs[i].kind = "commit" => wrote[jobs[i].unit] = Writes

\* What is durable was committed whole, and only that is announced.
DiskFits ==
    \A u \in Units :
        /\ RowsOf(u) \subseteq disk \/ RowsOf(u) \cap disk = {}
        /\ at[u] = "announcing" \/ u \in announced => RowsOf(u) \subseteq disk

UowInv == TypeOK /\ QueueFits /\ LockFits /\ ConnectionFits /\ DiskFits

-----------------------------------------------------------------------------
LEMMA UowInitInv == Init => UowInv
<1> SUFFICES ASSUME Init PROVE UowInv
  OBVIOUS
<1>1. TypeOK
  <2>1. 0 \in 0..Writes /\ 0 \in 0..MaxCancels /\ jobs \in Seq(Queued)
    BY WritesAssumption, MaxCancelsAssumption DEF Init
  <2> QED
    BY <2>1 DEF Init, TypeOK, Closed
<1>2. QueueFits /\ LockFits /\ ConnectionFits /\ DiskFits
  BY UnitsAssumption DEF Init, QueueFits, LockFits, ConnectionFits, DiskFits, Closed, AwaitsJob
<1> QED
  BY <1>1, <1>2 DEF UowInv

LEMMA UpToTwo ==
    ASSUME NEW n \in Nat, n <= 2
    PROVE  n \in {0, 1, 2}
OBVIOUS

LEMMA UpToOne ==
    ASSUME NEW n \in Nat, n <= 1
    PROVE  n \in {0, 1}
OBVIOUS

LEMMA OneIsFirst ==
    ASSUME NEW n \in Nat, n # 0
    PROVE  1 \in 1..n
OBVIOUS

LEMMA LastOrBefore ==
    ASSUME NEW n \in Nat, NEW i \in 1..(n + 1)
    PROVE  i \in 1..n \/ i = n + 1
OBVIOUS

\* A queue is empty if and only if it has no length, and its jobs are jobs.
LEMMA QueueType ==
    ASSUME NEW q \in Seq(Queued)
    PROVE  /\ Len(q) \in Nat /\ (q = <<>> <=> Len(q) = 0)
           /\ \A i \in 1..Len(q) : q[i] \in Queued
<1>1. Len(q) \in Nat
  BY LenProperties
<1>2. q = <<>> => Len(q) = 0
  BY EmptySeq
<1>3. q # <<>> => Len(q) # 0
  BY EmptySeq
<1>4. \A i \in 1..Len(q) : q[i] \in Queued
  BY ElementOfSeq
<1> QED
  BY <1>1, <1>2, <1>3, <1>4

\* A job in the queue is a job.
LEMMA JobType ==
    ASSUME TypeOK, NEW i \in 1..Len(jobs)
    PROVE  jobs[i] \in Queued /\ jobs[i].unit \in Units /\ jobs[i].kind \in Kinds
<1>1. jobs[i] \in Queued
  BY ElementOfSeq DEF TypeOK
<1> QED
  BY <1>1 DEF Queued

\* A unit that waits for no job and did not has its steps to itself.
LEMMA StepFits ==
    ASSUME UowInv, NEW u \in Units, NEW step \in {"locking", "timed out", "ended"}, Goes(u, step),
           at[u] \notin AwaitsJob \cup Cut \cup {"open"},
           UNCHANGED <<holding, jobs, running>>
    PROVE  QueueFits'
<1>1. \A i \in 1..Len(jobs) : jobs[i].awaited => jobs[i].unit # u
  BY JobType DEF UowInv, QueueFits, Awaits, AwaitsJob, Kinds
<1>2. \A i \in 1..Len(jobs) : ~jobs[i].awaited => at'[jobs[i].unit] = at[jobs[i].unit]
  BY JobType DEF UowInv, TypeOK, QueueFits, Goes
<1>3. \A i \in 1..Len(jobs) : jobs[i].awaited => at'[jobs[i].unit] = at[jobs[i].unit]
  BY <1>1, JobType DEF UowInv, TypeOK, Goes
<1>4. \A v \in Units : at'[v] \in AwaitsJob => at[v] \in AwaitsJob
  BY DEF UowInv, TypeOK, Goes, AwaitsJob
<1> QED
  BY <1>2, <1>3, <1>4 DEF UowInv, QueueFits

\* The job of a unit that takes the lock, or of one that has none to wait for.
LEMMA QueuedType ==
    ASSUME NEW u \in Units, NEW kind \in Kinds
    PROVE  Job(u, kind) \in Queued /\ Job(u, kind).unit = u /\ Job(u, kind).kind = kind
           /\ Job(u, kind).awaited
BY DEF Job, Queued

LEMMA EnterKeeps ==
    ASSUME UowInv, NEW u \in Units, Enter(u) \/ LockTimeout(u)
    PROVE  UowInv'
<1>1. TypeOK'
  BY DEF Enter, LockTimeout, Goes, UowInv, TypeOK, Finished
<1>2. QueueFits'
  BY StepFits DEF Enter, LockTimeout, AwaitsJob, Cut
<1>3. LockFits' /\ DiskFits'
  BY ZenonT(40) DEF Enter, LockTimeout, Goes, UowInv, TypeOK, LockFits, DiskFits, AwaitsJob
<1>4. ConnectionFits'
  <2>1. /\ UNCHANGED <<wrote, jobs, conn>>
        /\ \A v \in Units : /\ at'[v] = "open" => at[v] = "open"
                            /\ at'[v] \in {"idle", "locking", "releasing", "beginning"} =>
                                  at[v] \in {"idle", "locking", "releasing", "beginning"}
    BY DEF Enter, LockTimeout, Goes, UowInv, TypeOK
  <2> QED
    BY <2>1 DEF UowInv, ConnectionFits
<1> QED
  BY <1>1, <1>2, <1>3, <1>4 DEF UowInv

LEMMA AnnounceKeeps ==
    ASSUME UowInv, NEW u \in Units, Announce(u)
    PROVE  UowInv'
<1>1. TypeOK'
  BY DEF Announce, Goes, UowInv, TypeOK, Finished
<1>2. QueueFits'
  BY StepFits DEF Announce, AwaitsJob, Cut
<1>3. LockFits' /\ DiskFits'
  BY DEF Announce, Goes, UowInv, TypeOK, LockFits, DiskFits, AwaitsJob
<1>4. ConnectionFits'
  BY DEF Announce, Goes, UowInv, TypeOK, ConnectionFits
<1> QED
  BY <1>1, <1>2, <1>3, <1>4 DEF UowInv

LEMMA StartKeeps ==
    ASSUME UowInv, StartJob
    PROVE  UowInv'
BY DEF StartJob, UowInv, TypeOK, QueueFits, LockFits, ConnectionFits, DiskFits

\* The queue of a unit that has just queued a job, behind a rest of at most one
\* that nobody waits for.
LEMMA AppendFits ==
    ASSUME TypeOK, NEW u \in Units, NEW kind \in Kinds, NEW step \in Awaits(kind),
           NEW rest \in Seq(Queued), Len(rest) <= 1, jobs' = Append(rest, Job(u, kind)),
           Goes(u, step), UNCHANGED running,
           \A v \in Units \ {u} : at[v] \notin AwaitsJob,
           rest # <<>> =>
              /\ running /\ ~rest[1].awaited /\ kind \in {"release", "rollback"}
              /\ rest[1].unit = u => step = "leaving"
              /\ rest[1].unit # u => at[rest[1].unit] \in Cut
    PROVE  /\ jobs' \in Seq(Queued) /\ Len(jobs') = Len(rest) + 1
           /\ \A i \in 1..Len(rest) : jobs'[i] = rest[i]
           /\ jobs'[Len(rest) + 1] = Job(u, kind)
           /\ QueueFits'
<1>1. Job(u, kind) \in Queued /\ Job(u, kind).unit = u /\ Job(u, kind).kind = kind
      /\ Job(u, kind).awaited
  BY QueuedType
<1>2. /\ jobs' \in Seq(Queued) /\ Len(jobs') = Len(rest) + 1
      /\ \A i \in 1..Len(rest) : jobs'[i] = rest[i]
      /\ jobs'[Len(rest) + 1] = Job(u, kind)
  BY <1>1, AppendProperties
<1>3. Len(rest) \in {0, 1} /\ (Len(rest) = 0 <=> rest = <<>>)
  <2>1. Len(rest) \in Nat /\ (Len(rest) = 0 <=> rest = <<>>)
    BY QueueType
  <2>2. Len(rest) \in {0, 1}
    BY <2>1, UpToOne
  <2> QED
    BY <2>1, <2>2
<1>4. rest # <<>> => rest[1] \in Queued /\ rest[1].unit \in Units
  <2>1. rest # <<>> => 1 \in 1..Len(rest)
    BY <1>3
  <2>2. rest # <<>> => rest[1] \in Queued
    BY <2>1, ElementOfSeq
  <2> QED
    BY <2>2 DEF Queued
<1>5. at'[u] = step /\ \A v \in Units \ {u} : at'[v] = at[v]
  BY DEF Goes, TypeOK
<1>6. \A i \in 1..Len(jobs') :
          IF jobs'[i].awaited THEN i = Len(jobs') /\ at'[jobs'[i].unit] \in Awaits(jobs'[i].kind)
          ELSE i = 1 /\ running' /\ at'[jobs'[i].unit] \in Cut
  BY <1>1, <1>2, <1>3, <1>4, <1>5 DEF Cut
<1>7. \A v \in Units : at'[v] \in AwaitsJob =>
          jobs' # <<>> /\ jobs'[Len(jobs')].awaited /\ jobs'[Len(jobs')].unit = v
  BY <1>1, <1>2, <1>3, <1>5, EmptySeq
<1>8. Len(jobs') <= 2 /\ jobs' # <<>> /\ (Len(jobs') = 2 => jobs'[2].kind \in {"release", "rollback"})
  BY <1>1, <1>2, <1>3, EmptySeq
<1> QED
  BY <1>2, <1>6, <1>7, <1>8 DEF QueueFits

\* What is left of the queue when a unit stops waiting for its job.
LEMMA AbandonedFits ==
    ASSUME UowInv, NEW u \in Units, at[u] \in AwaitsJob
    PROVE  /\ Abandoned(u) \in Seq(Queued) /\ Len(Abandoned(u)) <= 1
           /\ running => Abandoned(u) # <<>>
           /\ Abandoned(u) # <<>> =>
                 /\ running /\ ~Abandoned(u)[1].awaited
                 /\ 1 \in 1..Len(jobs) /\ Abandoned(u)[1].unit = jobs[1].unit
                 /\ Abandoned(u)[1].kind = jobs[1].kind
                 /\ Abandoned(u)[1].unit # u => at[Abandoned(u)[1].unit] \in Cut
<1> DEFINE n == Len(jobs)
<1>1. jobs \in Seq(Queued) /\ n \in {1, 2} /\ jobs[n].awaited /\ jobs[n].unit = u
  <2>1. jobs \in Seq(Queued) /\ n <= 2 /\ jobs # <<>> /\ jobs[n].awaited /\ jobs[n].unit = u
    BY DEF UowInv, TypeOK, QueueFits
  <2>2. n \in Nat /\ n # 0
    BY <2>1, QueueType
  <2>3. n <= 2
    BY <2>1
  <2>4. n \in {1, 2}
    BY <2>2, <2>3, UpToTwo
  <2> QED
    BY <2>1, <2>4
<1>2. \A i \in 1..n : jobs[i] \in Queued /\ jobs[i].unit \in Units
  BY <1>1, JobType DEF UowInv
<1>3. Head(jobs) = jobs[1]
  BY <1>1
<1>4. CASE Runs(u)
  <2>1. running /\ jobs[1].unit = u /\ jobs[1].awaited /\ n = 1
    BY <1>1, <1>3, <1>4 DEF Runs, UowInv, QueueFits
  <2>2. Abandoned(u) = [jobs EXCEPT ![1] = [jobs[1] EXCEPT !.awaited = FALSE]]
    BY <1>4 DEF Abandoned
  <2>3. [jobs[1] EXCEPT !.awaited = FALSE] \in Queued
    <3>1. jobs[1] \in Queued
      BY <1>2, <2>1
    <3> QED
      BY <3>1 DEF Queued
  <2>4. Abandoned(u) \in Seq(Queued) /\ Len(Abandoned(u)) = 1
        /\ Abandoned(u)[1] = [jobs[1] EXCEPT !.awaited = FALSE]
    <3> DEFINE job == [jobs[1] EXCEPT !.awaited = FALSE]
    <3>1. job \in Queued /\ 1 \in 1..Len(jobs)
      BY <2>1, <2>3
    <3> HIDE DEF job
    <3>2. /\ [jobs EXCEPT ![1] = job] \in Seq(Queued) /\ Len([jobs EXCEPT ![1] = job]) = Len(jobs)
          /\ [jobs EXCEPT ![1] = job][1] = job
      BY <1>1, <3>1, ExceptSeq
    <3> QED
      BY <2>1, <2>2, <3>2 DEF job
  <2>5. jobs[1] \in Queued
    BY <1>2, <2>1
  <2>6. /\ ~Abandoned(u)[1].awaited /\ Abandoned(u)[1].unit = u
        /\ Abandoned(u)[1].kind = jobs[1].kind
    BY <2>1, <2>4, <2>5 DEF Queued
  <2>7. Abandoned(u) # <<>>
    BY <2>4, QueueType, SMTT(30)
  <2> QED
    BY <2>1, <2>4, <2>6, <2>7
<1>5. CASE ~Runs(u)
  <2> DEFINE i == CHOOSE i \in 1..Len(jobs) : jobs[i].unit = u /\ jobs[i].awaited
  <2>1. i = n
    BY <1>1 DEF UowInv, QueueFits
  <2>2. Abandoned(u) = SubSeq(jobs, 1, n - 1) \o SubSeq(jobs, n + 1, n)
    BY <1>5, <2>1 DEF Abandoned
  <2>3. SubSeq(jobs, n + 1, n) = <<>>
    BY <1>1, SubSeqEmpty
  <2>4. SubSeq(jobs, 1, n - 1) \in Seq(Queued) /\ Len(SubSeq(jobs, 1, n - 1)) = n - 1
        /\ (n = 2 => SubSeq(jobs, 1, n - 1)[1] = jobs[1])
    <3>1. \A k \in 1..(n - 1) : jobs[k] \in Queued
      BY <1>1, <1>2
    <3>2. /\ SubSeq(jobs, 1, n - 1) \in Seq(Queued)
          /\ Len(SubSeq(jobs, 1, n - 1)) = IF 1 <= n - 1 THEN n - 1 - 1 + 1 ELSE 0
          /\ \A k \in 1..(n - 1 - 1 + 1) : SubSeq(jobs, 1, n - 1)[k] = jobs[1 + k - 1]
      BY <1>1, <3>1, SubSeqProperties
    <3>3. n = 2 => SubSeq(jobs, 1, n - 1)[1] = jobs[1]
      BY <3>2
    <3>4. ASSUME NEW k \in {1, 2} PROVE (IF 1 <= k - 1 THEN k - 1 - 1 + 1 ELSE 0) = k - 1
      OBVIOUS
    <3>5. Len(SubSeq(jobs, 1, n - 1)) = n - 1
      BY <1>1, <3>2, <3>4
    <3> QED
      BY <3>2, <3>3, <3>5
  <2>5. Abandoned(u) = SubSeq(jobs, 1, n - 1)
    BY <2>2, <2>3, <2>4, ConcatEmptySeq
  <2>6. n = 1 => ~running
    BY <1>1, <1>3, <1>5 DEF Runs
  <2>7. n = 2 => ~jobs[1].awaited /\ running /\ at[jobs[1].unit] \in Cut
    BY <1>1 DEF UowInv, QueueFits
  <2> QED
    BY <1>1, <2>4, <2>5, <2>6, <2>7, QueueType DEF Cut
<1> QED
  BY <1>4, <1>5

\* A unit at work is the one with the lock, and no other waits for a job.
LEMMA OneAtWork ==
    ASSUME UowInv, NEW u \in Units, u \in holding \/ holding = {}
    PROVE  \A v \in Units \ {u} : at[v] \notin AwaitsJob \cup {"open"}
BY DEF UowInv, LockFits

LEMMA AcquireKeeps ==
    ASSUME UowInv, NEW u \in Units, Acquire(u)
    PROVE  UowInv'
<1>1. /\ at[u] = "locking" /\ holding = {} /\ jobs' = Append(jobs, Job(u, "release"))
      /\ Goes(u, "releasing") /\ holding' = {u}
      /\ UNCHANGED <<wrote, running, conn, disk, announced, cancels>>
  BY DEF Acquire, LockIsFree
<1>2. \A v \in Units : at[v] \notin AwaitsJob \cup {"open"}
  BY <1>1, OneAtWork DEF AwaitsJob
<1>3. /\ jobs \in Seq(Queued) /\ Len(jobs) \in Nat /\ (jobs = <<>> <=> Len(jobs) = 0)
  BY QueueType DEF UowInv, TypeOK
<1>4. \A i \in 1..Len(jobs) : jobs[i] \in Queued /\ jobs[i].unit \in Units /\ jobs[i].kind \in Kinds
  BY JobType DEF UowInv
<1>5. \A i \in 1..Len(jobs) : ~jobs[i].awaited
  BY <1>2, <1>4 DEF UowInv, QueueFits, Awaits, AwaitsJob, Kinds
<1>6. \A i \in 1..Len(jobs) : i = 1 /\ running /\ at[jobs[i].unit] \in Cut
  BY <1>5 DEF UowInv, QueueFits
<1>7. Len(jobs) <= 1
  <2>1. Len(jobs) \in 1..Len(jobs) => Len(jobs) = 1
    BY <1>6
  <2>2. ASSUME NEW n \in Nat, n \in 1..n => n = 1 PROVE n <= 1
    BY <2>2
  <2> QED
    BY <1>3, <2>1, <2>2
<1>8. jobs # <<>> => 1 \in 1..Len(jobs)
  BY <1>3, OneIsFirst
<1>9. /\ jobs' \in Seq(Queued) /\ Len(jobs') = Len(jobs) + 1
      /\ \A i \in 1..Len(jobs) : jobs'[i] = jobs[i]
      /\ jobs'[Len(jobs) + 1] = Job(u, "release")
      /\ QueueFits'
  <2>1. "releasing" \in Awaits("release") /\ "release" \in Kinds
    BY DEF Awaits, Kinds
  <2>2. jobs # <<>> => running /\ ~jobs[1].awaited /\ at[jobs[1].unit] \in Cut
                       /\ jobs[1].unit # u
    BY <1>1, <1>5, <1>6, <1>8 DEF Cut
  <2> QED
    BY <1>1, <1>2, <1>3, <1>7, <2>1, <2>2, AppendFits DEF UowInv
<1>10. TypeOK'
  BY <1>1, <1>9 DEF UowInv, TypeOK, Goes, AwaitsJob
<1>11. LockFits'
  BY <1>1, <1>2 DEF UowInv, TypeOK, LockFits, Goes, AwaitsJob
<1>12. DiskFits'
  BY <1>1 DEF UowInv, TypeOK, DiskFits, Goes
<1>13. ConnectionFits'
  <2>1. \A i \in 1..Len(jobs') : \/ i \in 1..Len(jobs) /\ jobs'[i] = jobs[i]
                                \/ jobs'[i] = Job(u, "release")
    BY <1>3, <1>9, LastOrBefore
  <2>2. wrote[u] = 0
    BY <1>1 DEF UowInv, ConnectionFits
  <2>3. \A i \in 1..Len(jobs') :
          /\ jobs'[i].kind \in {"release", "begin"} => wrote'[jobs'[i].unit] = 0
          /\ jobs'[i].kind \in {"write", "commit"} => conn'.by = jobs'[i].unit
          /\ jobs'[i].kind = "write" => wrote'[jobs'[i].unit] < Writes
          /\ jobs'[i].kind = "commit" => wrote'[jobs'[i].unit] = Writes
    BY <1>1, <2>1, <2>2 DEF UowInv, ConnectionFits, Job
  <2> QED
    BY <1>1, <2>2, <2>3 DEF UowInv, TypeOK, ConnectionFits, Goes
<1> QED
  BY <1>9, <1>10, <1>11, <1>12, <1>13 DEF UowInv

\* A unit at work queues a job, behind a rest that nobody waits for.
LEMMA QueueKeeps ==
    ASSUME UowInv, NEW u \in Units, at[u] \in {"open", "writing", "committing"},
           NEW kind \in {"write", "commit", "rollback"}, NEW step \in Awaits(kind),
           NEW rest \in Seq(Queued), Len(rest) <= 1,
           rest # <<>> =>
              /\ running /\ ~rest[1].awaited /\ kind = "rollback" /\ step = "leaving"
              /\ 1 \in 1..Len(jobs) /\ rest[1].unit = jobs[1].unit /\ rest[1].kind = jobs[1].kind
              /\ rest[1].unit # u => at[rest[1].unit] \in Cut,
           kind = "write" => conn.by = u /\ wrote[u] < Writes,
           kind = "commit" => conn.by = u /\ wrote[u] = Writes,
           jobs' = Append(rest, Job(u, kind)), Goes(u, step), cancels' \in 0..MaxCancels,
           UNCHANGED <<wrote, holding, running, conn, disk, announced>>
    PROVE  UowInv'
<1>1. u \in holding /\ \A v \in Units \ {u} : at[v] \notin AwaitsJob \cup {"open"}
  <2>1. u \in holding
    BY DEF UowInv, LockFits, AwaitsJob
  <2> QED
    BY <2>1, OneAtWork
<1>2. /\ jobs' \in Seq(Queued) /\ Len(jobs') = Len(rest) + 1
      /\ \A i \in 1..Len(rest) : jobs'[i] = rest[i]
      /\ jobs'[Len(rest) + 1] = Job(u, kind)
      /\ QueueFits'
  <2>1. kind \in Kinds
    BY DEF Kinds
  <2> QED
    BY <1>1, <2>1, AppendFits DEF UowInv
<1>3. step \in {"writing", "committing", "undoing", "leaving"}
  BY DEF Awaits
<1>4. TypeOK'
  BY <1>2, <1>3 DEF UowInv, TypeOK, Goes, AwaitsJob
<1>5. LockFits'
  BY <1>1, <1>3 DEF UowInv, TypeOK, LockFits, Goes, AwaitsJob
<1>6. DiskFits'
  BY <1>3 DEF UowInv, TypeOK, DiskFits, Goes
<1>7. \A i \in 1..Len(jobs') : \/ i = 1 /\ 1 \in 1..Len(jobs) /\ jobs'[i].unit = jobs[1].unit
                                 /\ jobs'[i].kind = jobs[1].kind
                              \/ jobs'[i] = Job(u, kind)
  <2>1. Len(rest) \in Nat /\ (rest = <<>> <=> Len(rest) = 0)
    BY QueueType
  <2>2. \A i \in 1..Len(rest) : i = 1 /\ rest # <<>>
    <3>1. ASSUME NEW n \in {0, 1}, NEW i \in 1..n PROVE i = 1 /\ n # 0
      OBVIOUS
    <3> QED
      BY <2>1, <3>1, UpToOne
  <2> QED
    BY <1>2, <2>1, <2>2, LastOrBefore
<1>8. \A i \in 1..Len(jobs') :
        /\ jobs'[i].kind \in {"release", "begin"} => wrote'[jobs'[i].unit] = 0
        /\ jobs'[i].kind \in {"write", "commit"} => conn'.by = jobs'[i].unit
        /\ jobs'[i].kind = "write" => wrote'[jobs'[i].unit] < Writes
        /\ jobs'[i].kind = "commit" => wrote'[jobs'[i].unit] = Writes
  BY <1>7 DEF UowInv, ConnectionFits, Job
<1>9. ConnectionFits'
  BY <1>3, <1>8 DEF UowInv, TypeOK, ConnectionFits, Goes
<1> QED
  BY <1>2, <1>4, <1>5, <1>6, <1>9 DEF UowInv

LEMMA OpenKeeps ==
    ASSUME UowInv, NEW u \in Units, Write(u) \/ Commit(u) \/ ExitEarly(u)
    PROVE  UowInv'
<1>1. at[u] = "open" /\ conn.by = u /\ jobs = <<>> /\ jobs \in Seq(Queued) /\ Len(jobs) <= 1
  <2>1. at[u] = "open" /\ conn.by = u /\ jobs = <<>> /\ jobs \in Seq(Queued)
    BY DEF Write, Commit, ExitEarly, UowInv, LockFits, ConnectionFits, TypeOK
  <2>2. Len(jobs) = 0
    BY <2>1, QueueType
  <2> QED
    BY <2>1, <2>2
<1>2. wrote[u] \in 0..Writes /\ Writes \in Nat /\ cancels \in 0..MaxCancels
  BY WritesAssumption DEF UowInv, TypeOK
<1>3. UNCHANGED <<wrote, holding, running, conn, disk, announced>> /\ cancels' \in 0..MaxCancels
  BY <1>2 DEF Write, Commit, ExitEarly
<1>4. CASE Write(u)
  <2>1. wrote[u] < Writes
    BY <1>4 DEF Write, HasMore
  <2>2. "writing" \in Awaits("write") /\ jobs' = Append(jobs, Job(u, "write")) /\ Goes(u, "writing")
    BY <1>4 DEF Write, Awaits
  <2> QED
    BY <1>1, <1>3, <2>1, <2>2, QueueKeeps
<1>5. CASE Commit(u)
  <2>1. wrote[u] = Writes
    BY <1>5 DEF Commit
  <2>2. "committing" \in Awaits("commit") /\ jobs' = Append(jobs, Job(u, "commit"))
        /\ Goes(u, "committing")
    BY <1>5 DEF Commit, Awaits
  <2> QED
    BY <1>1, <1>3, <2>1, <2>2, QueueKeeps
<1>6. CASE ExitEarly(u)
  <2>1. "leaving" \in Awaits("rollback") /\ jobs' = Append(jobs, Job(u, "rollback"))
        /\ Goes(u, "leaving")
    BY <1>6 DEF ExitEarly, Awaits
  <2> QED
    BY <1>1, <1>3, <2>1, QueueKeeps
<1> QED
  BY <1>4, <1>5, <1>6

-----------------------------------------------------------------------------
\* Cancellation.  What is left of the queue when the unit queues nothing.
LEMMA QuietFits ==
    ASSUME UowInv, NEW u \in Units, NEW step \in {"stranded", "unrolled"}, Goes(u, step), UNCHANGED running,
           at[u] \in AwaitsJob, jobs' = Abandoned(u)
    PROVE  /\ jobs' \in Seq(Queued) /\ QueueFits'
           /\ \A i \in 1..Len(jobs') : /\ i = 1 /\ 1 \in 1..Len(jobs)
                                       /\ jobs'[i].unit = jobs[1].unit /\ jobs'[i].kind = jobs[1].kind
<1>1. /\ jobs' \in Seq(Queued) /\ Len(jobs') <= 1
      /\ running => jobs' # <<>>
      /\ jobs' # <<>> =>
            /\ running /\ ~jobs'[1].awaited
            /\ 1 \in 1..Len(jobs) /\ jobs'[1].unit = jobs[1].unit
            /\ jobs'[1].kind = jobs[1].kind
            /\ jobs'[1].unit # u => at[jobs'[1].unit] \in Cut
  BY AbandonedFits
<1>2. Len(jobs') \in {0, 1} /\ (jobs' = <<>> <=> Len(jobs') = 0)
  <2>1. Len(jobs') \in Nat /\ (jobs' = <<>> <=> Len(jobs') = 0)
    BY <1>1, QueueType
  <2> QED
    BY <1>1, <2>1, UpToOne
<1>3. \A i \in 1..Len(jobs') : i = 1 /\ jobs' # <<>>
  <2>1. ASSUME NEW n \in {0, 1}, NEW i \in 1..n PROVE i = 1 /\ n # 0
    OBVIOUS
  <2> QED
    BY <1>2, <2>1
<1>4. at'[u] = step /\ \A v \in Units \ {u} : at'[v] = at[v] /\ at[v] \notin AwaitsJob
  <2>1. u \in holding
    BY DEF UowInv, LockFits
  <2> QED
    BY <2>1, OneAtWork DEF Goes, UowInv, TypeOK
<1>5. jobs' # <<>> => at'[jobs'[1].unit] \in Cut
  <2>1. jobs' # <<>> => jobs'[1].unit \in Units
    BY <1>1, JobType DEF UowInv
  <2> QED
    BY <1>1, <1>4, <2>1 DEF Cut
<1>6. Len(jobs') <= 2 /\ Len(jobs') # 2
  <2>1. ASSUME NEW n \in {0, 1} PROVE n <= 2 /\ n # 2
    OBVIOUS
  <2> QED
    BY <1>2, <2>1
<1>7. \A v \in Units : at'[v] \notin AwaitsJob
  BY <1>4 DEF AwaitsJob
<1>8. QueueFits'
  BY <1>1, <1>3, <1>5, <1>6, <1>7 DEF QueueFits
<1> QED
  BY <1>1, <1>3, <1>8

LEMMA CancelKeeps ==
    ASSUME UowInv, NEW u \in Units, Cancel(u)
    PROVE  UowInv'
<1>1. cancels' \in 0..MaxCancels /\ UNCHANGED <<wrote, running, conn, disk, announced>>
  BY MaxCancelsAssumption DEF Cancel, UowInv, TypeOK
<1>2. CASE CancelBody(u)
  <2>1. "leaving" \in Awaits("rollback") /\ Goes(u, "leaving") /\ UNCHANGED holding
        /\ at[u] \in {"open", "writing", "committing"}
    BY <1>2 DEF CancelBody, Awaits
  <2>2. CASE at[u] = "open"
    <3>1. jobs = <<>> /\ jobs \in Seq(Queued) /\ jobs' = Append(jobs, Job(u, "rollback"))
      BY <1>2, <2>2 DEF CancelBody, UowInv, LockFits, TypeOK
    <3>2. Len(jobs) = 0
      BY <3>1, QueueType
    <3>3. Len(jobs) <= 1
      BY <3>2
    <3> QED
      BY <1>1, <2>1, <3>1, <3>3, QueueKeeps
  <2>3. CASE at[u] # "open"
    <3>1. at[u] \in AwaitsJob /\ jobs' = Append(Abandoned(u), Job(u, "rollback"))
      BY <1>2, <2>1, <2>3 DEF CancelBody, AwaitsJob
    <3> HIDE DEF Abandoned
    <3>2. /\ Abandoned(u) \in Seq(Queued) /\ Len(Abandoned(u)) <= 1
          /\ Abandoned(u) # <<>> =>
                /\ running /\ ~Abandoned(u)[1].awaited
                /\ 1 \in 1..Len(jobs) /\ Abandoned(u)[1].unit = jobs[1].unit
                /\ Abandoned(u)[1].kind = jobs[1].kind
                /\ Abandoned(u)[1].unit # u => at[Abandoned(u)[1].unit] \in Cut
      BY <3>1, AbandonedFits
    <3> QED
      BY <1>1, <2>1, <3>1, <3>2, QueueKeeps
  <2> QED
    BY <2>2, <2>3
<1>3. CASE CancelBegin(u) \/ CancelRollback(u)
  <2>1. PICK step \in {"stranded", "unrolled"} :
           /\ at[u] \in AwaitsJob /\ Goes(u, step) /\ jobs' = Abandoned(u)
           /\ holding' = IF step = "stranded" THEN holding ELSE holding \ {u}
    BY <1>3 DEF CancelBegin, CancelRollback, AwaitsJob
  <2>2. /\ jobs' \in Seq(Queued) /\ QueueFits'
        /\ \A i \in 1..Len(jobs') : /\ i = 1 /\ 1 \in 1..Len(jobs)
                                    /\ jobs'[i].unit = jobs[1].unit /\ jobs'[i].kind = jobs[1].kind
    BY <1>1, <2>1, QuietFits
  <2>3. TypeOK'
    BY <1>1, <2>1, <2>2 DEF UowInv, TypeOK, Goes, Finished
  <2>4. u \in holding /\ \A v \in Units \ {u} : at[v] \notin AwaitsJob \cup {"open"}
    <3>1. u \in holding
      BY <2>1 DEF UowInv, LockFits
    <3> QED
      BY <3>1, OneAtWork
  <2>5. LockFits'
    BY <2>1, <2>4 DEF UowInv, TypeOK, LockFits, Goes, AwaitsJob
  <2>6. DiskFits'
    BY <1>1, <2>1 DEF UowInv, TypeOK, DiskFits, Goes
  <2>7. \A i \in 1..Len(jobs') :
          /\ jobs'[i].kind \in {"release", "begin"} => wrote'[jobs'[i].unit] = 0
          /\ jobs'[i].kind \in {"write", "commit"} => conn'.by = jobs'[i].unit
          /\ jobs'[i].kind = "write" => wrote'[jobs'[i].unit] < Writes
          /\ jobs'[i].kind = "commit" => wrote'[jobs'[i].unit] = Writes
    BY <1>1, <2>2 DEF UowInv, ConnectionFits
  <2>8. ConnectionFits'
    BY <1>1, <2>1, <2>7 DEF UowInv, TypeOK, ConnectionFits, Goes
  <2> QED
    BY <2>2, <2>3, <2>5, <2>6, <2>8 DEF UowInv
<1>4. CASE CancelOutside(u)
  <2>1. at[u] \in {"locking", "announcing"} /\ Goes(u, "ended") /\ UNCHANGED <<jobs, holding>>
    BY <1>4 DEF CancelOutside
  <2>2. QueueFits'
    BY <1>1, <2>1, StepFits DEF AwaitsJob, Cut
  <2>3. TypeOK'
    BY <1>1, <2>1 DEF UowInv, TypeOK, Goes, Finished
  <2>4. LockFits' /\ DiskFits'
    BY <1>1, <2>1 DEF UowInv, TypeOK, LockFits, DiskFits, Goes, AwaitsJob
  <2>5. ConnectionFits'
    BY <1>1, <2>1 DEF UowInv, TypeOK, ConnectionFits, Goes
  <2> QED
    BY <2>2, <2>3, <2>4, <2>5 DEF UowInv
<1> QED
  BY <1>2, <1>3, <1>4 DEF Cancel

-----------------------------------------------------------------------------
(***************************************************************************)
(* The database thread: the job at the head is done.                       *)
(***************************************************************************)
\* A job at the head: somebody waits for it and it is alone, or nobody does.
LEMMA HeadFits ==
    ASSUME UowInv, NEW kind \in Kinds, Done(kind)
    PROVE  /\ jobs \in Seq(Queued) /\ Head(jobs) = jobs[1] /\ 1 \in 1..Len(jobs)
           /\ jobs[1] \in Queued /\ jobs[1].unit \in Units /\ jobs[1].kind = kind /\ running
           /\ IF jobs[1].awaited THEN Len(jobs) = 1 /\ at[jobs[1].unit] \in Awaits(kind)
              ELSE at[jobs[1].unit] \in Cut
           /\ Len(jobs) \in {1, 2}
<1>1. running /\ jobs # <<>> /\ jobs \in Seq(Queued) /\ Len(jobs) <= 2
  BY DEF Done, UowInv, TypeOK, QueueFits
<1>2. Len(jobs) \in Nat /\ Len(jobs) # 0
  BY <1>1, QueueType
<1>3. 1 \in 1..Len(jobs) /\ Len(jobs) \in {1, 2}
  BY <1>1, <1>2, OneIsFirst, UpToTwo
<1>4. Head(jobs) = jobs[1]
  BY <1>1
<1>5. jobs[1] \in Queued /\ jobs[1].unit \in Units
  BY <1>3, JobType DEF UowInv
<1>6. jobs[1].kind = kind
  BY <1>4 DEF Done
<1>7. IF jobs[1].awaited THEN 1 = Len(jobs) /\ at[jobs[1].unit] \in Awaits(jobs[1].kind)
      ELSE at[jobs[1].unit] \in Cut
  BY <1>3 DEF UowInv, QueueFits
<1> QED
  BY <1>1, <1>3, <1>4, <1>5, <1>6, <1>7

\* What the end of a job leaves behind, whoever waits for it.
DataKept ==
    /\ wrote' \in [Units -> 0..Writes] /\ disk' \in SUBSET Rows
    /\ conn' \in [by : Units \cup {"free", "auto"}, rows : SUBSET Rows]
    /\ UNCHANGED <<announced, cancels>>
    /\ conn'.by # "auto" /\ (conn'.by = "free" => conn'.rows = {})
    /\ \A u \in Units : conn'.by = u => conn'.rows = {u} \X (1..wrote'[u])
    /\ disk \subseteq disk'
    /\ \A u \in Units : RowsOf(u) \subseteq disk' \/ RowsOf(u) \cap disk' = {}
    /\ \A u \in Units : wrote'[u] = wrote[u] \/ (u = jobs[1].unit /\ jobs[1].kind = "write")

LEMMA SameData ==
    ASSUME UowInv, UNCHANGED <<wrote, disk, announced, cancels>>, conn' \in {conn, Closed}
    PROVE  DataKept
<1>1. Closed \in [by : Units \cup {"free", "auto"}, rows : SUBSET Rows] /\ Closed.by = "free"
      /\ Closed.rows = {} /\ "free" \notin Units
  BY UnitsAssumption DEF Closed
<1> QED
  BY <1>1, SMTT(30) DEF DataKept, UowInv, TypeOK, ConnectionFits, DiskFits

LEMMA BeginData ==
    ASSUME UowInv, BeginDone
    PROVE  DataKept /\ conn'.by = jobs[1].unit
<1> DEFINE u == jobs[1].unit
<1>1. /\ u \in Units /\ jobs[1].kind = "begin" /\ Head(jobs) = jobs[1] /\ 1 \in 1..Len(jobs)
  BY HeadFits DEF BeginDone, Kinds
<1>2. wrote[u] = 0
  BY <1>1 DEF UowInv, ConnectionFits
<1>3. conn' = [by |-> u, rows |-> {}] /\ UNCHANGED <<wrote, disk, announced, cancels>>
  BY <1>1 DEF BeginDone, Closed
<1>4. {u} \X (1..wrote[u]) = {}
  BY <1>2
<1>5. u \notin {"free", "auto"}
  BY <1>1, UnitsAssumption
<1>6. conn' \in [by : Units \cup {"free", "auto"}, rows : SUBSET Rows]
  BY <1>1, <1>3
<1> QED
  BY <1>1, <1>3, <1>4, <1>5, <1>6 DEF DataKept, UowInv, TypeOK, DiskFits

LEMMA WriteData ==
    ASSUME UowInv, WriteDone
    PROVE  DataKept /\ conn'.by = jobs[1].unit
<1> DEFINE u == jobs[1].unit
           row == <<u, wrote[u] + 1>>
<1>1. /\ u \in Units /\ jobs[1].kind = "write" /\ Head(jobs) = jobs[1] /\ 1 \in 1..Len(jobs)
  BY HeadFits DEF WriteDone, Kinds
<1>2. /\ wrote[u] < Writes /\ conn.by = u /\ conn.rows = {u} \X (1..wrote[u])
      /\ wrote[u] \in 0..Writes /\ Writes \in Nat /\ u \notin {"free", "auto"}
  BY <1>1, UnitsAssumption, WritesAssumption DEF UowInv, TypeOK, ConnectionFits
<1>3. /\ wrote' = [wrote EXCEPT ![u] = wrote[u] + 1]
      /\ conn' = [by |-> u, rows |-> conn.rows \cup {row}]
      /\ UNCHANGED <<disk, announced, cancels>>
  BY <1>1, <1>2 DEF WriteDone
<1>4. wrote' \in [Units -> 0..Writes] /\ wrote'[u] = wrote[u] + 1 /\ wrote[u] + 1 \in 1..Writes
  BY <1>1, <1>2, <1>3 DEF UowInv, TypeOK
<1>5. conn'.rows = {u} \X (1..wrote'[u])
  <2>1. 1..(wrote[u] + 1) = (1..wrote[u]) \cup {wrote[u] + 1}
    BY <1>2
  <2>2. {u} \X (1..(wrote[u] + 1)) = ({u} \X (1..wrote[u])) \cup {row}
    BY <2>1
  <2> QED
    BY <1>2, <1>3, <1>4, <2>2
<1>6. conn' \in [by : Units \cup {"free", "auto"}, rows : SUBSET Rows]
  <2>1. row \in Rows
    BY <1>1, <1>4 DEF Rows
  <2> QED
    BY <1>1, <1>3, <2>1 DEF UowInv, TypeOK
<1>7. \A v \in Units : wrote'[v] = wrote[v] \/ v = u
  BY <1>3 DEF UowInv, TypeOK
<1> QED
  BY <1>1, <1>2, <1>3, <1>4, <1>5, <1>6, <1>7 DEF DataKept, UowInv, TypeOK, DiskFits

LEMMA CommitData ==
    ASSUME UowInv, CommitDone
    PROVE  DataKept /\ RowsOf(jobs[1].unit) \subseteq disk'
<1> DEFINE u == jobs[1].unit
<1>1. /\ u \in Units /\ jobs[1].kind = "commit" /\ Head(jobs) = jobs[1] /\ 1 \in 1..Len(jobs)
  BY HeadFits DEF CommitDone, Kinds
<1>2. conn.by = u /\ conn.rows = RowsOf(u)
  BY <1>1 DEF UowInv, ConnectionFits, RowsOf
<1>3. disk' = disk \cup RowsOf(u) /\ conn' = Closed /\ UNCHANGED <<wrote, announced, cancels>>
  BY <1>2 DEF CommitDone
<1>4. \A v \in Units \ {u} : RowsOf(v) \cap RowsOf(u) = {}
  BY DEF RowsOf
<1>5. \A v \in Units : RowsOf(v) \subseteq disk' \/ RowsOf(v) \cap disk' = {}
  <2> SUFFICES ASSUME NEW v \in Units PROVE RowsOf(v) \subseteq disk' \/ RowsOf(v) \cap disk' = {}
    OBVIOUS
  <2>1. RowsOf(v) \subseteq disk \/ RowsOf(v) \cap disk = {}
    BY DEF UowInv, DiskFits
  <2> QED
    BY <1>3, <1>4, <2>1
<1>6. Closed \in [by : Units \cup {"free", "auto"}, rows : SUBSET Rows] /\ Closed.by = "free"
      /\ Closed.rows = {} /\ "free" \notin Units
  BY UnitsAssumption DEF Closed
<1>7. disk' \in SUBSET Rows
  BY <1>1, <1>2, <1>3 DEF UowInv, TypeOK
<1> QED
  BY <1>3, <1>5, <1>6, <1>7 DEF DataKept, UowInv, TypeOK

\* The end of a job that nobody waits for: what was queued behind it is next.
LEMMA GoneKeeps ==
    ASSUME UowInv, NEW kind \in Kinds, Done(kind), ~jobs[1].awaited,
           at' = at, jobs' = Tail(jobs), holding' = holding, DataKept
    PROVE  UowInv'
<1> DEFINE u == jobs[1].unit
<1>1. /\ jobs \in Seq(Queued) /\ 1 \in 1..Len(jobs) /\ jobs[1] \in Queued /\ u \in Units
      /\ at[u] \in Cut /\ Len(jobs) \in {1, 2} /\ running' = FALSE /\ jobs # <<>>
  BY HeadFits DEF Done, UowInv, QueueFits
<1>2. /\ Tail(jobs) \in Seq(Queued) /\ Len(Tail(jobs)) = Len(jobs) - 1
      /\ \A i \in 1..Len(Tail(jobs)) : Tail(jobs)[i] = jobs[i + 1]
  BY <1>1, HeadTailProperties
<1>3. \A i \in 1..Len(jobs') : i = 1 /\ 2 \in 1..Len(jobs) /\ Len(jobs) = 2 /\ jobs'[i] = jobs[2]
  <2>1. ASSUME NEW n \in {1, 2}, NEW m, m = n - 1, NEW i \in 1..m
        PROVE  i = 1 /\ i + 1 = 2 /\ n = 2 /\ 2 \in 1..n
    BY <2>1
  <2> QED
    BY <1>1, <1>2, <2>1
<1>4. Len(jobs') <= 2 /\ Len(jobs') # 2 /\ (Len(jobs) = 2 => Len(jobs') = 1)
  <2>1. ASSUME NEW n \in {1, 2}, NEW m, m = n - 1 PROVE m <= 2 /\ m # 2 /\ (n = 2 => m = 1)
    BY <2>1
  <2> QED
    BY <1>1, <1>2, <2>1
<1>5. Len(jobs) = 2 => /\ jobs[2] \in Queued /\ jobs[2].awaited /\ jobs[2].kind \in {"release", "rollback"}
                       /\ jobs[2].unit \in Units /\ at[jobs[2].unit] \in Awaits(jobs[2].kind)
  <2>1. Len(jobs) = 2 => 2 \in 1..Len(jobs)
    OBVIOUS
  <2>2. Len(jobs) = 2 => jobs[2] \in Queued /\ jobs[2].unit \in Units
    BY <2>1, JobType DEF UowInv
  <2>3. Len(jobs) = 2 => jobs[2].awaited /\ jobs[2].kind \in {"release", "rollback"}
                         /\ at[jobs[2].unit] \in Awaits(jobs[2].kind)
    BY <2>1 DEF UowInv, QueueFits
  <2> QED
    BY <2>2, <2>3
<1>6. \A v \in Units : at[v] \in AwaitsJob => Len(jobs) = 2 /\ jobs[2].unit = v
  <2> SUFFICES ASSUME NEW v \in Units, at[v] \in AwaitsJob PROVE Len(jobs) = 2 /\ jobs[2].unit = v
    OBVIOUS
  <2>1. jobs[Len(jobs)].awaited /\ jobs[Len(jobs)].unit = v
    BY DEF UowInv, QueueFits
  <2>2. Len(jobs) # 1
    BY <2>1
  <2> QED
    BY <1>1, <2>1, <2>2
<1>7. QueueFits'
  <2>1. \A v \in Units : at'[v] \in AwaitsJob =>
            jobs' # <<>> /\ jobs'[Len(jobs')].awaited /\ jobs'[Len(jobs')].unit = v
    <3> SUFFICES ASSUME NEW v \in Units, at[v] \in AwaitsJob
                 PROVE  jobs' # <<>> /\ jobs'[Len(jobs')].awaited /\ jobs'[Len(jobs')].unit = v
      OBVIOUS
    <3>1. Len(jobs) = 2 /\ jobs[2].unit = v /\ Len(jobs') = 1
      BY <1>4, <1>6
    <3>2. jobs' # <<>>
      <4>1. jobs' \in Seq(Queued) /\ Len(jobs') # 0
        BY <1>2, <3>1
      <4> QED
        BY <4>1, QueueType
    <3>3. jobs'[1] = jobs[2]
      BY <1>3, <3>1
    <3> QED
      BY <1>5, <3>1, <3>2, <3>3
  <2>2. \A i \in 1..Len(jobs') :
            jobs'[i].awaited /\ i = Len(jobs') /\ at'[jobs'[i].unit] \in Awaits(jobs'[i].kind)
    BY <1>3, <1>4, <1>5
  <2> QED
    BY <1>1, <1>4, <2>1, <2>2 DEF QueueFits
<1>8. TypeOK'
  BY <1>1, <1>2 DEF UowInv, TypeOK, DataKept
<1>9. \A v \in Units : at[v] # "open"
  BY <1>1 DEF UowInv, LockFits
<1>10. LockFits'
  BY <1>9 DEF UowInv, LockFits
<1>11. DiskFits'
  BY DEF UowInv, DiskFits, DataKept
<1>12. \A v \in Units : at[v] \in {"idle", "locking", "releasing", "beginning"} => wrote'[v] = 0
  BY <1>1 DEF UowInv, ConnectionFits, DataKept, Cut
<1>13. \A i \in 1..Len(jobs') :
          /\ jobs'[i].kind \in {"release", "rollback"}
          /\ jobs'[i].kind = "release" => wrote'[jobs'[i].unit] = 0
  BY <1>3, <1>5, <1>12 DEF Awaits
<1>14. ConnectionFits'
  BY <1>9, <1>12, <1>13 DEF ConnectionFits, DataKept
<1> QED
  BY <1>7, <1>8, <1>10, <1>11, <1>14 DEF UowInv

\* The end of the job a unit waits for, which has no other to queue.
LEMMA RestsKeeps ==
    ASSUME UowInv, NEW kind \in Kinds, Done(kind), jobs[1].awaited, DataKept,
           NEW step \in {"open", "announcing", "ended", "unrolled"}, Goes(jobs[1].unit, step), jobs' = <<>>,
           holding' = IF step = "open" THEN holding ELSE holding \ {jobs[1].unit},
           step = "open" => conn'.by = jobs[1].unit,
           step = "announcing" => RowsOf(jobs[1].unit) \subseteq disk'
    PROVE  UowInv'
<1> DEFINE u == jobs[1].unit
<1>1. u \in Units /\ at[u] \in AwaitsJob /\ running' = FALSE /\ u \in holding
  <2>1. u \in Units /\ at[u] \in Awaits(kind)
    BY HeadFits
  <2>2. at[u] \in AwaitsJob
    BY <2>1 DEF Awaits, AwaitsJob, Kinds
  <2> QED
    BY <2>1, <2>2 DEF Done, UowInv, LockFits
<1>2. \A v \in Units \ {u} : at[v] \notin AwaitsJob \cup {"open"}
  BY <1>1, OneAtWork
<1>3. at'[u] = step /\ \A v \in Units \ {u} : at'[v] = at[v]
  BY <1>1 DEF Goes, UowInv, TypeOK
<1>4. Len(jobs') = 0 /\ jobs' \in Seq(Queued)
  BY EmptySeq
<1>5. QueueFits'
  <2>1. \A v \in Units : at'[v] \notin AwaitsJob
    BY <1>2, <1>3 DEF AwaitsJob
  <2> QED
    BY <1>1, <1>4, <2>1 DEF QueueFits
<1>6. TypeOK'
  BY <1>1, <1>4 DEF UowInv, TypeOK, DataKept, Goes, Finished
<1>7. LockFits'
  BY <1>1, <1>2, <1>3 DEF UowInv, LockFits, AwaitsJob
<1>8. DiskFits'
  BY <1>1, <1>3 DEF UowInv, DiskFits, DataKept
<1>9. ConnectionFits'
  BY <1>1, <1>2, <1>3, <1>4 DEF UowInv, ConnectionFits, DataKept
<1> QED
  BY <1>5, <1>6, <1>7, <1>8, <1>9 DEF UowInv

\* The end of the job a unit waits for, which queues another.
LEMMA GoesOnKeeps ==
    ASSUME UowInv, NEW kind \in Kinds, Done(kind), jobs[1].awaited, DataKept,
           NEW more \in {"begin", "rollback"}, NEW step \in Awaits(more),
           Goes(jobs[1].unit, step), jobs' = <<Job(jobs[1].unit, more)>>, holding' = holding,
           more = "begin" <=> kind = "release"
    PROVE  UowInv'
<1> DEFINE u == jobs[1].unit
<1>1. u \in Units /\ at[u] \in AwaitsJob /\ running' = FALSE /\ u \in holding /\ at[u] \in Awaits(kind)
      /\ 1 \in 1..Len(jobs) /\ jobs[1].kind = kind
  <2>1. u \in Units /\ at[u] \in Awaits(kind) /\ 1 \in 1..Len(jobs) /\ jobs[1].kind = kind
    BY HeadFits
  <2>2. at[u] \in AwaitsJob
    BY <2>1 DEF Awaits, AwaitsJob, Kinds
  <2> QED
    BY <2>1, <2>2 DEF Done, UowInv, LockFits
<1>2. \A v \in Units \ {u} : at[v] \notin AwaitsJob \cup {"open"}
  BY <1>1, OneAtWork
<1>3. at'[u] = step /\ step \in {"beginning", "undoing", "leaving"}
      /\ \A v \in Units \ {u} : at'[v] = at[v]
  BY <1>1 DEF Goes, UowInv, TypeOK, Awaits
<1>4. Job(u, more) \in Queued /\ Job(u, more).unit = u /\ Job(u, more).kind = more /\ Job(u, more).awaited
  BY <1>1, QueuedType DEF Kinds
<1>5. Len(jobs') = 1 /\ jobs' \in Seq(Queued) /\ jobs'[1] = Job(u, more) /\ jobs' # <<>>
  BY <1>4
<1>6. \A i \in 1..Len(jobs') : i = 1 /\ jobs'[i] = Job(u, more)
  BY <1>5
<1>7. QueueFits'
  <2>1. \A v \in Units : at'[v] \in AwaitsJob => v = u
    BY <1>2, <1>3
  <2>2. Len(jobs') <= 2 /\ Len(jobs') # 2
    BY <1>5
  <2>3. \A i \in 1..Len(jobs') :
            jobs'[i].awaited /\ i = Len(jobs') /\ at'[jobs'[i].unit] \in Awaits(jobs'[i].kind)
    BY <1>3, <1>4, <1>5, <1>6
  <2> QED
    BY <1>1, <1>4, <1>5, <2>1, <2>2, <2>3 DEF QueueFits
<1>8. TypeOK'
  BY <1>1, <1>3, <1>5 DEF UowInv, TypeOK, DataKept, Goes, AwaitsJob
<1>9. LockFits'
  BY <1>1, <1>2, <1>3 DEF UowInv, LockFits, AwaitsJob
<1>10. DiskFits'
  BY <1>1, <1>3 DEF UowInv, DiskFits, DataKept
<1>11. more = "begin" => wrote'[u] = 0
  BY <1>1 DEF UowInv, ConnectionFits, DataKept
<1>12. step = "beginning" <=> more = "begin"
  BY DEF Awaits
<1>13. \A v \in Units : at'[v] \in {"idle", "locking", "releasing", "beginning"} => wrote'[v] = 0
  BY <1>1, <1>3, <1>11, <1>12 DEF UowInv, ConnectionFits, DataKept
<1>14. \A v \in Units : at'[v] # "open"
  BY <1>2, <1>3
<1>15. ConnectionFits'
  BY <1>4, <1>6, <1>11, <1>13, <1>14 DEF ConnectionFits, DataKept
<1> QED
  BY <1>7, <1>8, <1>9, <1>10, <1>15 DEF UowInv

LEMMA ResumeCases ==
    ASSUME UowInv, NEW kind \in Kinds, Done(kind), NEW step, NEW more \in Seq(Queued), Resume(step, more)
    PROVE  IF jobs[1].awaited THEN Goes(jobs[1].unit, step) /\ jobs' = more
           ELSE at' = at /\ jobs' = Tail(jobs)
<1>1. jobs \in Seq(Queued) /\ Head(jobs) = jobs[1] /\ (jobs[1].awaited => Len(jobs) = 1)
  BY HeadFits
<1>2. CASE jobs[1].awaited
  <2>1. Len(jobs) = 1 /\ jobs # <<>>
    BY <1>1, <1>2 DEF Done, UowInv, QueueFits
  <2>2. Tail(jobs) \in Seq(Queued) /\ Len(Tail(jobs)) = 0
    BY <1>1, <2>1, HeadTailProperties
  <2>3. Tail(jobs) = <<>>
    BY <2>2, QueueType
  <2>4. <<>> \o more = more
    BY ConcatEmptySeq
  <2> QED
    BY <1>1, <1>2, <2>3, <2>4 DEF Resume, Goes
<1>3. CASE ~jobs[1].awaited
  BY <1>1, <1>3 DEF Resume
<1> QED
  BY <1>2, <1>3

LEMMA QueueOfOne ==
    ASSUME NEW u \in Units, NEW kind \in Kinds
    PROVE  <<Job(u, kind)>> \in Seq(Queued) /\ <<>> \in Seq(Queued)
BY QueuedType

LEMMA ReleaseKeeps ==
    ASSUME UowInv, ReleaseDone
    PROVE  UowInv'
<1>1. "release" \in Kinds /\ "begin" \in Kinds /\ "beginning" \in Awaits("begin") /\ Done("release")
  BY DEF Kinds, Awaits, ReleaseDone
<1>2. Head(jobs) = jobs[1] /\ jobs[1].unit \in Units
  BY <1>1, HeadFits
<1>3. DataKept
  BY SameData DEF ReleaseDone, RollBackAny
<1>4. IF jobs[1].awaited THEN Goes(jobs[1].unit, "beginning") /\ jobs' = <<Job(jobs[1].unit, "begin")>>
      ELSE at' = at /\ jobs' = Tail(jobs)
  <2>1. Resume("beginning", <<Job(jobs[1].unit, "begin")>>)
    BY <1>2 DEF ReleaseDone
  <2> QED
    BY <1>1, <1>2, <2>1, QueueOfOne, ResumeCases
<1>5. holding' = holding
  BY DEF ReleaseDone
<1>6. CASE jobs[1].awaited
  BY <1>1, <1>3, <1>4, <1>5, <1>6, GoesOnKeeps
<1>7. CASE ~jobs[1].awaited
  BY <1>1, <1>3, <1>4, <1>5, <1>7, GoneKeeps
<1> QED
  BY <1>6, <1>7

LEMMA OpensKeeps ==
    ASSUME UowInv, BeginDone \/ WriteDone
    PROVE  UowInv'
<1>1. PICK kind \in {"begin", "write"} : Done(kind)
  BY DEF BeginDone, WriteDone
<1>2. kind \in Kinds
  BY DEF Kinds
<1>3. DataKept /\ conn'.by = jobs[1].unit
  BY BeginData, WriteData
<1>4. IF jobs[1].awaited THEN Goes(jobs[1].unit, "open") /\ jobs' = <<>> ELSE at' = at /\ jobs' = Tail(jobs)
  <2>1. Resume("open", <<>>) /\ <<>> \in Seq(Queued)
    BY EmptySeq DEF BeginDone, WriteDone
  <2> QED
    BY <1>1, <1>2, <2>1, ResumeCases
<1>5. holding' = holding
  BY DEF BeginDone, WriteDone
<1>6. CASE jobs[1].awaited
  BY <1>1, <1>2, <1>3, <1>4, <1>5, <1>6, RestsKeeps
<1>7. CASE ~jobs[1].awaited
  BY <1>1, <1>2, <1>3, <1>4, <1>5, <1>7, GoneKeeps
<1> QED
  BY <1>6, <1>7

LEMMA EndsKeeps ==
    ASSUME UowInv, BeginFails \/ RollbackDone \/ RollbackFails
    PROVE  UowInv'
<1>1. PICK kind \in {"begin", "release", "rollback"} : Done(kind)
  BY DEF BeginFails, RollbackDone, RollbackFails, RollsBack
<1>2. kind \in Kinds
  BY DEF Kinds
<1>3. Head(jobs) = jobs[1]
  BY <1>1, <1>2, HeadFits
<1>4. DataKept
  BY SameData DEF BeginFails, RollbackDone, RollbackFails, RollsBack
<1>5. PICK step \in {"ended", "unrolled"} :
          IF jobs[1].awaited THEN Goes(jobs[1].unit, step) /\ jobs' = <<>> ELSE at' = at /\ jobs' = Tail(jobs)
  <2>1. PICK step \in {"ended", "unrolled"} : Resume(step, <<>>)
    BY DEF BeginFails, RollbackDone, RollbackFails
  <2>2. <<>> \in Seq(Queued)
    BY EmptySeq
  <2> QED
    BY <1>1, <1>2, <2>1, <2>2, ResumeCases
<1>6. holding' = IF jobs[1].awaited THEN holding \ {jobs[1].unit} ELSE holding
  BY <1>3 DEF BeginFails, RollbackDone, RollbackFails, LetsGo
<1>7. CASE jobs[1].awaited
  BY <1>1, <1>2, <1>4, <1>5, <1>6, <1>7, RestsKeeps
<1>8. CASE ~jobs[1].awaited
  BY <1>1, <1>2, <1>4, <1>5, <1>6, <1>8, GoneKeeps
<1> QED
  BY <1>7, <1>8

LEMMA FailsKeeps ==
    ASSUME UowInv, WriteFails \/ CommitFails
    PROVE  UowInv'
<1>1. PICK kind \in {"write", "commit"}, step \in {"leaving", "undoing"} :
          Done(kind) /\ Resume(step, <<Job(Head(jobs).unit, "rollback")>>)
  BY DEF WriteFails, CommitFails, FailsLoudly
<1>2. kind \in Kinds /\ "rollback" \in Kinds /\ step \in Awaits("rollback")
  BY DEF Kinds, Awaits
<1>3. Head(jobs) = jobs[1] /\ jobs[1].unit \in Units
  BY <1>1, <1>2, HeadFits
<1>4. DataKept /\ holding' = holding
  BY SameData DEF WriteFails, CommitFails, FailsLoudly
<1>5. IF jobs[1].awaited THEN Goes(jobs[1].unit, step) /\ jobs' = <<Job(jobs[1].unit, "rollback")>>
      ELSE at' = at /\ jobs' = Tail(jobs)
  BY <1>1, <1>2, <1>3, QueueOfOne, ResumeCases
<1>6. CASE jobs[1].awaited
  BY <1>1, <1>2, <1>4, <1>5, <1>6, GoesOnKeeps
<1>7. CASE ~jobs[1].awaited
  BY <1>1, <1>2, <1>4, <1>5, <1>7, GoneKeeps
<1> QED
  BY <1>6, <1>7

LEMMA CommitKeeps ==
    ASSUME UowInv, CommitDone
    PROVE  UowInv'
<1>1. Done("commit") /\ "commit" \in Kinds
  BY DEF CommitDone, Kinds
<1>2. Head(jobs) = jobs[1]
  BY <1>1, HeadFits
<1>3. DataKept /\ RowsOf(jobs[1].unit) \subseteq disk'
  BY CommitData
<1>4. IF jobs[1].awaited THEN Goes(jobs[1].unit, "announcing") /\ jobs' = <<>>
      ELSE at' = at /\ jobs' = Tail(jobs)
  <2>1. Resume("announcing", <<>>) /\ <<>> \in Seq(Queued)
    BY EmptySeq DEF CommitDone
  <2> QED
    BY <1>1, <2>1, ResumeCases
<1>5. holding' = IF jobs[1].awaited THEN holding \ {jobs[1].unit} ELSE holding
  BY <1>2 DEF CommitDone, LetsGo
<1>6. CASE jobs[1].awaited
  BY <1>1, <1>3, <1>4, <1>5, <1>6, RestsKeeps
<1>7. CASE ~jobs[1].awaited
  BY <1>1, <1>3, <1>4, <1>5, <1>7, GoneKeeps
<1> QED
  BY <1>6, <1>7

-----------------------------------------------------------------------------
LEMMA UowNextInv ==
    ASSUME UowInv, [Next]_vars
    PROVE  UowInv'
<1>1. CASE UNCHANGED vars
  BY <1>1 DEF vars, UowInv, TypeOK, QueueFits, LockFits, ConnectionFits, DiskFits
<1>2. CASE \E u \in Units : UnitStep(u)
  BY <1>2, EnterKeeps, AcquireKeeps, OpenKeeps, AnnounceKeeps DEF UnitStep
<1>3. CASE \E u \in Units : Cancel(u)
  BY <1>3, CancelKeeps
<1>4. CASE Worker
  BY <1>4, StartKeeps, ReleaseKeeps, OpensKeeps, EndsKeeps, FailsKeeps, CommitKeeps
     DEF Worker, FinishJob
<1>5. CASE Rest
  BY <1>1, <1>5 DEF Rest
<1> QED
  BY <1>1, <1>2, <1>3, <1>4, <1>5 DEF Next

\* Every reachable state satisfies the inductive invariant.
THEOREM UowInvariant == Spec => []UowInv
BY UowInitInv, UowNextInv, PTL DEF Spec

\* A transaction holds the rows of the unit that began it and of no other, and
\* one unit at a time is inside (unit_of_work.py, executor.py).
THEOREM AlwaysIsolated == Spec => []Isolated
<1>1. UowInv => Isolated
  <2> SUFFICES ASSUME UowInv PROVE Isolated
    OBVIOUS
  <2>1. conn.by \in Units \/ conn.rows = {}
    BY DEF UowInv, TypeOK, ConnectionFits
  <2>2. ASSUME NEW row \in conn.rows PROVE row[1] = conn.by
    <3>1. conn.by \in Units /\ row \in {conn.by} \X (1..wrote[conn.by])
      BY <2>1, <2>2 DEF UowInv, ConnectionFits
    <3> QED
      BY <3>1
  <2>3. \A u, v \in Units : at[u] = "open" /\ at[v] = "open" => u = v
    BY DEF UowInv, LockFits
  <2> QED
    BY <2>2, <2>3 DEF Isolated
<1> QED
  BY <1>1, UowInvariant, PTL

\* Of the rows of a unit the disk has all or none, and only what is durable is
\* announced (unit_of_work.py, "one use case is one transaction").
THEOREM AlwaysAllOrNothing == Spec => []AllOrNothing
<1>1. UowInv => AllOrNothing
  BY DEF UowInv, DiskFits, AllOrNothing
<1> QED
  BY <1>1, UowInvariant, PTL

-----------------------------------------------------------------------------
(***************************************************************************)
(* Whose transaction is open.  It is that of the unit with the lock, once  *)
(* it has begun, or of one whose rollback was cancelled or refused; and a  *)
(* unit cut off inside begin() still has the lock, which is why a begin()  *)
(* that runs on for it opens nothing under anybody else's feet.            *)
(***************************************************************************)
OpenFits ==
    \A u \in Units : conn.by = u =>
        \/ u \in holding /\ at[u] \notin {"releasing", "beginning"}
        \/ at[u] = "unrolled"

StrandedFits ==
    /\ \A u \in Units : at[u] = "stranded" => u \in holding
    /\ \A i \in 1..Len(jobs) :
          ~jobs[i].awaited /\ jobs[i].kind = "begin" => at[jobs[i].unit] = "stranded"

LEMMA OwnedInit == Init => OpenFits /\ StrandedFits
<1> SUFFICES ASSUME Init PROVE OpenFits /\ StrandedFits
  OBVIOUS
<1>1. Len(jobs) = 0 /\ conn.by \notin Units
  BY UnitsAssumption DEF Init, Closed
<1>2. \A u \in Units : at[u] = "idle"
  BY DEF Init
<1> QED
  BY <1>1, <1>2 DEF OpenFits, StrandedFits

\* A step of the loop appends a job that is waited for, or none.
LEMMA OwnedUnit ==
    ASSUME UowInv, OpenFits, StrandedFits, NEW u \in Units, UnitStep(u)
    PROVE  OpenFits' /\ StrandedFits'
<1>1. /\ \A v \in Units \ {u} : at'[v] = at[v] /\ (v \in holding' <=> v \in holding)
      /\ at[u] \in {"idle", "locking", "open", "announcing"} /\ conn' = conn
      /\ at'[u] # "stranded" /\ (at[u] = "open" => at'[u] \in {"writing", "committing", "leaving"})
      /\ (u \in holding => u \in holding')
  BY DEF UnitStep, Enter, Acquire, LockTimeout, Write, Commit, ExitEarly, Announce, Goes, UowInv,
         TypeOK
<1>2. \/ jobs' = jobs
      \/ \E kind \in Kinds : jobs' = Append(jobs, Job(u, kind))
  BY DEF UnitStep, Enter, Acquire, LockTimeout, Write, Commit, ExitEarly, Announce, Kinds
<1>3. OpenFits'
  <2>1. at[u] # "open" => u \notin holding /\ conn.by # u
    BY <1>1 DEF UowInv, LockFits, OpenFits, AwaitsJob
  <2> QED
    BY <1>1, <2>1 DEF OpenFits
<1>4. \A i \in 1..Len(jobs) : ~jobs[i].awaited /\ jobs[i].kind = "begin" =>
          at[jobs[i].unit] = "stranded" /\ at'[jobs[i].unit] = "stranded"
  BY <1>1, JobType DEF UowInv, StrandedFits
<1>5. \A i \in 1..Len(jobs') :
          ~jobs'[i].awaited /\ jobs'[i].kind = "begin" => at'[jobs'[i].unit] = "stranded"
  <2>1. CASE jobs' = jobs
    BY <1>4, <2>1
  <2>2. CASE \E kind \in Kinds : jobs' = Append(jobs, Job(u, kind))
    <3>1. PICK kind \in Kinds : jobs' = Append(jobs, Job(u, kind))
      BY <2>2
    <3>2. /\ jobs \in Seq(Queued) /\ Len(jobs) \in Nat /\ Job(u, kind) \in Queued
          /\ Job(u, kind).awaited
      BY QueueType, QueuedType DEF UowInv, TypeOK
    <3>3. /\ Len(jobs') = Len(jobs) + 1 /\ jobs'[Len(jobs) + 1] = Job(u, kind)
          /\ \A i \in 1..Len(jobs) : jobs'[i] = jobs[i]
      BY <3>1, <3>2, AppendProperties
    <3> QED
      BY <1>4, <3>2, <3>3, LastOrBefore
  <2> QED
    BY <1>2, <2>1, <2>2
<1>6. \A v \in Units : at'[v] = "stranded" => v \in holding'
  BY <1>1 DEF StrandedFits
<1> QED
  BY <1>3, <1>5, <1>6 DEF StrandedFits

\* A cancelled unit keeps its transaction as long as it keeps the lock, or is
\* without its rollback.
LEMMA OwnedCancel ==
    ASSUME UowInv, OpenFits, StrandedFits, NEW u \in Units, Cancel(u)
    PROVE  OpenFits' /\ StrandedFits'
<1>1. conn' = conn
  BY DEF Cancel
<1>2. CASE CancelOutside(u)
  <2>1. /\ at[u] \in {"locking", "announcing"} /\ at'[u] = "ended"
        /\ \A v \in Units \ {u} : at'[v] = at[v]
        /\ UNCHANGED <<jobs, holding>>
    BY <1>2 DEF CancelOutside, Goes, UowInv, TypeOK
  <2>2. conn.by # u
    BY <2>1 DEF UowInv, LockFits, OpenFits, AwaitsJob
  <2>3. \A i \in 1..Len(jobs) : jobs[i].unit \in Units
    BY JobType DEF UowInv
  <2> QED
    BY <1>1, <2>1, <2>2, <2>3 DEF OpenFits, StrandedFits
<1>3. CASE ~CancelOutside(u)
  <2>1. PICK step \in {"stranded", "leaving", "unrolled"} :
           /\ Goes(u, step)
           /\ at[u] \in AwaitsJob \cup {"open"}
           /\ step = "stranded" <=> at[u] \in {"releasing", "beginning"}
           /\ holding' = IF step = "unrolled" THEN holding \ {u} ELSE holding
    <3>1. CASE CancelBegin(u)
      BY <3>1 DEF CancelBegin, AwaitsJob
    <3>2. CASE CancelBody(u)
      BY <3>2 DEF CancelBody, AwaitsJob
    <3>3. CASE CancelRollback(u)
      BY <3>3 DEF CancelRollback, AwaitsJob
    <3> QED
      BY <1>3, <3>1, <3>2, <3>3 DEF Cancel
  <2>2. at'[u] = step /\ \A v \in Units \ {u} : at'[v] = at[v]
    BY <2>1 DEF Goes, UowInv, TypeOK
  <2>3. u \in holding
    BY <2>1 DEF UowInv, LockFits
  <2>4. OpenFits'
    BY <1>1, <2>1, <2>2, <2>3 DEF OpenFits
  <2>5. \A v \in Units : at'[v] = "stranded" => v \in holding'
    BY <2>1, <2>2, <2>3 DEF StrandedFits
  <2>6. CASE at[u] = "open"
    <3>1. jobs = <<>> /\ jobs \in Seq(Queued) /\ jobs' = Append(jobs, Job(u, "rollback"))
      BY <1>3, <2>6 DEF Cancel, CancelBegin, CancelBody, CancelRollback, UowInv, LockFits, TypeOK
    <3>2. Len(jobs) = 0 /\ Job(u, "rollback") \in Queued /\ Job(u, "rollback").awaited
      BY <3>1, QueueType, QueuedType DEF Kinds
    <3>3. Len(jobs') = 1 /\ jobs'[1] = Job(u, "rollback")
      BY <3>1, <3>2, AppendProperties
    <3>4. \A i \in 1..Len(jobs') : jobs'[i].awaited
      BY <3>2, <3>3
    <3> QED
      BY <2>4, <2>5, <3>4 DEF StrandedFits
  <2>7. CASE at[u] # "open"
    <3>1. at[u] \in AwaitsJob
      BY <2>1, <2>7
    <3>2. /\ Abandoned(u) \in Seq(Queued) /\ Len(Abandoned(u)) <= 1
          /\ Abandoned(u) # <<>> => /\ 1 \in 1..Len(jobs) /\ Abandoned(u)[1].unit = jobs[1].unit
                                    /\ Abandoned(u)[1].kind = jobs[1].kind
      BY <3>1, AbandonedFits
    <3>3. \/ jobs' = Abandoned(u)
          \/ jobs' = Append(Abandoned(u), Job(u, "rollback"))
      BY <1>3, <2>7 DEF Cancel, CancelBegin, CancelBody, CancelRollback
    <3> HIDE DEF Abandoned
    <3>4. Len(Abandoned(u)) \in Nat /\ (Abandoned(u) = <<>> <=> Len(Abandoned(u)) = 0)
      BY <3>2, QueueType
    <3>5. \A i \in 1..Len(Abandoned(u)) : i = 1 /\ Abandoned(u) # <<>>
      <4>1. ASSUME NEW n \in Nat, n <= 1, NEW i \in 1..n PROVE i = 1 /\ n # 0
        BY <4>1
      <4> QED
        BY <3>2, <3>4, <4>1
    <3>6. ASSUME 1 \in 1..Len(jobs), jobs[1].kind = "begin"
          PROVE  at'[jobs[1].unit] = "stranded"
      <4>1. jobs[1].unit \in Units
        BY <3>6, JobType DEF UowInv
      <4>2. CASE jobs[1].awaited
        <5>1. at[jobs[1].unit] = "beginning"
          BY <3>6, <4>2 DEF UowInv, QueueFits, Awaits
        <5>2. jobs[1].unit = u
          BY <2>3, <4>1, <5>1, OneAtWork DEF AwaitsJob
        <5> QED
          BY <2>1, <2>2, <5>1, <5>2
      <4>3. CASE ~jobs[1].awaited
        <5>1. at[jobs[1].unit] = "stranded"
          BY <3>6, <4>3 DEF StrandedFits
        <5> QED
          BY <2>1, <2>2, <4>1, <5>1 DEF AwaitsJob
      <4> QED
        BY <4>2, <4>3
    <3>7. \A i \in 1..Len(Abandoned(u)) :
             Abandoned(u)[i].kind = "begin" => at'[Abandoned(u)[i].unit] = "stranded"
      BY <3>2, <3>5, <3>6
    <3>8. \A i \in 1..Len(jobs') :
             ~jobs'[i].awaited /\ jobs'[i].kind = "begin" => at'[jobs'[i].unit] = "stranded"
      <4>1. CASE jobs' = Abandoned(u)
        BY <3>7, <4>1
      <4>2. CASE jobs' = Append(Abandoned(u), Job(u, "rollback"))
        <5>1. Job(u, "rollback") \in Queued /\ Job(u, "rollback").awaited
          BY QueuedType DEF Kinds
        <5>2. /\ Len(jobs') = Len(Abandoned(u)) + 1
              /\ jobs'[Len(Abandoned(u)) + 1] = Job(u, "rollback")
              /\ \A i \in 1..Len(Abandoned(u)) : jobs'[i] = Abandoned(u)[i]
          BY <3>2, <4>2, <5>1, AppendProperties
        <5> QED
          BY <3>4, <3>7, <5>1, <5>2, LastOrBefore
      <4> QED
        BY <3>3, <4>1, <4>2
    <3> QED
      BY <2>4, <2>5, <3>8 DEF StrandedFits
  <2> QED
    BY <2>6, <2>7
<1> QED
  BY <1>2, <1>3

\* A job is done: whoever waits for the next one was not cut off.
LEMMA StrandedDone ==
    ASSUME UowInv, StrandedFits, NEW kind \in Kinds, Done(kind), NEW step, step # "stranded",
           NEW more \in Seq(Queued), \A i \in 1..Len(more) : more[i].awaited, Resume(step, more),
           holding' = holding \/ LetsGo
    PROVE  /\ StrandedFits'
           /\ jobs[1].unit \in Units
           /\ IF jobs[1].awaited
              THEN /\ jobs[1].unit \in holding /\ at[jobs[1].unit] \in Awaits(kind)
                   /\ at'[jobs[1].unit] = step
                   /\ \A v \in Units \ {jobs[1].unit} : at'[v] = at[v] /\ v \notin holding
              ELSE at' = at /\ holding' = holding
<1> DEFINE u == jobs[1].unit
<1>1. /\ jobs \in Seq(Queued) /\ Head(jobs) = jobs[1] /\ 1 \in 1..Len(jobs) /\ u \in Units
      /\ jobs[1].awaited => at[u] \in Awaits(kind)
  BY HeadFits
<1>2. IF jobs[1].awaited THEN Goes(u, step) /\ jobs' = more ELSE at' = at /\ jobs' = Tail(jobs)
  BY ResumeCases
<1>3. CASE jobs[1].awaited
  <2>1. at[u] \in AwaitsJob
    BY <1>1, <1>3 DEF Awaits, AwaitsJob, Kinds
  <2>2. u \in holding /\ \A v \in holding : v = u
    BY <1>1, <2>1 DEF UowInv, LockFits
  <2>3. at'[u] = step /\ \A v \in Units \ {u} : at'[v] = at[v] /\ v \notin holding
    BY <1>1, <1>2, <1>3, <2>2 DEF Goes, UowInv, TypeOK
  <2>4. \A v \in Units : at'[v] # "stranded"
    BY <2>3 DEF StrandedFits
  <2>5. \A i \in 1..Len(jobs') : jobs'[i].awaited
    BY <1>2, <1>3
  <2>6. StrandedFits'
    BY <2>4, <2>5 DEF StrandedFits
  <2> QED
    BY <1>1, <1>3, <2>2, <2>3, <2>6
<1>4. CASE ~jobs[1].awaited
  <2>1. at' = at /\ jobs' = Tail(jobs) /\ holding' = holding
    BY <1>1, <1>2, <1>4 DEF LetsGo
  <2>2. Len(jobs) \in Nat /\ jobs # <<>>
    BY <1>1, QueueType
  <2>3. /\ Len(jobs') = Len(jobs) - 1
        /\ \A i \in 1..Len(jobs') : jobs'[i] = jobs[i + 1]
    BY <1>1, <2>1, <2>2, HeadTailProperties
  <2>4. \A i \in 1..Len(jobs') : i + 1 \in 1..Len(jobs) /\ i + 1 # 1
    BY <2>2, <2>3
  <2>5. \A i \in 1..Len(jobs') : jobs'[i].awaited
    BY <2>3, <2>4 DEF UowInv, QueueFits
  <2>6. StrandedFits'
    BY <2>1, <2>5 DEF StrandedFits
  <2> QED
    BY <1>1, <1>4, <2>1, <2>6
<1> QED
  BY <1>3, <1>4

\* A job is done: its unit has the lock and goes on to something, or gives the
\* lock back with its transaction closed or its rollback refused.
LEMMA OwnedDone ==
    ASSUME UowInv, OpenFits, StrandedFits, FinishJob
    PROVE  OpenFits' /\ StrandedFits'
<1> DEFINE u == jobs[1].unit
<1>1. Closed.by \notin Units
  BY UnitsAssumption DEF Closed
<1>2. <<>> \in Seq(Queued) /\ \A i \in 1..Len(<<>>) : <<>>[i].awaited
  BY EmptySeq
<1>3. ASSUME NEW more \in {"begin", "rollback"}, u \in Units
      PROVE  /\ <<Job(u, more)>> \in Seq(Queued)
             /\ \A i \in 1..Len(<<Job(u, more)>>) : <<Job(u, more)>>[i].awaited
  BY <1>3, QueueOfOne, QueuedType DEF Kinds
<1>4. ASSUME NEW kind \in Kinds, Done(kind) PROVE Head(jobs) = jobs[1] /\ u \in Units
  BY <1>4, HeadFits
<1>5. CASE ReleaseDone
  <2>1. "release" \in Kinds /\ Done("release")
    BY <1>5 DEF ReleaseDone, Kinds
  <2>2. StrandedFits'
    BY <1>3, <1>4, <1>5, <2>1, StrandedDone DEF ReleaseDone
  <2> QED
    BY <1>1, <1>5, <2>2 DEF ReleaseDone, RollBackAny, OpenFits
<1>6. CASE BeginDone
  <2>1. "begin" \in Kinds /\ Done("begin")
    BY <1>6 DEF BeginDone, Kinds
  <2>2. /\ StrandedFits' /\ u \in Units /\ holding' = holding
        /\ IF jobs[1].awaited THEN u \in holding /\ at'[u] = "open" ELSE at' = at
    BY <1>2, <1>6, <2>1, StrandedDone DEF BeginDone
  <2>3. conn'.by = u
    BY <1>6, BeginData
  <2>4. ~jobs[1].awaited => at[u] = "stranded"
    BY <2>1, HeadFits DEF StrandedFits
  <2>5. u \in holding' /\ at'[u] \notin {"releasing", "beginning"}
    BY <2>2, <2>4 DEF StrandedFits
  <2> QED
    BY <2>2, <2>3, <2>5 DEF OpenFits
<1>7. CASE BeginFails
  <2>1. PICK kind \in {"begin", "release"} : Done(kind)
    BY <1>7 DEF BeginFails
  <2>2. kind \in Kinds
    BY DEF Kinds
  <2>3. /\ StrandedFits' /\ conn' = conn
        /\ IF jobs[1].awaited
           THEN /\ at[u] \in Awaits(kind) /\ u \in Units
                /\ \A v \in Units \ {u} : at'[v] = at[v] /\ v \notin holding
           ELSE at' = at /\ holding' = holding
    BY <1>2, <1>7, <2>1, <2>2, StrandedDone DEF BeginFails
  <2>4. jobs[1].awaited => conn.by # u
    BY <2>3 DEF OpenFits, Awaits
  <2> QED
    BY <2>3, <2>4 DEF OpenFits
<1>8. CASE WriteDone
  <2>1. "write" \in Kinds /\ Done("write")
    BY <1>8 DEF WriteDone, Kinds
  <2>2. /\ StrandedFits' /\ u \in Units /\ holding' = holding
        /\ IF jobs[1].awaited THEN u \in holding /\ at'[u] = "open" ELSE at' = at
    BY <1>2, <1>8, <2>1, StrandedDone DEF WriteDone
  <2>3. conn'.by = u /\ conn.by = u
    <3>1. conn'.by = u
      BY <1>8, WriteData
    <3>2. 1 \in 1..Len(jobs) /\ jobs[1].kind = "write"
      BY <2>1, HeadFits
    <3> QED
      BY <3>1, <3>2 DEF UowInv, ConnectionFits
  <2> QED
    BY <2>2, <2>3 DEF OpenFits
<1>9. CASE WriteFails \/ CommitFails
  <2>1. PICK kind \in {"write", "commit"}, step \in {"leaving", "undoing"} :
            Done(kind) /\ Resume(step, <<Job(Head(jobs).unit, "rollback")>>)
    BY <1>9 DEF WriteFails, CommitFails, FailsLoudly
  <2>2. kind \in Kinds
    BY DEF Kinds
  <2>3. holding' = holding /\ conn' = conn
    BY <1>9 DEF WriteFails, CommitFails, FailsLoudly
  <2>4. /\ StrandedFits'
        /\ IF jobs[1].awaited
           THEN /\ at[u] \in Awaits(kind) /\ u \in Units /\ u \in holding /\ at'[u] = step
                /\ \A v \in Units \ {u} : at'[v] = at[v] /\ v \notin holding
           ELSE at' = at
    BY <1>3, <1>4, <2>1, <2>2, <2>3, StrandedDone
  <2> QED
    BY <2>3, <2>4 DEF OpenFits
<1>10. CASE CommitDone
  <2>1. "commit" \in Kinds /\ Done("commit")
    BY <1>10 DEF CommitDone, Kinds
  <2>2. StrandedFits'
    BY <1>2, <1>10, <2>1, StrandedDone DEF CommitDone
  <2> QED
    BY <1>1, <1>10, <2>2 DEF CommitDone, OpenFits
<1>11. CASE RollbackDone \/ RollbackFails
  <2>1. "rollback" \in Kinds /\ Done("rollback") /\ LetsGo
    BY <1>11 DEF RollbackDone, RollbackFails, Kinds
  <2>2. PICK step \in {"ended", "unrolled"} :
            /\ Resume(step, <<>>)
            /\ (conn'.by = u => step = "unrolled" \/ ~jobs[1].awaited)
            /\ conn' \in {conn, Closed}
    <3>1. CASE RollsBack /\ Resume("ended", <<>>)
      <4>1. conn' \in {conn, Closed} /\ conn'.by # u
        BY <1>1, <1>4, <2>1, <3>1 DEF RollsBack
      <4> QED
        BY <3>1, <4>1
    <3>2. CASE conn' = conn /\ Resume("unrolled", <<>>)
      BY <3>2
    <3> QED
      BY <1>11, <3>1, <3>2 DEF RollbackDone, RollbackFails
  <2>3. /\ StrandedFits'
        /\ IF jobs[1].awaited
           THEN /\ at'[u] = step /\ u \in Units
                /\ \A v \in Units \ {u} : at'[v] = at[v] /\ v \notin holding
           ELSE at' = at /\ holding' = holding
    BY <1>2, <2>1, <2>2, StrandedDone
  <2> QED
    BY <1>1, <2>2, <2>3 DEF OpenFits
<1> QED
  BY <1>5, <1>6, <1>7, <1>8, <1>9, <1>10, <1>11 DEF FinishJob

\* Wherever a unit fails or is cancelled, it gives the lock back unless it was
\* inside begin(), and a free lock means a connection without a transaction
\* unless a rollback was cancelled or refused (unit_of_work.py).
THEOREM LockAlwaysGoesWithTheUnit == Spec => []LockGoesWithTheUnit
<1>1. UowInv /\ OpenFits /\ StrandedFits /\ [Next]_vars => (OpenFits /\ StrandedFits)'
  <2> SUFFICES ASSUME UowInv, OpenFits, StrandedFits, [Next]_vars PROVE OpenFits' /\ StrandedFits'
    OBVIOUS
  <2>1. CASE UNCHANGED vars
    BY <2>1 DEF vars, OpenFits, StrandedFits
  <2>2. CASE StartJob
    BY <2>2 DEF StartJob, OpenFits, StrandedFits
  <2>3. CASE Rest
    BY <2>1, <2>3 DEF Rest
  <2> QED
    BY <2>1, <2>2, <2>3, OwnedUnit, OwnedCancel, OwnedDone DEF Next, Worker
<1>2. UowInv /\ OpenFits => LockGoesWithTheUnit
  <2> SUFFICES ASSUME UowInv, OpenFits PROVE LockGoesWithTheUnit
    OBVIOUS
  <2>1. \A u \in holding : at[u] \in Finished => at[u] = "stranded"
    BY DEF UowInv, TypeOK, LockFits, Finished, AwaitsJob
  <2>2. ASSUME holding = {}, conn # Closed PROVE conn.by \in Units /\ at[conn.by] = "unrolled"
    <3>1. conn.by \in Units
      BY <2>2 DEF UowInv, TypeOK, ConnectionFits, Closed
    <3> QED
      BY <2>2, <3>1 DEF OpenFits
  <2> QED
    BY <2>1, <2>2 DEF LockGoesWithTheUnit
<1> QED
  BY <1>1, <1>2, OwnedInit, UowInvariant, PTL DEF Spec
=============================================================================
