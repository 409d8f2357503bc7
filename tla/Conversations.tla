--------------------------- MODULE Conversations ---------------------------
(***************************************************************************)
(* Conversations derived from the messages of one chat:                    *)
(*   domain/services/segmentation.py           where boundaries are        *)
(*   application/use_cases/conversation.py     which stored row is which   *)
(*   infrastructure/persistence/conversations.py  rows, one per start      *)
(*   infrastructure/events/bus.py              what runs a pass            *)
(*                                                                         *)
(* A pass reads and then writes.  It runs in the assistant when the bus    *)
(* hands over the event of a stored batch, and in a process of its own     *)
(* when the operator asks for a rebuild.  A unit of work keeps out others  *)
(* of its process; the database begins its transaction with the first      *)
(* write, so the pass of another process can come between.                 *)
(*                                                                         *)
(* A process that dies between the commit of a batch and its event keeps   *)
(* the messages and loses the event.  Rules are read when a process        *)
(* starts; the configuration is taken to change only then.                 *)
(*                                                                         *)
(* Messages are 1..MaxMsg in ordering_key's order; SentAt is their         *)
(* instant.  An identifier nothing names any more may be given again.      *)
(***************************************************************************)
EXTENDS Integers, SequencesExt

CONSTANTS
    MaxMsg,         \* bound on the messages of the chat
    SentAt,         \* the instant each was sent
    Gaps,           \* the gaps the operator may configure
    Cap,            \* max_messages
    ReadLimit,      \* the limit of list_since
    BatchSize,      \* bound on a stored batch
    Threshold,      \* DEFAULT_FAILURE_THRESHOLD
    MaxRestarts     \* bound on the restarts of the assistant

Msg == 1..MaxMsg

ASSUME BoundsAssumption ==
    /\ MaxMsg \in Nat \ {0} /\ Cap \in Nat \ {0} /\ ReadLimit \in Nat \ {0}
    /\ BatchSize \in Nat /\ Threshold \in Nat \ {0} /\ MaxRestarts \in Nat
    /\ Gaps \subseteq Nat \ {0} /\ Gaps # {}

ASSUME SentAtAssumption ==
    /\ SentAt \in [Msg -> Nat \ {0}]
    /\ \A m, n \in Msg : m <= n => SentAt[m] <= SentAt[n]

VARIABLES
    messages,       \* the messages table
    rows,           \* the conversations table
    pass,           \* what the pass of each process is about to write
    event,          \* MessagesIngested.oldest_sent_at, 0 when none is on its way
    failures,       \* consecutive_failures of the handler; Threshold: not subscribed
    gap,            \* the configured gap
    restarts,
    behind,         \* accounting only: something was stored or configured that no
                    \* pass has taken in,
    raced           \* or a pass wrote over what another had changed meanwhile

vars == <<messages, rows, pass, event, failures, gap, restarts, behind, raced>>

Processes == {"assistant", "rebuild"}
Instants == {SentAt[m] : m \in Msg}
None == 0

\* No pass is between its reads and its writes.
Idle == [open |-> FALSE, writes |-> <<>>, created |-> {}, deletes |-> {},
         whole |-> FALSE, cut |-> FALSE, stale |-> FALSE]

Covers(row, t) == row.start <= t /\ t <= row.end

Row == [id : Nat \ {0}, start : Instants, end : Instants, count : 1..Cap]

TypeOK ==
    /\ messages \subseteq Msg
    /\ rows \subseteq Row
    /\ \A r \in rows : r.start <= r.end
    /\ \A r, s \in rows : (r.id = s.id \/ r.start = s.start) => r = s
    /\ \A p \in Processes : pass[p].writes \in Seq(Row) /\ pass[p].deletes \subseteq Nat \ {0}
    /\ event \in Instants \cup {None}
    /\ failures \in 0..Threshold
    /\ gap \in Gaps
    /\ restarts \in 0..MaxRestarts
    /\ {behind, raced} \subseteq BOOLEAN

Init ==
    /\ messages = {} /\ rows = {} /\ event = None
    /\ pass = [p \in Processes |-> Idle]
    /\ failures \in {0, Threshold}
    /\ gap \in Gaps
    /\ restarts = 0 /\ behind = FALSE /\ raced = FALSE

-----------------------------------------------------------------------------
(***************************************************************************)
(* segment().                                                              *)
(***************************************************************************)
Separates(g, m, n) == SentAt[n] - SentAt[m] > g

Place(g, segments, m) ==
    IF \/ segments = <<>>
       \/ Separates(g, Last(Last(segments)), m)
       \/ Len(Last(segments)) >= Cap
    THEN Append(segments, <<m>>)
    ELSE Front(segments) \o <<Append(Last(segments), m)>>

\* The segments of S, its messages placed one after the other.
Divide(g, S) ==
    LET segments[m \in 0..MaxMsg] ==
            IF m = 0 THEN <<>>
            ELSE IF m \in S THEN Place(g, segments[m - 1], m) ELSE segments[m - 1]
    IN segments[MaxMsg]

-----------------------------------------------------------------------------
(***************************************************************************)
(* What a pass reads and makes of it: SegmentConversations.execute up to   *)
(* its first write.                                                        *)
(***************************************************************************)
\* Mutant: the window begins where the batch does.
WindowAtBatch(since) == since

\* latest_before: the start of the last conversation that begins by then.
Window(since) ==
    Max({None} \cup {r.start : r \in {s \in rows : s.start <= since}})

\* list_since: the oldest messages of the window, as many as it returns.
Within(window) == {m \in messages : SentAt[m] >= window}

Read(window) ==
    {m \in Within(window) : Cardinality({n \in Within(window) : n < m}) < ReadLimit}

\* The first free conversation, in the order they are listed in, that contains m.
Owner(free, m) ==
    LET owners == {r \in free : Covers(r, SentAt[m])} IN
    {r \in owners : \A s \in owners : r.start < s.start \/ (r.start = s.start /\ r.id <= s.id)}

\* Mutant: the first free conversation is taken, whatever it contains.
FirstFree(free, piece) == {r \in free : \A s \in free : r.start <= s.start}

\* The conversation that owns the plurality of the piece; none, if none does.
Claimant(free, piece) ==
    LET votes(r) == Cardinality({m \in Range(piece) : r \in Owner(free, m)})
        voted == {r \in free : votes(r) > 0}
        best == {r \in voted : \A s \in voted : votes(s) <= votes(r)}
    IN {r \in best : \A s \in best : r.id <= s.id}

Spanning(id, piece) ==
    [id |-> id, start |-> SentAt[Head(piece)], end |-> SentAt[Last(piece)],
     count |-> Len(piece)]

NewId(written) ==
    1 + Max({0} \cup {r.id : r \in rows \cup Range(written)}
                \cup {r.id : r \in UNION {Range(pass[p].writes) : p \in Processes}})

\* One piece takes the row it owns most of, or begins one; what does not change
\* is not written.
Reconcile(plan, piece) ==
    LET owner == Claimant(plan.free, piece) IN
    IF owner = {}
    THEN LET id == NewId(plan.writes) IN
         [plan EXCEPT !.writes = Append(@, Spanning(id, piece)), !.created = @ \cup {id}]
    ELSE LET r == CHOOSE s \in owner : TRUE
             revised == Spanning(r.id, piece)
         IN [plan EXCEPT !.free = @ \ {r},
                         !.writes = IF revised = r THEN @ ELSE Append(@, revised)]

Plan(window) ==
    LET pieces == Divide(gap, Read(window))
        plan[n \in 0..Len(pieces)] ==
            IF n = 0 THEN [writes |-> <<>>, created |-> {}, free |-> {r \in rows : r.start >= window}]
            ELSE Reconcile(plan[n - 1], pieces[n])
        made == plan[Len(pieces)]
    IN [open |-> TRUE, writes |-> made.writes, created |-> made.created,
        deletes |-> {r.id : r \in made.free},
        whole |-> window = None, cut |-> Read(window) # Within(window), stale |-> FALSE]

-----------------------------------------------------------------------------
(***************************************************************************)
(* Its writes, in one transaction: rows piece by piece, and what no piece  *)
(* took last.                                                              *)
(***************************************************************************)
\* The table after n of the plan's writes, each of a row of its own: an insert or
\* an update of one row by its id.
Table(plan, n) ==
    {r \in rows : \A i \in 1..n : plan.writes[i].id # r.id}
        \cup {plan.writes[i] : i \in 1..n}

\* An update needs its row, and two rows with one start break the unique index.
GoesThrough(plan) ==
    /\ {plan.writes[n].id : n \in DOMAIN plan.writes} \ plan.created \subseteq {r.id : r \in rows}
    /\ \A n \in DOMAIN plan.writes : \A r \in Table(plan, n - 1) :
          r.start = plan.writes[n].start => r.id = plan.writes[n].id

Written(plan) == {r \in Table(plan, Len(plan.writes)) : r.id \notin plan.deletes}

\* Process p begins a pass over the window.
Reads(p, window) == pass' = [pass EXCEPT ![p] = Plan(window)]

\* It ends, and what it wrote overtakes what the other has read.
Writes(p) ==
    /\ pass[p].open /\ GoesThrough(pass[p])
    /\ rows' = Written(pass[p])
    /\ pass' = [q \in Processes |-> IF q = p THEN Idle
                                    ELSE [pass[q] EXCEPT !.stale = @ \/ (pass[q].open /\ rows' # rows)]]
    /\ behind' = IF pass[p].stale \/ pass[p].cut THEN TRUE ELSE behind /\ ~pass[p].whole
    /\ raced' = IF pass[p].stale THEN TRUE ELSE raced /\ ~pass[p].whole

Ends(p) == pass' = [pass EXCEPT ![p] = Idle]

-----------------------------------------------------------------------------
(***************************************************************************)
(* A batch is committed, and announced to whoever is subscribed.  A batch  *)
(* may repeat messages that are stored.                                    *)
(***************************************************************************)
Subscribed == failures < Threshold

Ingest ==
    /\ event = None
    /\ \E batch \in SUBSET Msg :
          /\ ~(batch \subseteq messages) /\ Cardinality(batch) <= BatchSize
          /\ messages' = messages \cup batch
          /\ event' = IF Subscribed THEN Min({SentAt[m] : m \in batch}) ELSE None
    /\ behind' = (behind \/ ~Subscribed)
    /\ pass' = [pass EXCEPT !["rebuild"].whole = FALSE]
    /\ UNCHANGED <<rows, failures, gap, restarts, raced>>

\* on_ingested, invoked by the bus.
Segment ==
    /\ event # None /\ ~pass["assistant"].open
    /\ Reads("assistant", Window(event))
    /\ UNCHANGED <<messages, rows, event, failures, gap, restarts, behind, raced>>

Segmented ==
    /\ Writes("assistant")
    /\ event' = None /\ failures' = 0
    /\ UNCHANGED <<messages, gap, restarts>>

\* The pass breaks the index or misses a row, or the database fails it; the bus
\* counts, and unsubscribes a handler that fails too often.
SegmentFails ==
    /\ event # None
    /\ Ends("assistant")
    /\ event' = None /\ failures' = failures + 1
    /\ behind' = TRUE
    /\ UNCHANGED <<messages, rows, gap, restarts, raced>>

\* conversation rebuild, in a process of its own.
Rebuild ==
    /\ ~pass["rebuild"].open
    /\ Reads("rebuild", None)
    /\ UNCHANGED <<messages, rows, event, failures, gap, restarts, behind, raced>>

Rebuilds ==
    /\ Writes("rebuild")
    /\ UNCHANGED <<messages, event, failures, gap, restarts>>

RebuildFails ==
    /\ pass["rebuild"].open
    /\ Ends("rebuild")
    /\ UNCHANGED <<messages, rows, event, failures, gap, restarts, behind, raced>>

\* The assistant ends, wherever it is, and starts with what is configured now; a
\* rebuild that runs goes on with what it has read.
Restart ==
    /\ restarts < MaxRestarts
    /\ restarts' = restarts + 1
    /\ event' = None
    /\ failures' \in {0, Threshold}
    /\ gap' \in Gaps
    /\ behind' = (behind \/ event # None \/ gap' # gap)
    /\ pass' = [p \in Processes |-> IF p = "assistant" THEN Idle
                                    ELSE [pass[p] EXCEPT !.whole = @ /\ gap' = gap]]
    /\ UNCHANGED <<messages, rows, raced>>

Next ==
    \/ Ingest \/ Segment \/ Segmented \/ SegmentFails
    \/ Rebuild \/ Rebuilds \/ RebuildFails \/ Restart

Spec == Init /\ [][Next]_vars

-----------------------------------------------------------------------------
(***************************************************************************)
(* Properties.                                                             *)
(***************************************************************************)

\* What segmentation is to give, said without an order of computation: messages
\* with no silence between them are an episode, and every Cap-th of an episode
\* begins a conversation.
Silence(g, S, m, n) ==
    \E k \in S : /\ m <= k /\ k < n
                  /\ \A j \in S : j > k => Separates(g, k, j)

Episode(g, S, m) == {n \in S : ~Silence(g, S, m, n) /\ ~Silence(g, S, n, m)}

Rank(g, S, m) == Cardinality({n \in Episode(g, S, m) : n < m})

Begins(g, S, m) == Rank(g, S, m) \in {q * Cap : q \in 0..MaxMsg}

Together(g, S, m) ==
    {n \in Episode(g, S, m) : \A k \in Episode(g, S, m) : Begins(g, S, k) => (k <= m <=> k <= n)}

Extent(r) == <<r.start, r.end, r.count>>

Extents(g, S) ==
    {<<SentAt[Min(Together(g, S, m))], SentAt[Max(Together(g, S, m))],
       Cardinality(Together(g, S, m))>> : m \in S}

Rebuilt == Extents(gap, messages)

\* max_messages may cut between two messages of one instant, and then two
\* conversations share it.  What follows is claimed of chats where it cannot.
Undivided ==
    \/ Cap >= MaxMsg
    \/ \A m, n \in Msg : m < n => SentAt[m] < SentAt[n]

\* Conversations do not overlap: membership by range is exact.
Disjoint == \A r, s \in rows : r # s => r.end < s.start \/ s.end < r.start

\* "Incremental and wholesale agree": as long as every batch was announced, every
\* pass went through and none wrote over another, the windows give what a rebuild
\* of the chat gives.  Conversations stay disjoint even after lost events and
\* failed passes, as long as no pass wrote over another.
AgreesWithRebuild ==
    /\ event = None /\ ~behind => {Extent(r) : r \in rows} = Rebuilt
    /\ ~raced => Disjoint

\* A conversation keeps its identity: an id never moves to a run of messages it
\* shares nothing with, and a table that is right is left as it is.  (A pass
\* that wrote over another is excepted.)
IdentityIsKept ==
    [][rows' # rows /\ ~raced' =>
       /\ \A r \in rows, s \in rows' :
             r.id = s.id => \E m \in messages : Covers(r, SentAt[m]) /\ Covers(s, SentAt[m])
       /\ ~behind' => {Extent(r) : r \in rows} # Rebuilt]_vars

(***************************************************************************)
(* What the repository says and the code does not do.                      *)
(***************************************************************************)

\* "Deterministic and safe to repeat" (conversation rebuild), and a merge keeps
\* "the larger contributor's identity" (ADR-056): whatever is stored, a rebuild
\* that nothing disturbs writes its rows without breaking the index on starts.
RebuildGoesThrough == GoesThrough(Plan(None))
=============================================================================
