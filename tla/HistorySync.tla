---------------------------- MODULE HistorySync ----------------------------
(***************************************************************************)
(* How the messages of an account reach its store, and what the bookmark   *)
(* of each chat says about them:                                           *)
(*   application/use_cases/backfill.py   SyncHistory, downwards in batches *)
(*   application/use_cases/live.py       SyncLive, catch-up then updates   *)
(*   application/use_cases/message.py    IngestMessages, once each         *)
(*   domain/model/sync_cursor.py         SyncCursor (module SyncCursor)    *)
(*                                                                         *)
(* One command runs at a time: TDLib locks the account's directory, so a   *)
(* second process cannot connect.  The chat policy command needs no        *)
(* connection and interleaves with everything, as do Telegram itself and   *)
(* the end of the process.  Every action is the code between two awaits    *)
(* that matter: one transaction, one fetch, or one publication.            *)
(*                                                                         *)
(* Messages of a chat are 1..top[c], in Telegram's order; the model keeps  *)
(* no content.  Updates of kinds other than NewMessage are ignored by the  *)
(* code and absent here.                                                   *)
(***************************************************************************)
EXTENDS SyncCursor, Sequences, FiniteSetsExt

CONSTANTS
    Chats,          \* the chats the store holds
    MaxMsg,         \* bound on the messages Telegram ever holds for a chat
    SentAt,         \* the instant each message was sent
    Horizons,       \* the horizons a backfill may be run with
    BatchSize,      \* messages per fetched page (batch_size)
    MaxBatches,     \* largest max_batches a run is given
    CatchUpPages,   \* pages a catch-up reads before giving up
    MaxQueue,       \* bound on redelivered updates waiting in the stream
    NoCursor        \* a chat whose sync_cursors row does not exist

Msg == 1..MaxMsg

Cursors == Cursor(Msg, Horizons)

ASSUME BoundsAssumption ==
    /\ MaxMsg \in Nat
    /\ BatchSize \in Nat \ {0}
    /\ MaxBatches \in Nat \ {0}
    /\ CatchUpPages \in Nat \ {0}
    /\ MaxQueue \in Nat

\* Within a chat, identifiers increase with time; two messages may share one.
ASSUME SentAtAssumption ==
    /\ SentAt \in [Msg -> Nat \ {0}]
    /\ \A m, n \in Msg : m <= n => SentAt[m] <= SentAt[n]

ASSUME HorizonsAssumption == Horizons \subseteq Nat /\ Unlimited \in Horizons

ASSUME NoCursorAssumption == NoCursor \notin Cursors

VARIABLES
    top,            \* Telegram: the newest message of each chat, 0 if none
    syncEnabled,    \* chats.sync_enabled
    messages,       \* the messages table, per chat
    cursors,        \* the sync_cursors table
    mode,           \* the command that is running
    pc,             \* where that command is
    chat,           \* the chat it is working on
    cursor,         \* the bookmark a backfill holds across its awaits
    horizon,        \* the horizon this backfill run intends to reach
    left,           \* batches or catch-up pages the run may still take
    page,           \* the messages fetched, or being stored and announced
    target,         \* catch-up: each snapshot newest id still to be reached
    before,         \* catch-up: where the next page starts
    catchUp,        \* whether this live run was started with a catch-up
    queue,          \* the gateway's update stream
    missed          \* accounting only: why a message was passed over, if it was

store == <<messages, cursors>>
run == <<mode, pc, chat, cursor, horizon, left, page, target, before, catchUp>>
vars == <<top, syncEnabled, store, run, queue, missed>>

Modes == {"none", "backfill", "live"}
Steps == {"idle", "reopen", "fetch", "commit", "publish", "begin", "next",
          "drain", "store"}

(***************************************************************************)
(* Why a message that Telegram holds may be absent from the store.  The    *)
(* first four are decisions the code states; the other two are not.        *)
(***************************************************************************)
Decided == {"off",        \* its chat was switched off
            "failed",     \* it could not be stored, and the run went on
            "limit",      \* below the last page a catch-up may read
            "nocatchup"}  \* the operator asked for no catch-up
Undecided == {"torn",     \* below the page an interrupted catch-up reached
              "unfilled"} \* below a range begun on a chat already complete
Reasons == Decided \cup Undecided

Missed(c, why) == {m \in Msg : missed[c][m] \in why}

\* The accounts once S of c is passed over, or once batch of c is stored.
Skip(c, S, why) ==
    [missed EXCEPT ![c] = [m \in Msg |->
        IF m \in S \ messages[c] THEN why ELSE @[m]]]

Stored(accounts, c, batch) ==
    [accounts EXCEPT ![c] = [m \in Msg |-> IF m \in batch THEN "no" ELSE @[m]]]

TypeOK ==
    /\ top \in [Chats -> 0..MaxMsg]
    /\ syncEnabled \in [Chats -> BOOLEAN]
    /\ messages \in [Chats -> SUBSET Msg]
    /\ cursors \in [Chats -> Cursors \cup {NoCursor}]
    /\ mode \in Modes
    /\ pc \in Steps
    /\ chat \in Chats
    /\ cursor \in Cursors
    /\ horizon \in Horizons
    /\ left \in Nat
    /\ page \in SUBSET Msg
    /\ target \in [Chats -> 0..MaxMsg]
    /\ before \in 0..MaxMsg
    /\ catchUp \in BOOLEAN
    /\ queue \in Seq(Chats \X Msg)
    /\ missed \in [Chats -> [Msg -> Reasons \cup {"no"}]]

Nothing == [c \in Chats |-> 0]

Init ==
    /\ top \in [Chats -> 0..MaxMsg]
    /\ syncEnabled \in [Chats -> BOOLEAN]
    /\ messages = [c \in Chats |-> {}]
    /\ cursors = [c \in Chats |-> NoCursor]
    /\ mode = "none" /\ pc = "idle"
    /\ chat \in Chats
    /\ cursor = Start(Unlimited) /\ horizon = Unlimited
    /\ left = 0 /\ page = {}
    /\ target = Nothing /\ before = NoId /\ catchUp = TRUE
    /\ queue = <<>>
    /\ missed = [c \in Chats |-> [m \in Msg |-> "no"]]

-----------------------------------------------------------------------------
(***************************************************************************)
(* Telegram.  A page is never empty while older messages exist, may be     *)
(* shorter than asked, and is a run of messages without a gap.             *)
(***************************************************************************)
NewestBelow(c, m) == IF m = NoId THEN top[c] ELSE Lesser(top[c], m - 1)

PagesBelow(c, m) ==
    LET hi == NewestBelow(c, m) IN
    IF hi = 0 THEN {{}}
    ELSE {lo..hi : lo \in Greater(1, hi - BatchSize + 1)..hi}

Arrive(c) ==
    /\ top[c] < MaxMsg
    /\ top' = [top EXCEPT ![c] = @ + 1]
    /\ queue' = IF mode = "live" THEN Append(queue, <<c, top[c] + 1>>) ELSE queue
    /\ UNCHANGED <<syncEnabled, store, run, missed>>

\* The stream repeats an update for a message that is already stored.
Redeliver(c) ==
    /\ mode = "live"
    /\ Len(queue) < MaxQueue
    /\ \E m \in messages[c] : queue' = Append(queue, <<c, m>>)
    /\ UNCHANGED <<top, syncEnabled, store, run, missed>>

SetPolicy(c) ==
    /\ syncEnabled' = [syncEnabled EXCEPT ![c] = ~@]
    /\ UNCHANGED <<top, store, run, queue, missed>>

-----------------------------------------------------------------------------
(***************************************************************************)
(* What the commands share.                                                *)
(***************************************************************************)
Ranged(c) == cursors[c] # NoCursor /\ HasSynced(cursors[c])

\* _store reads the bookmark inside its transaction, or begins one.
Current(c) == IF cursors[c] = NoCursor THEN Start(Unlimited) ELSE cursors[c]

\* The row is written whole.
Save(c, k) == cursors' = [cursors EXCEPT ![c] = k]

Ingest(c, batch) == messages' = [messages EXCEPT ![c] = @ \cup batch]

Rest ==
    /\ mode' = "none" /\ pc' = "idle"
    /\ cursor' = Start(Unlimited) /\ horizon' = Unlimited
    /\ left' = 0 /\ page' = {}
    /\ target' = Nothing /\ before' = NoId /\ catchUp' = TRUE
    /\ UNCHANGED chat

Fetch ==
    /\ pc = "fetch"
    /\ page' \in PagesBelow(chat, IF mode = "backfill" THEN ResumeFrom(cursor)
                                                       ELSE before)
    /\ pc' = "commit"
    /\ UNCHANGED <<top, syncEnabled, store, mode, chat, cursor, horizon, left,
                   target, before, catchUp, queue, missed>>

\* After a batch, when nothing is left the loop over pages has ended.
Publish ==
    /\ pc = "publish"
    /\ \/ /\ left # 0
          /\ pc' = "fetch"
          /\ page' = {}
          /\ UNCHANGED <<mode, chat, cursor, horizon, left, target, before, catchUp>>
       \/ /\ left = 0 /\ mode = "backfill"
          /\ Rest
       \/ /\ left = 0 /\ mode = "live"
          /\ pc' = IF target = Nothing THEN "drain" ELSE "next"
          /\ page' = {}
          /\ UNCHANGED <<mode, chat, cursor, horizon, left, target, before, catchUp>>
    /\ UNCHANGED <<top, syncEnabled, messages, cursors, queue, missed>>

-----------------------------------------------------------------------------
(***************************************************************************)
(* SyncHistory.execute for one chat; execute_all is one run per chat.  A   *)
(* run over a chat that is complete for its horizon changes nothing.       *)
(***************************************************************************)
BeginBackfill(c, h, reset, batches) ==
    LET held == IF reset \/ cursors[c] = NoCursor THEN Start(h) ELSE cursors[c] IN
    /\ mode = "none"
    /\ syncEnabled[c]
    /\ ~(held.complete /\ ReachesBackTo(held, h))
    /\ Save(c, held)
    /\ mode' = "backfill"
    /\ pc' = IF held.complete THEN "reopen" ELSE "fetch"
    /\ chat' = c /\ cursor' = held /\ horizon' = h /\ left' = batches
    /\ UNCHANGED <<top, syncEnabled, messages, page, target, before,
                   catchUp, queue, missed>>

Reopen ==
    /\ pc = "reopen"
    /\ cursor' = Reopened(cursor, horizon)
    /\ Save(chat, cursor')
    /\ pc' = "fetch"
    /\ UNCHANGED <<top, syncEnabled, messages, mode, chat, horizon, left,
                   page, target, before, catchUp, queue, missed>>

\* Mutant: the horizon itself is left out.
WithinStrictly(batch) == {m \in batch : SentAt[m] > horizon}

Within(batch) == {m \in batch : SentAt[m] >= horizon}

\* Mutants: the bookmark moves over what was fetched, not over what was kept;
\* is begun anew with each batch; does not move.
AdvanceOverPage(keep) == WithBatch(cursor, Min(page), Max(page))
AdvanceAnew(keep) == WithBatch(Start(horizon), Min(keep), Max(keep))
AdvanceNot(keep) == cursor

Advance(keep) == WithBatch(cursor, Min(keep), Max(keep))

\* The page is empty (the beginning), or all of it is before the horizon.
CompleteBackfill ==
    /\ mode = "backfill" /\ pc = "commit"
    /\ Within(page) = {}
    /\ Save(chat, Completed(cursor, horizon))
    /\ Rest
    /\ UNCHANGED <<top, syncEnabled, messages, queue, missed>>

CommitBatch ==
    LET keep == Within(page)
        reached == keep # page
        advanced == IF reached THEN Completed(Advance(keep), horizon) ELSE Advance(keep)
        stuck == ResumeFrom(advanced) = ResumeFrom(cursor)
        ends == reached \/ stuck \/ left = 1
    IN
    /\ mode = "backfill" /\ pc = "commit"
    /\ keep # {}
    /\ Ingest(chat, keep)
    /\ missed' = Stored(missed, chat, keep)
    /\ Save(chat, advanced)
    /\ \/ /\ keep \subseteq messages[chat] /\ ends
          /\ Rest
       \/ /\ ~(keep \subseteq messages[chat] /\ ends)
          /\ cursor' = advanced
          /\ left' = IF ends THEN 0 ELSE left - 1
          /\ IF keep \subseteq messages[chat]
             THEN pc' = "fetch" /\ page' = {}
             ELSE pc' = "publish" /\ page' = keep
          /\ UNCHANGED <<mode, chat, horizon, target, before, catchUp>>
    /\ UNCHANGED <<top, syncEnabled, queue>>

-----------------------------------------------------------------------------
(***************************************************************************)
(* SyncLive.execute: the snapshot, the catch-up of one chat after another, *)
(* and the drain of the stream.                                            *)
(***************************************************************************)
StartLive(withCatchUp) ==
    /\ mode = "none"
    /\ mode' = "live" /\ pc' = "begin" /\ catchUp' = withCatchUp
    /\ UNCHANGED <<top, syncEnabled, store, chat, cursor, horizon, left, page,
                   target, before, queue, missed>>

\* Mutant: a complete chat is taken to have nothing to catch up.
FollowableOpen(c) == syncEnabled[c] /\ Ranged(c) /\ ~cursors[c].complete

Followable(c) == syncEnabled[c] /\ Ranged(c)

\* Chats with a range that this run will not look above.
PassedOver(c) ==
    IF ~Ranged(c) \/ (syncEnabled[c] /\ catchUp) THEN missed[c]
    ELSE Skip(c, cursors[c].newest + 1..top[c],
              IF syncEnabled[c] THEN "nocatchup" ELSE "off")[c]

BeginLive ==
    /\ pc = "begin"
    /\ target' = [c \in Chats |-> IF catchUp /\ Followable(c)
                                  THEN cursors[c].newest ELSE 0]
    /\ pc' = IF target' = Nothing THEN "drain" ELSE "next"
    /\ missed' = [c \in Chats |-> PassedOver(c)]
    /\ UNCHANGED <<top, syncEnabled, store, mode, chat, cursor, horizon, left, page,
                   before, catchUp, queue>>

NextChat ==
    /\ pc = "next"
    /\ \E c \in Chats : target[c] # 0 /\ chat' = c
    /\ left' = CatchUpPages
    /\ before' = NoId
    /\ pc' = "fetch"
    /\ UNCHANGED <<top, syncEnabled, store, mode, cursor, horizon, page, target,
                   catchUp, queue, missed>>

\* Mutant: new is what is above the bookmark, which the first page has raised.
FreshAboveStored == {m \in page : m > Current(chat).newest}

Fresh == {m \in page : m > target[chat]}

\* One page of a catch-up, the newest first; what is above the target is new.
CommitCatchUp ==
    LET fresh == Fresh
        ends == page = {} \/ fresh # page \/ left = 1
        cut == IF page # {} /\ fresh = page /\ left = 1
               THEN target[chat] + 1..Min(page) - 1 ELSE {}
        rest == IF ends THEN [target EXCEPT ![chat] = 0] ELSE target
        known == fresh \subseteq messages[chat]
    IN
    /\ mode = "live" /\ pc = "commit"
    /\ IF known
       THEN UNCHANGED <<messages, cursors>>
       ELSE /\ Ingest(chat, fresh)
            /\ Save(chat, WithBatch(Current(chat), Min(fresh), Max(fresh)))
    /\ target' = rest
    /\ left' = IF ends THEN 0 ELSE left - 1
    /\ before' = IF page = {} THEN before ELSE Min(page)
    /\ page' = IF known THEN {} ELSE fresh
    /\ pc' = IF ~known THEN "publish"
             ELSE IF ~ends THEN "fetch"
             ELSE IF rest = Nothing THEN "drain" ELSE "next"
    /\ missed' = Stored(Skip(chat, cut, "limit"), chat, fresh)
    /\ UNCHANGED <<top, syncEnabled, mode, chat, cursor, horizon, catchUp,
                   queue>>

\* Takes an update and looks its chat up, in a transaction of its own.
Take ==
    /\ pc = "drain"
    /\ queue # <<>>
    /\ queue' = Tail(queue)
    /\ LET c == Head(queue)[1]
           m == Head(queue)[2]
       IN \/ /\ ~syncEnabled[c]
             /\ missed' = Skip(c, {m}, "off")
             /\ UNCHANGED <<pc, chat, page>>
          \/ /\ syncEnabled[c]
             /\ pc' = "store" /\ chat' = c /\ page' = {m}
             /\ UNCHANGED missed
    /\ UNCHANGED <<top, syncEnabled, store, mode, cursor, horizon, left, target,
                   before, catchUp>>

\* What a range begun at m on a complete bookmark leaves to nobody.
Unfilled(c, m) ==
    IF Current(c).complete /\ ~Ranged(c)
    THEN Skip(c, {n \in 1..m - 1 : SentAt[n] >= Current(c).horizon}, "unfilled")
    ELSE missed

StoreUpdate ==
    /\ pc = "store"
    /\ \/ /\ page \subseteq messages[chat]
          /\ pc' = "drain" /\ page' = {}
          /\ UNCHANGED <<messages, cursors, missed>>
       \/ \E m \in page \ messages[chat] :
             /\ Ingest(chat, {m})
             /\ Save(chat, WithBatch(Current(chat), m, m))
             /\ missed' = Stored(Unfilled(chat, m), chat, {m})
             /\ pc' = "publish" /\ UNCHANGED page
    /\ UNCHANGED <<top, syncEnabled, mode, chat, cursor, horizon, left,
                   target, before, catchUp, queue>>

\* The transaction is refused for this item; the run goes past it.
FailUpdate ==
    /\ pc = "store"
    /\ missed' = Skip(chat, page, "failed")
    /\ pc' = "drain" /\ page' = {}
    /\ UNCHANGED <<top, syncEnabled, store, mode, chat, cursor, horizon, left, target,
                   before, catchUp, queue>>

-----------------------------------------------------------------------------
(***************************************************************************)
(* A run can end anywhere between two transactions: the process dies, the  *)
(* stream ends, a fetch fails, the operator interrupts it.  The supervisor *)
(* runs a live synchronisation again on the same connection, so what is    *)
(* waiting in the stream survives a restart and nothing else does.         *)
(***************************************************************************)
OpenGap(c) ==
    IF mode = "live" /\ chat = c /\ target[c] # 0 /\ before # NoId
    THEN target[c] + 1..before - 1 ELSE {}

Torn == missed' = Skip(chat, OpenGap(chat), "torn")

Stop ==
    /\ mode # "none"
    /\ Torn
    /\ Rest
    /\ queue' = <<>>
    /\ UNCHANGED <<top, syncEnabled, store>>

Restart ==
    /\ mode = "live" /\ pc # "begin"
    /\ Torn
    /\ pc' = "begin" /\ left' = 0 /\ page' = {} /\ target' = Nothing /\ before' = NoId
    /\ UNCHANGED <<top, syncEnabled, store, mode, chat, cursor, horizon, catchUp, queue>>

-----------------------------------------------------------------------------
Environment == \E c \in Chats : Arrive(c) \/ Redeliver(c) \/ SetPolicy(c)

Backfill ==
    \/ \E c \in Chats, h \in Horizons, reset \in BOOLEAN, n \in 1..MaxBatches :
          BeginBackfill(c, h, reset, n)
    \/ Reopen \/ CompleteBackfill \/ CommitBatch

Live ==
    \/ \E withCatchUp \in BOOLEAN : StartLive(withCatchUp)
    \/ BeginLive \/ NextChat \/ CommitCatchUp \/ Take \/ StoreUpdate \/ FailUpdate

Next == Environment \/ Backfill \/ Live \/ Fetch \/ Publish \/ Stop \/ Restart

Spec == Init /\ [][Next]_vars

(***************************************************************************)
(* The operator runs the backfill of c again, without a reset and at one   *)
(* horizon, and live runs between; whatever is interrupted, no step is cut *)
(* off every time: the loop runs a command's steps one after another, and  *)
(* max_restarts bounds how often a failure can restart a live run.         *)
(***************************************************************************)
Resume(c) == \E n \in 1..MaxBatches : BeginBackfill(c, Unlimited, FALSE, n)

FairNext ==
    \/ Environment \/ (\E c \in Chats : Resume(c)) \/ CompleteBackfill \/ CommitBatch
    \/ Live \/ Fetch \/ Publish \/ Stop \/ Restart

FairSpec ==
    /\ Init /\ [][FairNext]_vars
    /\ \A c \in Chats : SF_vars(Resume(c))
    /\ \A command \in {"backfill", "live"} : SF_vars(mode = command /\ (Fetch \/ Publish))
    /\ SF_vars(CommitBatch) /\ SF_vars(CompleteBackfill)
    /\ SF_vars(BeginLive) /\ SF_vars(NextChat) /\ SF_vars(CommitCatchUp)
    /\ SF_vars(Take) /\ SF_vars(StoreUpdate)

-----------------------------------------------------------------------------
(***************************************************************************)
(* Properties.                                                             *)
(***************************************************************************)

\* A bookmark only ever names messages that are stored: the rows and the
\* bookmark of a batch are one transaction (sync_cursor.py, _commit_batch,
\* _store), whatever is interrupted, reset or delivered twice.
CursorNamesStored ==
    \A c \in Chats : Ranged(c) => {cursors[c].oldest, cursors[c].newest} \subseteq messages[c]

\* Between the two ends of a bookmark every message is stored, unless the code
\* passed over it: nothing is lost without a reason on record.
RangeIsStored ==
    \A c \in Chats : Ranged(c) =>
        cursors[c].oldest..cursors[c].newest
            \subseteq messages[c] \cup Missed(c, Reasons) \cup OpenGap(c)

\* While a live run follows the stream, every message above the range of a chat
\* is waiting in the stream, in hand, or passed over on record: the next update
\* can raise the range without leaving anything behind.
NothingOutsideStream ==
    mode = "live" /\ pc \in {"drain", "store", "publish"} /\ target = Nothing =>
        \A c \in Chats : Ranged(c) =>
            \A m \in cursors[c].newest + 1..top[c] :
                \/ <<c, m>> \in Range(queue)
                \/ pc = "store" /\ chat = c /\ m \in page
                \/ m \in messages[c] \cup Missed(c, Reasons)

\* A complete bookmark with a range: nothing Telegram holds below the range is
\* inside the recorded horizon, except below a range a live update began.
CompleteReachesHorizon ==
    \A c \in Chats : Ranged(c) /\ cursors[c].complete =>
        {m \in 1..cursors[c].oldest - 1 : SentAt[m] >= cursors[c].horizon}
            \subseteq messages[c] \cup Missed(c, Reasons)

\* Storing a batch and claiming its range are one step, whatever crashes come
\* between steps; nothing stored is lost, and only a reset gives a range up.
Claimed(c) == IF Ranged(c) THEN cursors[c].oldest..cursors[c].newest ELSE {}

Archive == INSTANCE MessageArchive WITH
    stored <- messages, range <- [c \in Chats |-> Claimed(c)]

ImplementsArchive == Archive!Spec

\* However often a backfill is interrupted, and whatever live runs come between,
\* running it again completes the chat, provided the operator goes on finding it
\* switched on with nothing else running.
BackfillCompletes ==
    \A c \in Chats :
        []<>(syncEnabled[c] /\ mode = "none")
            => <>(cursors[c] # NoCursor /\ cursors[c].complete)

\* A message reported to a live run that follows its chat is stored, or passed
\* over on record, or that run ends: it is not left behind in the stream.
UpdatesSettle ==
    \A c \in Chats, m \in Msg :
        (mode = "live" /\ catchUp /\ Ranged(c) /\ <<c, m>> \in Range(queue))
            ~> (m \in messages[c] \/ missed[c][m] # "no" \/ mode = "none")

=============================================================================
