# Verification of the Telegram assistant

TLA+ models of the parts of `src/tgassist` where order, failure and interruption
decide whether the program is right, the TLC runs that check them on small
instances, and TLAPS proofs of the properties that matter most for every value
of the constants. `PROJECT.json` maps every definition to the lines it models
and lists runs, mutants, hazards and theorems.

    tlc -workers 2 -config HistorySync.cfg MCHistorySync.tla     # a run
    tlapm HistorySyncProofs.tla                                  # a proof module

1. Inventory · 2. The modules · 3. The runs · 4. Fairness · 5. What is proved ·
6. What the code does that its documentation does not say · 7. Not modelled ·
8. Plan

## 1. Inventory

The program is a local assistant for one Telegram account per database. A
command-line process connects to TDLib (a native library with a thread of its
own), stores what it reports in one SQLite file, and runs use cases over it. All
Python code but the TDLib receive thread and the one database thread runs on one
asyncio loop, so "concurrent" means: interleaved at awaits, cancelled at awaits,
and against those two threads. A process can die anywhere; TDLib locks the
account's directory, so two connected processes cannot exist, but commands that
need no connection (chat policy, reviews) can run beside one.

| component | state it keeps | operations | interacts with | hard behaviour | what makes it correct |
|---|---|---|---|---|---|
| message synchronisation (`backfill.py`, `live.py`, `message.py`, `sync_cursor.py`) | rows of `messages`; one bookmark per chat: oldest, newest, complete, horizon | backfill, catch-up, follow, ingest | gateway (pages, stream), unit of work, event bus | interruption between pages; updates during a catch-up; redelivery; moving horizon | bookmark and rows move together; what the bookmark claims is stored or passed over for a reason |
| TDLib client (`client.py`) | state, pending table, bounded queue, stop event, end event | start, request, receive, close; receive thread | TDLib, gateway | a thread against a loop; a full queue; death of the thread at any point | order and completeness of the stream; every waiter is released |
| gateway and authorization (`gateway.py`, `mapping.py`, `authenticate.py`, `sessions.py`) | view of the authorization, bounded update queue, login step | connect, start_authorization, logout, disconnect, updates, reads | client, handler (operator), consumer | answers and reports in any order; backpressure; shutdown with a full queue | no update dropped before disconnect, no step repeated, disconnect returns |
| supervisor (`supervisor.py`, `Container.run_live_sync`) | status per task, stop flags | start, run with restarts, stop | live sync, caller | failure while cancelled; polling while a task sleeps | nothing runs after stop; bounded restarts; stop returns |
| unit of work and database thread (`unit_of_work.py`, `executor.py`, `engine.py`, `repository.py`) | the lock, the connection's transaction, job queue | begin, execute, commit, rollback, exit | every use case | cancellation with a job already running; failing commit | isolation, all or nothing, lock always returned |
| event bus (`events/bus.py`) | handlers, failure counts, depth | subscribe, publish, unsubscribe | use cases | nested publishes, handlers that fail or unsubscribe meanwhile | one delivery each, a failing handler cannot stop the publisher |
| conversation segmentation (`conversation.py`, `segmentation.py`) | conversations per chat | segment, reconcile | messages, bus | reconciling rows under unique constraints; lost event | stored conversations equal those of a full rebuild |
| sessions (`session.py`, `Container.prepare_session`, `telegram_for`) | a record, a key in the credential store, TDLib's encrypted store | prepare, log in, log out, open | credential store, gateway | three stores and no transaction over them; a kill between any two | the key opens the store, only the owner's session is ready, what is destroyed was over |
| chats and contacts (`sync.py`, `chat.py`, `contact.py`) | chats, contacts, policies | import, add, archive, restore, delete, open, set policy | gateway, unit of work | rows written back whole by two processes; names that change while they are read | rows well formed, the operator's decisions kept, names settle |
| accounts and profiles (`account.py`, `user_profile.py`) | accounts, which one is active, a profile each | create, activate, show, set | unit of work | commands that looked before another wrote | one account operated, no preference lost but to a stale reading |
| migrations (`migrations.py`, `env.py`) | the stamp and the objects of the schema | start, migrate, downgrade | every command | statements that are durable one by one; two releases at once | the stamp says what is there |
| memory lifecycle (`memory*.py`) | proposals, memories | extract, accept, reject, retrieve, forget | AI, unit of work, segmentation (a merge deletes proposals) | two decisions at once; an AI call between reading and storing | one decision counts, one memory per accepted proposal, no fact offered twice |
| reply suggestions (`suggestion*.py`) | suggestions | draft, accept, dismiss | AI, memory | two decisions at once | one decision per suggestion |
| AI runs and prompts (`ai.py`, `infrastructure/ai`) | call records | ask, record, repair once | provider over HTTP | a permission withdrawn between attempt and repair; timeouts, cancellations | the gate is asked for each attempt, every answered call is on record |
| TDLib loading (`loader.py`, `binary.py`, `dependencies.py`, `manifest.py`) | none | find, verify, open, report | client, doctor | many ways for a file to be wrong | what is loaded is what was vetted, the doctor says what a load would |
| configuration and secrets (`config/`, `secret_store.py`) | none | load layers, read and write a secret, check | every component | five layers, blank sections, a chain of stores | the highest layer wins, nothing slips into production, what loads can be built |
| lists and status (`pagination.py`, `sync_status.py`) | none | pages, a walk, a report | tables that change | rows come and go between pages | a walk is exact, a report's counts agree |
| mappers, command line, stubs | none | translate, parse, print | – | none | – |

`PROJECT.json` "components" gives the status of each, and "hazards" the
places, by line, where each can go wrong in a way a test would hardly reach.

## 2. The modules

**`SyncCursor`** – the bookmark as a record with the operators of its class
(`Start`, `WithBatch`, `Completed`, `Reopened`, `ResumeFrom`,
`ReachesBackTo`). 0 stands for `None` in both identifiers and horizon.

**`HistorySync`** – what a synchronisation does to store and bookmark. The tables
`messages` and `cursors` survive everything; `mode`, `pc` and what follows them
are a command's local variables, and `Stop` (a crash, an interrupt, a failed
fetch, the end of the stream) forgets them between any two transactions. An
action is the code between two awaits that matter:

| action | code |
|---|---|
| `BeginBackfill`, `Reopen`, `CompleteBackfill`, `CommitBatch` | `SyncHistory.execute`, `_load_cursor`, `_commit_batch`, `_complete` |
| `StartLive`, `BeginLive`, `NextChat`, `CommitCatchUp` | `SyncLive.execute`, `_catch_up`, `_catch_up_chat` |
| `Take`, `StoreUpdate`, `FailUpdate` | `SyncLive._drain`, `_follow`, `_store` |
| `Fetch`, `Publish` | `fetch_history` (any nonempty gap-free page up to the batch size), `_announce` |
| `Stop`, `Restart` | the end of a run; the supervisor running it again on the same connection |
| `Arrive`, `Redeliver`, `SetPolicy` | Telegram; the stream repeating itself; `SetChatPolicy` |

`missed` is an account, read by no guard: for each message that a run passed
over, why. Four reasons are decisions the code states (chat switched off, item
refused, page limit, no catch-up asked); two are not (`torn`, `unfilled`), and
section 6 is about those.

**`MessageArchive`** – the abstract specification: per chat a growing set and the
range a bookmark claims; storing and claiming are one step. `HistorySync`
implements it with `stored <- messages` and the claimed interval as `range`.

**`TdjsonClient`** – the receive thread, one action per call the loop can observe
(`ThreadChecks`, `ThreadReceives`, `Put`, `ThreadEnds`, `GiveUp`, `ThreadFails`),
and the loop, one action per stretch without an await (`Request`, `Timeout`,
`RunCallback`, `Close`, `CloseReturns`, the steps of `receive()`). `hand` is the
frame the thread is handing over to a full queue, `callbacks` what it scheduled
on the loop, `got` the item a finished getter holds before `receive()` resumes.

**`Gateway`** – session, dispatch loop and consumer over a client that behaves as
the previous module shows: frames in order, then the end. TDLib answers a
request (`reply`) and reports its effect (`pipe`) on separate ways, so either
can come first. `session` walks through `connect`, `start_authorization`,
`logout`, `disconnect`; `Interrupt` is an exception or cancellation in any of
their waits; every failure leads to `disconnect`, as `connect`'s `except
BaseException` and the container's `finally` do.

**`Supervisor`** – `start()` may take a task at any time until `stop()` (`StartSome`,
`StartAnother`), which only schedules it; `_run` per task (`Begin`, `Return`, `Raise`, `Wake`,
`Cancelled`); a factory that is cancelled may end as cancelled, raise something else, or swallow it
and return. `run_live_sync` is the caller (`Poll`, `Interrupt`). `stop()` marks and cancels in one
step (`StopAll`) and then awaits one task after another (`Await`, with `left` for those to come),
so tasks go on failing, waking and returning between two of its awaits.

**`UnitOfWork`** – units on the loop, jobs in a FIFO for one thread, one
connection, one lock. `Cancel` can hit every await: a job that has not begun
is dropped, one that has begun runs on with nobody waiting. `conn` records whose
transaction is open, `"auto"` when a statement began one by itself.

**`Conversations`** – one chat's messages and the conversations derived from them. A
pass reads and then writes. `Plan` is what it makes of its reads: `Divide` cuts the
messages of its `Window`, placing one after the other (`Place`), and `Reconcile` lets
each piece take the stored row it owns most of (`Claimant`). `Table` is the table after so many of
its writes, `GoesThrough` says that none of them breaks the unique index or misses its
row, and `Written` is what they come to: what no piece took is deleted last. The two are separate steps because the lock of a unit of
work keeps out units of its own process only, and the SQLite driver begins the
database's transaction with the first write: a rebuild in a process of its own can
write between the reads and the writes of a pass. `Segment`, `Segmented` and
`SegmentFails` are the handler as the bus invokes and counts it, `Rebuild`,
`Rebuilds` and `RebuildFails` the command. `behind` and `raced` are accounts, read
by no guard: something was stored or configured that no pass has taken in; a pass
wrote over what another had changed since it read. A pass whose read was cut short
(`cut`) counts as behind, and so does the table after it.

**`Reviews`** – what a model proposes for one chat and a person decides. Each command is a
process with a local record (`command`), since `memory extract`, `memory accept`,
`suggest` and the others are separate invocations: `Extract`, `Suggest`, `Ask`,
`Answer` / `Misshapen` / `Unanswered`, `StoreFacts` / `StoreDraft` are one transaction or
one call each; `Review` is the read and `Accept` / `Decide` the write of a decision, apart
for the reason given under `Conversations`. The indexes and foreign keys the code relies on
are operators (`Insertable`, `Remembered`, `Cascaded`). Two comparisons of values are
constants, because they differ: the unique index compares values exactly, an extraction
by `_comparable`, and the memories' index by `MemoryKey.of`. A row of `ai_calls` is a
count; `declined` is a proposal's `rejected` and a suggestion's `dismissed`. `overlapped`, and
`stale` in a command, are accounts read by no guard: an extraction stored what it made of a list
of proposals that another had added to meanwhile.

**`Sessions`** – an account's record, key and store as the commands `login`, `logout`,
`prepare` and imports use them. Each command is a process (`job`), one action per
transaction, per call to the credential store and per call to Telegram; `Fail`
ends it at any of them, which is a failed call or a kill. TDLib's directory has
one client (`holder`). `dropped`, `overlapped` and `raced` are accounts read by no guard.

**`Directory`** – contact and chat rows, as imports and the operator's commands change
them. A command reads in a transaction that begins with its first write, so
`ReadPerson`, `ReadChat` are apart from `WritePerson`, `WriteChat`; a write puts
back the row that was read, whole, and meets the unique indexes (`Conflicts`).

**`Schema`** – the stamp and the objects of each revision. A migration is a statement
at a time, each durable when it has run, and then the stamp; `torn` names the
revisions one was broken off in.

**`Accounts`** – accounts, the one that is active, and profiles; each command looks,
and then writes under the indexes. `latest` and `crossed` are accounts read by no guard:
what each preference was last set to, and whose was set on a stale reading.

Six modules of calculations have no state. Each defines what the code computes and,
under "promises", what that must come to, said another way; an MC module states as
an assumption that both agree on every input of a small domain, and TLC evaluates it
before the run named here:

| module | code | assumption, and what it promises |
|---|---|---|
| `Frames` | `mapping.py`, `Message`, `Chat` and `Contact`, the three ways a message is stored | `WhatArrivesIsKept` (`history_sync`): a message is read whatever it holds; page, stream and catch-up keep the same of a list of frames, short of the pages that fail; which chats and people cannot be kept |
| `TdlibLoading` | `loader.py`, `binary.py`, `dependencies.py`, `manifest.py`, the doctor's checks | `LoadingIsVetted` (`tdjson_client`): what is opened was verified, is of this platform, finds its imports and is new enough; nothing falls through to a worse file; the doctor agrees with a load |
| `Listing` | `pagination.py`, the listings, `sync_status.py` | `ListingIsExact` (`conversations`): a walk over a table that changes between pages has every row that stayed, once, in order; a listing shows what was asked for; the status adds up |
| `Configuration` | `config/loader.py`, `settings.py`, `secret_store.py`, the constructions of the container, doctor | `ConfigurationIsTheOneAskedFor` (`sessions`): the highest layer wins, production stays quiet, what loads can be built but for four settings, secrets come back |
| `PromptContext` | `memory_selection.py`, `context_assembly.py`, `suggestion.py` | `PromptHoldsTheBest` (`reviews`): the best memories and the latest messages that fit are what is sent, and an answer is attributed to what was sent |
| `AiBoundary` | `ai.py`, the providers, `registry.py`, `structured_output.py`, the sifting of proposals | `CallsAreKeptInBounds` (`reviews`): prompts render whole, what is sent is on record but for four ends, one repair, proposals are what the schema and the transcript allow |

`MC*` modules hold what TLC needs: message instants (with a tie for
`HistorySync`, at different distances for `Conversations`), horizons, comparisons and the
domains of those assumptions. `MCSessions` composes `Sessions`, `Schema`, `Accounts` and `Supervisor`:
they share no state, so that a behaviour is one of a single module and a state space is the
sum and not the product of theirs.

## 3. The runs

| run | instance | what it shows |
|---|---|---|
| `history_sync` | 1 chat, 4 messages (two share an instant), 2 horizons, batches of 2, ≤ 2 batches per run, 2 catch-up pages, 1 redelivered update waiting | four invariants of the bookmark and the refinement of the archive |
| `history_sync_fair` | 1 chat, 3 messages | backfill completes; updates settle |
| `tdjson_client` | 1 request, 3 updates, queue of 2 | the stream is exact, waiters are released, the end comes last, and both and every update arrive |
| `unit_of_work` | 3 units of 2 rows, 2 cancellations | isolation, atomicity, the lock, termination |
| `gateway` | queue of 2, 3 messages, 3 login steps, 1 retry | stream, login, timeouts, shutdown |
| `sessions` | 2 processes and 5 commands on a session; 2 releases, 2 revisions of 2 statements and 4 runs; 2 terminals, 2 accounts, 2 preferences and 5 commands; 2 tasks and 2 restarts | keys, ready and destroyed sessions; what the stamp says; one operated account and its preferences; four properties of restart and stop |
| `directory` | 2 processes, 1 person, the operator, 2 names, 2 events | well-formed rows, the operator's decisions, names settle |
| `conversations` | 4 messages at instants 1, 2, 4, 5, gaps of 1 and 2, conversations of 2, 3 messages to a read, batches of 2, a handler removed at its first failure, 2 restarts, a rebuild beside the assistant | windows agree with a rebuild, conversations stay disjoint, identities stay with their messages |
| `reviews` | 2 commands, 2 conversations, one fact in 2 spellings, 1 suggestion, 3 calls | an accepted fact has its memory, the first decision counts, a fact is offered once |
| `supervisor_restart`, `migration_torn`, `conversations_merge` | as above, or smaller | one documented promise each that the code breaks (section 6) |

Bounds, and why they are enough. Four messages in pages of two give a range, a
gap above it, a gap inside it and something below it at once; the tie puts a
horizon beside two messages of one instant. Two catch-up pages make the limit
reachable within four messages. One request is enough for the pending table: its
entries do not interact, and the proofs cover any number. Three updates fill the
queue of two and leave one in the thread's hand. Three units let a
second one start between a cancelled unit and a bystander; two cancellations let
a rollback be cancelled after the body was. Four messages with silences of one
and two units give an extension, a split, a merge, full conversations of two with one
left over and a read that is cut short, within 420 000 states of two overlapping passes; two restarts let
a rebuild outlive two changes of the gap. No two of them share an instant, see section 6.
Two commands at two conversations in two spellings let an extraction overlap another
extraction, a decision, a merge and a decision on the same fact from the other
conversation (the memories' index refuses that); three calls are an attempt,
its repair and one more. Two processes are what an interleaving of whole commands
needs: each of the modules with processes has steps that look and steps that write, and
every property is about what one wrote between another's look and its write; the
proofs of `Sessions`, `Accounts` and `Schema` take any number. Five session commands
are a preparation, two logins, a logout and a look at what is left. Two statements to
a revision give a first, a last and a place between them to be killed in. In
`directory` one person can have a contact, a private chat under their own identifier
and one under the operator's, which is all that the indexes compare; two names let
one be stale. `MaxSteps` is 3 where the code has
20, so that a login can run into it. `MaxMsg`, `MaxFrames`, `MaxMessages`,
`MaxQueue`, `MaxCancels`,
`MaxRetries`, `MaxRestarts`, `MaxCalls`, `MaxCommands`, `MaxRuns`, `MaxUses` and `MaxEvents`
cap what the environment may do; none limits the code.

`CHECK_DEADLOCK FALSE` is given where the system stops by design: a stopped
supervisor, a closed client, a disconnected gateway, a database that nobody asks anything of (`Reviews` and `sessions` once
their calls and commands are spent). `UnitOfWork` says so with an
action of its own (`Rest`), so a real deadlock there would be reported.

Every property has a mutant in `PROJECT.json`: a definition changed the way a
plausible bug would change the code, under which the same run fails.

## 4. Fairness

- `HistorySync`: strong fairness of each step of a command, since a command's
  coroutine goes on after any interruption of the whole, `max_restarts` bounds
  how often a failure can intervene, and of the operator's running the backfill
  again. Not of any environment action. `BackfillCompletes` is conditional on the
  chat being found switched on and idle again and again; `FairNext` leaves out
  resets and changes of horizon, which can undo progress for ever.
- `TdjsonClient`: weak fairness of thread, callbacks and close, which nothing
  blocks for good; strong fairness of the consumer's steps, because a consumer
  that is cancelled again and again is called again and again. None of
  `Timeout`, which the caller chooses, and none of TDLib's answers.
- `Supervisor`: weak fairness of a scheduled task's beginning, of waking, of the delivery of a
  cancellation and of each await of `stop()`, which are the event loop's. A factory need not ever
  return unless it is cancelled; one that swallows its cancellation and then goes on for ever
  would keep `stop()` waiting, and the one factory the container gives does not.
- `UnitOfWork`: weak fairness of the database thread (every job ends) and of each
  unit (timers included).
- `Directory`: weak fairness of a command's steps (a command that is not killed ends, and
  kills are among the bounded events); strong fairness of the beginning of each import,
  because the operator goes on running `sync` and waits when both processes are busy.
  None of renames or of the operator's other commands.
- `Gateway`: weak fairness of the dispatch task and of the end of `disconnect`.
  None of TDLib, the operator or the consumer.

## 5. What is proved

For every value of the constants under their named assumptions (no bound on
chats, messages, batches, requests, tasks or restarts):

| theorem | states |
|---|---|
| `HistorySyncProofs!TypeCorrect`, `BookmarksNameStored` | `TypeOK`, `CursorNamesStored` |
| `HistorySyncProofs!RangesAreStored`, `NothingIsLeftBehind`, `CompleteMeansReached` | `RangeIsStored`, `NothingOutsideStream`, `CompleteReachesHorizon` |
| `HistorySyncProofs!Implements` | `Spec => Archive!Spec` |
| `TdjsonClientProofs!ClientTypeCorrect`, `TableIsExact`, `CloseReleases`, `EndIsTheEnd`, `StreamStaysExact` | `TypeOK`, `PendingIsWaiting`, `ClosedReleasesWaiters`, `EndComesLast`, `StreamIsExact` |
| `GatewayProofs!GatewayTypeCorrect`, `StreamStaysWhole`, `AskedOnlyOnce`, `TimeoutsMissNothing` | `TypeOK`, `StreamIsWhole`, `AcceptedOnce`, `TimeoutMeansSilence` |
| `ReviewsProofs!ReviewsTypeCorrect`, `AcceptanceIsMemory`, `OneDecision`, `OneOffer` | `TypeOK`, `AcceptedIsRemembered`, `DecidedOnce`, `OfferedOnce` |
| `DirectoryProofs!DirectoryStaysWellFormed`, `ImportsDecideNothing` | `WellFormed`, `OperatorDecides` |
| `UnitOfWorkProofs!AlwaysIsolated`, `AlwaysAllOrNothing`, `LockAlwaysGoesWithTheUnit` | `Isolated`, `AllOrNothing`, `LockGoesWithTheUnit` |
| `ShellProofs!KeysAreAlwaysKept`, `ReadyIsAlwaysTheOwners`, `DestroyedIsAlwaysOver` (Sessions) | `KeysAreKept`, `ReadyIsTheOwners`, `DestroyedIsOver` |
| `ShellProofs!AlwaysOneOperated`, `PreferencesAlwaysStay` (Accounts) | `OneIsOperated`, `PreferencesStay` |
| `ConversationsProofs!WindowsAgreeWithRebuild`, `ConversationsKeepIdentity` | `AgreesWithRebuild`, `IdentityIsKept`, where no instant can be divided (`Undivided`) |
| `ConversationsProofs!SegmentsAreEpisodes` | what `Divide` gives is what `Extents` describes |
| `ShellProofs!SchemaInvariant`, `StampIsAlwaysTrue` (Schema) | `SchemaTypeOK`, `StampIsTrue` |
| `ShellProofs!SupervisorTypeCorrect`, `StopEndsEverything`, `EndsAreExplained`, `NothingStartsAgain` (Supervisor) | all its safety properties |

*HistorySync.* `CursorNamesStored` is not inductive: a backfill saves the bookmark
it holds across its awaits, so one must know that the copy it holds still names
stored rows. The invariant `Bookkeeping` adds that
while a backfill runs the row equals the held copy (`HeldIsCurrent`: no other
command writes it) and which steps belong to which command (`Control`). The
refinement follows: every step that stores rows also saves `WithBatch` of the
current bookmark over the same rows, whose claimed interval is the span of the
old one and the batch (`BatchGrows`); every other step keeps it (`SameClaim`) or
gives it up (a reset).

That a range is stored rests on the whole course of a run. A page says more than what
is on it: it ends just below where it was asked from, and what is above a catch-up's
first page is in the stream (`Fetched`). So a catch-up has, from the page it reached
upwards, everything stored, waiting in the stream, or passed over on record
(`CatchingUp`), and a chat that is caught up has so above its range (`Followed`). An
update raises the range only over what came before it, which needs that the stream
holds the messages that are not stored yet in their order (`InOrder`) and none of them
below the range (`Above`). `Reach` is the conjunction of these with what each command
finds in the variables of the run (`Course`); `RangesHold` adds the two invariants.

*TdjsonClient.* `EndComesLast` needs to know where the thread was when
it announced the end (`Announced`), `ClosedReleasesWaiters` that no request can
start between the release of the waiters and the end of `close()` (`Closing`);
`Client` is their conjunction with the typing and the exact pending table.
`StreamIsExact` is proved from where every update is (`Kept`): consumer, getter, queue,
thread and inbox hold increasing numbers, each place older ones than the next (`Rows`),
and the only number that is nowhere was in the hand of a thread that had been told to
stop and has nothing left to do but end.

*Gateway.* Authorization goes forward only: with the steps ranked, what is in the pipe
is later than the view, in order, and ends where TDLib is (`Reports`), which gives
`TimeoutMeansSilence`. What the session remembers of its request is not later than the
view (`Asked`), so that it can only wait for something later, which gives `AcceptedOnce`. The
consumer has the first messages, the queue the next and the client the rest
(`Placed`); that holds until `disconnect()`, and the mark of the end is put only when the client
has nothing left (`Flowing`).

*Reviews.* `AcceptedIsRemembered` says nothing of memories without a trail, and an
acceptance adds to a set, so one must know that no memory of the same proposal is there
already: `Rows` has that a proposal is there only while its conversation is, that a memory loses its
trail only with its conversation, and the two indexes. `Updated` is the lemma
for the three actions that rewrite memories. `OfferedOnce` rests on `SeenIsCurrent`: unless
it is stale, an extraction has seen all there is for its conversation, and what
it keeps is new to that. Nothing is assumed of the two comparisons of values.

*Directory.* A command works on rows it read a transaction earlier. Rows are never
removed and a chat stays what it is, so what was read is still there and differs only
in what others may change (`Remembered`); with what a command's arguments are at each
of its steps (`Ordered`), the rows it writes are well formed, and an import carries the
operator's part of a row over unchanged.

*UnitOfWork.* What a cancelled unit left behind may still run while the next unit
waits, so the invariant is about the queue: one job at most runs that nobody waits for,
and behind it only a release or a rollback of the unit with the lock (`QueueFits`);
one unit has the lock and every unit at work is that one (`LockFits`); an open
transaction holds what its unit wrote (`ConnectionFits`), and the disk all of it or
nothing (`DiskFits`). That the lock goes with the unit, cancelled or not, needs whose an
open transaction can be: the lock holder's, once it has begun, or that of a unit whose rollback
was cancelled or refused (`OpenFits`). A `begin()` that runs on for a unit cut off in it
is harmless to this because that unit still has the lock (`StrandedFits`).

*Conversations.* Divisions and plans are folds over sequences, and properties of them are
shown by induction in the form the provers can follow: a number for which one failed
would have a least one (`Least`, `Upwards`). A division lists its messages in order, in
pieces that end where a gap or the limit does (`Segments`); a message's place in its
episode is its place in its piece plus a multiple of the limit (`RankedWithin`,
`RankedFirst`), which makes the pieces the episodes cut at every multiple. A window begins with
a segment, so what lies before it and what it is divided into are a division of everything
(`WindowSplits`). If what is stored is what a division gives, each piece finds the row it
is equal to or takes one it shares messages with, and no two take the same (`PlanMade`,
`ExactPlan`); writing that gives a division again (`FreshAgrees`, `FreshDisjoint`,
`FreshIdentity`).

The invariant `IInv` has to say what `AgreesWithRebuild` leaves open while an event is
on its way. There is a set of messages that were stored before the batch it announces
(`Announced`), and unless something was lost the rows are a rebuild of those, or of all
where a rebuild has overtaken the event. A pass that nobody overtook holds what its
read makes of the rows as they are: one of the assistant has read all messages of its
window (`AssistantReads`), a rebuild perhaps fewer than there are by now
(`RebuildReads`). The last is why counts are needed: a rebuild that read before the batch
was stored and writes after it is not overtaken only if no row counts a message it did
not read, and rows that count no others are made of what it read (`AllCounted`).

`Undivided` is a hypothesis and not an assumption of the module: the limit is no less than the
messages there are, or no two of them share an instant. A limit that cuts between
two messages of one instant gives conversations that overlap (section 6), and then
`AgreesWithRebuild` is false. With the default limit of 200 that takes two hundred
messages without a silence of the gap, and two of one second on the cut. `MCConversations` has it
checked for its instance.

*Sessions* (this and the next three in `ShellProofs`, as they share no state). A store
exists only under a record, and a command goes past its first steps only where there is one (`RecordFirst`); so a preparation that does not overlap
another stores its key where there is neither (`Prepared`), and a key that was read stays
the key (`KeyIsRead`). Who is signed in can only change under the command that has
the directory (`Exclusive`), or to nobody, which gives `Recorded` and `Cleared`. The
theorems need no bound on commands, and so the invariant has its own types.

*Accounts.* A switch goes to an account that exists and an account is inserted
inactive only beside an active one (`HeldIsFit`); the indexes do the rest.

*Schema.* A migration's goal lies ahead of it (`Ahead`). `StampIsTrue` is about revisions that
several releases migrate at once. Each process that has run a revision's statements
will move the stamp; they ran up and down in turn, so the stamp, with those who still
have to move it counted up and down (`Balance`), says what is there, and one process at
most is between two statements (`Settled`).

*Supervisor.* `Supervised` ties `running` to where a task is (`Marked`) and the
stop flags and cancellations to the caller (`Told`). A mark can outlive its task, where a task
that had not begun is cancelled, and be missing from one that lives, in a backoff; so
`StoppedMeansEnded` rests on `left`: while `stop()` awaits, a task it has behind it
has ended and is unmarked, every other task it took is still in `left`, and nothing that was not
taken before can be. That no step undoes this is `StartsKeep` for the two starts and one step
per action of a task.

The assumptions are the modules' own, and TLC evaluates them: bounds are natural
numbers and what stands for "nothing" is none of the values (`RowsAssumption` of
`Directory`, `ProfilesAssumption` of `Accounts`), there are finitely many processes
(`ShellsAssumption` of `Schema`, which the counting needs), and instants do not fall
from one message to the next (`HistorySync`).

Only model-checked:

- everything temporal under fairness, since the prover has no ENABLED: the backfill
  completing, updates settling, waiters released, shutdowns ending, names settling;
- the six modules of calculations, evaluated on their domains.

## 6. What the code does that its documentation does not say

With a run that shows it:

1. `RidesOutFailures` – the caller's poll every 0.05 s finds nothing running while
   the supervisor sleeps its backoff of 0.5 s and stops it
   (`container.py:705`): the first recoverable failure ends a live run.
2. `RebuildGoesThrough` – rows are written one by one under a unique start, and what
   nothing claims is deleted last (`conversation.py:259`, `266`). A merge in which a
   later conversation owns the plurality moves its row onto the start of one that
   is still there, so the pass fails, and fails again whenever it is tried: raising
   the gap and running `conversation rebuild`, as its help advises, is enough.
3. `FailureRollsBack` – a CREATE or DROP that SQLite has run outside a transaction stays, and
   nothing opens one for it (`env.py:64`). A migration that fails or is killed behind its first
   statement leaves that behind, unstamped, and every later start runs the revision from its beginning and fails on
   it, against `docs/DATABASE.md:1045` ("A failure rolls back completely"), the docstring of
   `upgrade` and contract 3 of `ports/migration_runner.py`. `StampIsTrue` excepts such revisions (`torn`).

Seen while modelling, with no run of their own, though a property often excepts them
by name:

*Synchronisation and conversations*

- A catch-up commits its newest page first, which raises the bookmark's newest at
  once. Interrupted before it meets the old range, it leaves a hole that no later
  run looks into (`live.py:266`), against `docs/DECISIONS.md:5285`; `RangeIsStored` has it as `torn`.
- One message that cannot be read (a bad date or identifier) makes a whole page of history
  fail (`gateway.py:577`), and one with a blank text is read and then refused
  (`message.py:176`), which fails its batch: a backfill or catch-up meets it again each time and
  never gets past it. The live stream only drops it (`gateway.py:711`).
- A pass reads at most 10 000 messages (`messages.py:153`) but compares them with
  every stored conversation of its window, and deletes those past the last message
  read: on `conversation rebuild`, and on a backfilled page older than everything
  segmented so far (`conversation.py:191`).
- Two passes of two processes that overlap can leave conversations that overlap,
  against `domain/model/conversation.py:39`, "do not overlap, so the range *is* the membership";
  `AgreesWithRebuild` excepts them (`raced`), and the next rebuild mends them.
- A full conversation can end between two messages of one instant; the next one
  then overlaps it, or shares its start and breaks the index. ADR-056 says "a
  boundary requires a gap", which `max_messages` does not.
- A chat completed with nothing to store stays complete when an update begins
  its range, and nothing fetches what came between (`live.py:246`,
  `sync_cursor.py:100`); the models have it (`Unfilled`), the invariants count it
  as a reason.

*Client, gateway, unit of work, events*

- The client's end, or TDLib's closing, before the parameters are accepted makes
  `connect()` return normally (`gateway.py:325`, against its docstring at 294).
- A unit cancelled inside `begin()` keeps the transaction lock (`unit_of_work.py:164`
  catches `Exception` only); every later unit fails after 30 s, naming an open unit
  that does not exist. `LockGoesWithTheUnit` holds for every unit but one in that state (`stranded`).
- `FAILED`, "recorded" by the thread (`client.py:111`), is overwritten by `start()`
  returning or by `close()` (`client.py:263`, `287`).
- A reply that arrives after its request timed out is delivered as an update
  (`client.py:368` against `491`).
- A `receive()` cancelled after its getter took an item drops it (`client.py:425`),
  which `client.py:408` does not say; `StreamIsExact` accounts for it as `lost`.
- `max_restarts` is documented as consecutive failures (`supervisor.py:57`, `120`) and never
  reset.
- `dropped_updates` cannot become positive: `disconnect()` cancels the dispatch
  loop in the same step that sets `_closing` (`gateway.py:340`).
- The end of the update stream is lost on a full queue (`gateway.py:655`), though
  `updates()` promises to yield "until disconnected" (`gateway.py:602`).
- Events added to a unit of work have no reader: `collect_and_publish` is called
  nowhere. A cancellation between commit and announcement leaves durable facts
  unannounced.

*Memories, suggestions and calls*

- Two extractions that overlap can store one fact in two spellings: the
  unique index (`schema.py:862`) compares exact values, the filter that was meant to be
  backed by it (`memory.py:66`, "a duplicate proposal, which the unique index
  refuses") compares `_comparable` ones. `OfferedOnce` excepts overlaps.
- "A fact the user has already declined is not offered again" (`memory.py:53`) ends with the
  conversation: when a merge deletes it, its rejected proposals are deleted with it
  (`schema.py:814`), and an extraction of the conversation it went into offers them anew.
- Any constraint is taken for the unique index when proposals are stored
  (`memory.py:481`): a conversation deleted during the AI call makes every proposal fail its foreign
  key, and the run reports them as duplicates.
- A suggestion is stored for the active account (`suggestion.py:401`), whichever account
  the caller named: the insert is refused and the paid draft lost when they differ.
- Retrieval counts a memory as used before assembly, which may trim it away
  (`CountedIsSent` says when it cannot).
- A connection that drops mid-answer escapes the transport raw, so the call that was
  sent is not recorded (against `transport.py:78`, and "a record is written whatever happens",
  `ai.py:119`); so is none for an answer that names a model of spaces or too long a name,
  for a priced model in a currency of no letters, and for a task without a name. The four
  are the exceptions of `WhatIsSentIsRecorded`.
- The record names the configured model, though `anthropic.py:192` says "recorded under the name
  it answered as".
- A confidence that is `NaN`, or evidence of spaces, passes the schema and aborts the whole
  paid extraction instead of being repaired (`memory.py:613`); a fact of
  punctuation only can be proposed but never accepted.
- A prompt whose `version:` is present and empty loads as version "None" (`registry.py:226`). The
  shipped fake's answer is not JSON, so `extract` and `suggest` with it always end in a
  schema violation after two calls.

*Sessions, accounts, chats and people*

- The first `tgassist login` of an account never succeeds: the command reads the settings
  of a session that only its own later step would prepare (`container.py:1249`;
  `docs/API.md:1050`). The model lets another command prepare it.
- After a logout the record is there and its key is gone, so a login is refused, though
  `container.py:1268` says "Sign out and sign in again".
- A sign-in as another person is refused after TDLib's store is signed in as them
  (`authenticate.py:12`), and stays so.
- An import writes back the row it read (`sync.py:595`): a deletion or a policy change of another
  process in between is undone (`PutsBack` in `OperatorDecides`); two preferences set at
  once undo one of them (`crossed` in `PreferencesStay`).
- An import whose private chat conflicts rolls back the rename of its person too.
- A person whose first and last name are both 64 signs long has a display name of 129 and is
  refused (`contact.py:204`); a first name of spaces hides the handle and is refused; a
  secret chat is read as a private one with the same person and conflicts with it.

*Schema, lists, loading, configuration*

- The status report reads several transactions, against "One transaction"
  (`sync_status.py:121`); a chat completed with nothing stored reads "pending" and counts as fully
  stored. `memory proposals` lists every proposal and not those "awaiting a decision"; the
  advice to raise `--limit` ends at 500.
- On Linux a library found by name has no path that exists, so it is never used; an import
  table that lies in no section reads as no imports.
- An empty section in a later file drops the values of the earlier ones, and `origins` still
  credits them; `TGASSIST_PROFILE=""` is an error where `TGASSIST_CONFIG_DIR=""` is ignored. Four
  legal settings cannot be built from (`WhatLoadsIsBuilt`). `ai.timeout_seconds`,
  `ai.max_output_tokens`, `telegram.update_queue_size` and `logging.retention_days` change nothing.
- The chain of secret stores is always available, so `security.require_secret_store` never
  refuses and the doctor always passes (`DoctorSpeaksForStart`), against SECURITY.md §7.

## 7. Not modelled

- `HistorySync`: edits and deletions (the code ignores those
  updates), reading back; pages are readable (`Frames` has what happens when one is not).
  Two commands with a connection at once: TDLib's lock excludes them.
- `TdjsonClient`: `send`-only requests, wall-clock time; a second `start()` is
  refused by the code.
- `Gateway`: connection states, the reads behind `_require_authorized`, flood
  waits, a second `connect()`.
- `Sessions`: what an import reads of whom, the application id and hash, the library.
- `UnitOfWork`: savepoints (only tests use them), closing the database under open units,
  the health check, a body that catches a failed statement and goes on. A rollback may raise
  (`RollbackFails`): taken to have ended the transaction where SQLite reports the error, and to
  have left it open where the executor is closed and refuses it.
- Event bus: nested publishes and their depth (the one handler there is does not
  publish), failures of two deliveries at once.
- `Conversations`: other chats (passes of two chats share nothing), deleting a
  message, statistics; a change of the configuration while a process runs.
- `Reviews`: what a draft or a fact says; facts about several people; the events announced after
  a commit.
- `Directory`: handles and the AI mode, which behave like names and the switch; two people.
- `Schema`: what is in the tables; the two revisions that rebuild one are statements
  like others; backups, for which no hook is registered.
- `Supervisor`: how long a backoff lasts; a poll may fall into it or miss it. A second
  cancellation that reaches the caller within `stop()`: asyncio hands it on to the
  task that is awaited, which has been cancelled before.
- Log handlers and redaction, field mapping, argument parsing and printing: formatting
  without a decision a property could be about. Byte formats of library headers and
  cursors: told apart by what is read in them.

## 8. Plan

What is left, in order of what the program can lose by being wrong:

1. *Frames in HistorySync* – pages that cannot be read, so that the backfill which never
   gets past one is a behaviour of that module and not of a calculation.
2. *FrameStream* – the abstract stream that `TdjsonClient` implements and `Gateway`
   uses, to replace the words of section 2 by a refinement.
3. *Conversations* with messages that share an instant; *Reviews* against a write-once
   decision.
4. *Event bus* – failure counts of deliveries that overlap, unsubscription while one iterates.
5. The closing of the database in *UnitOfWork*.

Every safety property that a run checks is a theorem now. The six modules of
calculations have no specification to prove a theorem of; laws of single operators of
theirs could be stated as lemmas.
