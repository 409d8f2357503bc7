---------------------------- MODULE TdjsonClient ----------------------------
(***************************************************************************)
(* infrastructure/telegram/client.py: the seam between TDLib's receive     *)
(* thread and the event loop.  The thread reads frames, resolves requests  *)
(* and fills a bounded queue; the loop sends, waits, times out, consumes   *)
(* and closes.  The two share the state under a lock, the pending table    *)
(* without one, and the loop's callback list.                              *)
(*                                                                         *)
(* Between two awaits the loop is one action; the thread is one action per *)
(* call that the other side can observe.  start() holds the loop, and the  *)
(* thread it starts can run, and die, before it returns.                   *)
(***************************************************************************)
EXTENDS Integers, Sequences, FiniteSets, Functions

CONSTANTS
    Requests,       \* the requests the application makes
    MaxFrames,      \* bound on the updates TDLib emits
    Capacity        \* queue_capacity

ASSUME CapacityAssumption == Capacity \in Nat \ {0} /\ MaxFrames \in Nat

VARIABLES
    state,          \* ClientState
    starting,       \* start() has begun the thread and not yet returned
    thread,         \* the receive thread
    hand,           \* the frame the thread is handing over, as a sequence
    stopping,       \* the event the thread polls
    failed,         \* _failure is recorded
    closing,        \* where close() is
    inbox,          \* frames TDLib holds for td_receive
    emitted,        \* how many updates TDLib has emitted
    owed,           \* requests TDLib has not answered
    queue,          \* updates waiting for the consumer
    callbacks,      \* what the thread has scheduled on the loop
    ended,          \* the end-of-stream event
    pending,        \* the _pending table
    status,         \* where each request is
    receiver,       \* where the consumer is in receive()
    got,            \* the item a finished getter holds, as a sequence
    delivered,      \* what receive() has returned
    lost            \* accounting only: what a cancelled receive() dropped

consumer == <<receiver, got, delivered, lost>>
tdlib == <<inbox, emitted, owed>>
asking == <<pending, status>>
life == <<state, starting, failed, closing, stopping>>
vars == <<life, thread, hand, tdlib, queue, callbacks, ended, asking, consumer>>

Update(n) == [kind |-> "update", of |-> n]
Malformed == [kind |-> "malformed", of |-> 0]
Reply(r) == [kind |-> "reply", of |-> r]

Frames == {Update(n) : n \in 1..MaxFrames} \cup {Reply(r) : r \in Requests}
Callbacks == {[kind |-> "resolve", of |-> r] : r \in Requests}
                 \cup {[kind |-> "ended", of |-> 0]}
Ended == [kind |-> "ended", of |-> 0]

LifeOK ==
    /\ state \in {"stopped", "starting", "running", "stopping", "failed"}
    /\ starting \in BOOLEAN /\ stopping \in BOOLEAN /\ failed \in BOOLEAN
    /\ closing \in {"no", "joining", "done"}
    /\ thread \in {"none", "checking", "receiving", "handing", "dying", "ended"}
    /\ (thread = "handing" <=> hand # <<>>)
    /\ callbacks \in Seq(Callbacks)
    /\ ended \in BOOLEAN

AskingOK ==
    /\ owed \in SUBSET Requests
    /\ pending \in SUBSET Requests
    /\ status \in [Requests -> {"unsent", "waiting", "answered", "refused", "timed out"}]

FlowOK ==
    /\ hand \in Seq(Frames) /\ Len(hand) <= 1
    /\ inbox \in Seq(Frames \cup {Malformed})
    /\ emitted \in 0..MaxFrames
    /\ queue \in Seq(Frames) /\ Len(queue) <= Capacity
    /\ receiver \in {"idle", "waiting", "got", "ended"}
    /\ got \in Seq(Frames) /\ (receiver = "got" <=> got # <<>>)
    /\ delivered \in Seq(Frames)
    /\ lost \in SUBSET (1..MaxFrames)

TypeOK == LifeOK /\ AskingOK /\ FlowOK

Init ==
    /\ state = "stopped" /\ starting = FALSE /\ failed = FALSE
    /\ closing = "no" /\ stopping = FALSE
    /\ thread = "none" /\ hand = <<>>
    /\ inbox = <<>> /\ emitted = 0 /\ owed = {}
    /\ queue = <<>> /\ callbacks = <<>> /\ ended = FALSE
    /\ pending = {} /\ status = [r \in Requests |-> "unsent"]
    /\ receiver = "idle" /\ got = <<>> /\ delivered = <<>> /\ lost = {}

\* The loop runs nothing else while start() is in progress.
LoopFree == ~starting /\ thread # "none"

-----------------------------------------------------------------------------
(***************************************************************************)
(* TDLib.                                                                  *)
(***************************************************************************)
Emit ==
    /\ emitted < MaxFrames
    /\ emitted' = emitted + 1
    /\ \/ inbox' = Append(inbox, Update(emitted + 1))
       \/ inbox' = inbox \o <<Malformed, Update(emitted + 1)>>
    /\ UNCHANGED <<life, thread, hand, owed, queue, callbacks, ended, asking, consumer>>

Answer(r) ==
    /\ r \in owed
    /\ owed' = owed \ {r}
    /\ inbox' = Append(inbox, Reply(r))
    /\ UNCHANGED <<life, thread, hand, emitted, queue, callbacks, ended, asking, consumer>>

-----------------------------------------------------------------------------
(***************************************************************************)
(* Lifecycle.  _release_waiters sets the end event and fails every request *)
(* in the table.                                                           *)
(***************************************************************************)
Waiting == {r \in Requests : status[r] = "waiting"}

\* Mutant: what is in the table is left there.
KeepWaiters == ended' = TRUE /\ UNCHANGED asking

ReleaseWaiters ==
    /\ ended' = TRUE
    /\ pending' = {}
    /\ status' = [r \in Requests |-> IF r \in pending THEN "refused" ELSE status[r]]

StartThread ==
    /\ state = "stopped" /\ thread = "none"
    /\ state' = "starting" /\ starting' = TRUE
    /\ thread' = "checking"
    /\ UNCHANGED <<failed, closing, stopping, hand, tdlib, queue, callbacks, ended,
                   asking, consumer>>

StartReturns ==
    /\ starting
    /\ state' = "running" /\ starting' = FALSE
    /\ UNCHANGED <<failed, closing, stopping, thread, hand, tdlib, queue, callbacks,
                   ended, asking, consumer>>

ThreadAlive == thread \notin {"none", "ended"}

Close ==
    /\ LoopFree /\ closing # "joining"
    /\ IF state \in {"stopped", "failed"} /\ ~ThreadAlive
       THEN /\ closing' = "done"
            /\ ReleaseWaiters
            /\ UNCHANGED <<state, stopping>>
       ELSE /\ closing' = "joining"
            /\ state' = "stopping" /\ stopping' = TRUE
            /\ UNCHANGED <<ended, asking>>
    /\ UNCHANGED <<starting, failed, thread, hand, tdlib, queue, callbacks, consumer>>

\* thread.join returned: the thread stopped, or shutdown_timeout passed.
CloseReturns ==
    /\ closing = "joining"
    /\ closing' = "done"
    /\ ReleaseWaiters
    /\ state' = IF state = "failed" THEN "failed" ELSE "stopped"
    /\ UNCHANGED <<starting, failed, stopping, thread, hand, tdlib, queue, callbacks,
                   consumer>>

-----------------------------------------------------------------------------
(***************************************************************************)
(* Requests.                                                               *)
(***************************************************************************)
Request(r) ==
    /\ LoopFree /\ state = "running"
    /\ status[r] = "unsent"
    /\ status' = [status EXCEPT ![r] = "waiting"]
    /\ pending' = pending \cup {r}
    /\ owed' = owed \cup {r}
    /\ UNCHANGED <<life, thread, hand, inbox, emitted, queue, callbacks, ended, consumer>>

Forget(r) == pending' = pending \ {r}

Timeout(r) ==
    /\ LoopFree
    /\ status[r] = "waiting"
    /\ status' = [status EXCEPT ![r] = "timed out"]
    /\ Forget(r)
    /\ UNCHANGED <<life, thread, hand, tdlib, queue, callbacks, ended, consumer>>

-----------------------------------------------------------------------------
(***************************************************************************)
(* The receive thread.                                                     *)
(***************************************************************************)
\* The stop is noticed between two reads only.
ThreadChecks ==
    /\ thread = "checking" /\ ~stopping
    /\ thread' = "receiving"
    /\ UNCHANGED <<life, hand, tdlib, queue, callbacks, ended, asking, consumer>>

ReceiveTimesOut ==
    /\ thread = "receiving" /\ inbox = <<>>
    /\ thread' = "checking"
    /\ UNCHANGED <<life, hand, tdlib, queue, callbacks, ended, asking, consumer>>

\* Reads one frame.  A malformed one is counted and dropped; a reply in the
\* table is scheduled on the loop; anything else is handed to the queue.
ThreadReceives ==
    LET frame == Head(inbox) IN
    /\ thread = "receiving"
    /\ inbox # <<>>
    /\ inbox' = Tail(inbox)
    /\ \/ /\ frame.kind = "malformed"
          /\ thread' = "checking"
          /\ UNCHANGED <<hand, callbacks>>
       \/ /\ frame.kind = "reply" /\ frame.of \in pending
          /\ thread' = "checking"
          /\ callbacks' = Append(callbacks, [kind |-> "resolve", of |-> frame.of])
          /\ UNCHANGED hand
       \/ /\ frame.kind = "update" \/ (frame.kind = "reply" /\ frame.of \notin pending)
          /\ thread' = "handing" /\ hand' = <<frame>>
          /\ UNCHANGED callbacks
    /\ UNCHANGED <<life, emitted, owed, queue, ended, asking, consumer>>

\* td_receive raises: the state is set, then the end is signalled.
ThreadFails ==
    /\ thread = "receiving"
    /\ thread' = "dying"
    /\ state' = "failed" /\ failed' = TRUE
    /\ UNCHANGED <<starting, closing, stopping, hand, tdlib, queue, callbacks, ended,
                   asking, consumer>>

ThreadEnds ==
    /\ thread = "dying" \/ (thread = "checking" /\ stopping)
    /\ thread' = "ended"
    /\ callbacks' = Append(callbacks, Ended)
    /\ UNCHANGED <<life, hand, tdlib, queue, ended, asking, consumer>>

\* Mutant: a full queue keeps its size by dropping its oldest frame.
DropOldest ==
    queue' = (IF Len(queue) < Capacity THEN queue ELSE Tail(queue)) \o hand

\* Mutant: the queue is last in, first out.
PutOnTop == Len(queue) < Capacity /\ queue' = hand \o queue

\* asyncio.Queue.put waits for room.
PutAtEnd == Len(queue) < Capacity /\ queue' = queue \o hand

\* The put the thread waits for runs on the loop, when there is room.
Put ==
    /\ LoopFree
    /\ thread = "handing"
    /\ PutAtEnd
    /\ thread' = "checking" /\ hand' = <<>>
    /\ UNCHANGED <<life, tdlib, callbacks, ended, asking, consumer>>

\* The thread notices the stop while it waits for room, and cancels the put.
GiveUp ==
    /\ thread = "handing" /\ stopping
    /\ thread' = "checking" /\ hand' = <<>>
    /\ UNCHANGED <<life, tdlib, queue, callbacks, ended, asking, consumer>>

-----------------------------------------------------------------------------
(***************************************************************************)
(* The loop runs what the thread scheduled, in order.                      *)
(***************************************************************************)
\* Mutant: the event is set and the requests are left to their timeouts.
OnlyEnded == ended' = TRUE /\ UNCHANGED asking

OnEnded ==
    IF failed THEN ReleaseWaiters ELSE ended' = TRUE /\ UNCHANGED asking

RunCallback ==
    LET call == Head(callbacks) IN
    /\ LoopFree
    /\ callbacks # <<>>
    /\ callbacks' = Tail(callbacks)
    /\ \/ /\ call.kind = "ended"
          /\ OnEnded
       \/ /\ call.kind = "resolve"
          /\ pending' = pending \ {call.of}
          /\ status' = IF call.of \in pending
                       THEN [status EXCEPT ![call.of] = "answered"] ELSE status
          /\ UNCHANGED ended
    /\ UNCHANGED <<life, thread, hand, tdlib, queue, consumer>>

-----------------------------------------------------------------------------
(***************************************************************************)
(* The consumer: one call of receive() after another, until it is told the *)
(* stream has ended.                                                       *)
(***************************************************************************)
\* Mutants: the end is looked at before the queue; is never looked at.
EndFirst == ended
NoEnd == FALSE

\* Nothing is left in the queue and the end has been signalled.
AtEnd == ended /\ queue = <<>>

Deliver(frame) == delivered' = Append(delivered, frame)

ReceiveNow ==
    /\ LoopFree /\ receiver = "idle" /\ queue # <<>>
    /\ ~AtEnd
    /\ Deliver(Head(queue))
    /\ queue' = Tail(queue)
    /\ UNCHANGED <<life, thread, hand, tdlib, callbacks, ended, asking, receiver, got, lost>>

ReceiveEnds ==
    /\ LoopFree /\ receiver = "idle"
    /\ AtEnd
    /\ receiver' = "ended"
    /\ UNCHANGED <<life, thread, hand, tdlib, queue, callbacks, ended, asking, got,
                   delivered, lost>>

ReceiveWaits ==
    /\ LoopFree /\ receiver = "idle" /\ queue = <<>> /\ ~ended
    /\ receiver' = "waiting"
    /\ UNCHANGED <<life, thread, hand, tdlib, queue, callbacks, ended, asking, got,
                   delivered, lost>>

\* The getter's task finishes; receive() itself has not resumed yet.
GetterTakes ==
    /\ LoopFree /\ receiver = "waiting" /\ queue # <<>>
    /\ receiver' = "got" /\ got' = <<Head(queue)>>
    /\ queue' = Tail(queue)
    /\ UNCHANGED <<life, thread, hand, tdlib, callbacks, ended, asking, delivered, lost>>

ReceiveReturns ==
    /\ LoopFree /\ receiver = "got"
    /\ Deliver(got[1])
    /\ receiver' = "idle" /\ got' = <<>>
    /\ UNCHANGED <<life, thread, hand, tdlib, queue, callbacks, ended, asking, lost>>

\* The end event fires first: the getter is cancelled and the loop goes round.
FinisherFires ==
    /\ LoopFree /\ receiver = "waiting" /\ ended
    /\ receiver' = "idle"
    /\ UNCHANGED <<life, thread, hand, tdlib, queue, callbacks, ended, asking, got,
                   delivered, lost>>

\* Cancelling a getter that has finished does nothing, and its item is gone.
CancelReceive ==
    /\ LoopFree /\ receiver \in {"waiting", "got"}
    /\ lost' = lost \cup {f.of : f \in {g \in Range(got) : g.kind = "update"}}
    /\ receiver' = "idle" /\ got' = <<>>
    /\ UNCHANGED <<life, thread, hand, tdlib, queue, callbacks, ended, asking, delivered>>

-----------------------------------------------------------------------------
Receive ==
    \/ ReceiveNow \/ ReceiveEnds \/ ReceiveWaits
    \/ GetterTakes \/ ReceiveReturns \/ FinisherFires

Thread == ThreadChecks \/ ReceiveTimesOut \/ ThreadReceives \/ ThreadEnds \/ GiveUp

Next ==
    \/ Emit \/ (\E r \in Requests : Answer(r) \/ Request(r) \/ Timeout(r))
    \/ StartThread \/ StartReturns \/ Close \/ CloseReturns
    \/ Thread \/ ThreadFails \/ Put \/ RunCallback
    \/ Receive \/ CancelReceive

Spec == Init /\ [][Next]_vars

(***************************************************************************)
(* The thread and the loop keep running, the consumer keeps calling, and   *)
(* cancelling it does not starve it.  Nothing obliges a request to time    *)
(* out: the caller chooses that.                                           *)
(***************************************************************************)
FairSpec ==
    /\ Spec
    /\ WF_vars(StartReturns) /\ WF_vars(CloseReturns)
    /\ WF_vars(Thread) /\ WF_vars(Put) /\ WF_vars(RunCallback)
    /\ SF_vars(ReceiveNow \/ ReceiveReturns) /\ SF_vars(ReceiveEnds)
    /\ SF_vars(ReceiveWaits \/ GetterTakes \/ FinisherFires)

-----------------------------------------------------------------------------
(***************************************************************************)
(* Properties.                                                             *)
(***************************************************************************)
\* The numbers of the updates among frames, and whether they come in order.
Numbers(frames) == {f.of : f \in {g \in Range(frames) : g.kind = "update"}}

InOrder(frames) ==
    \A i, j \in DOMAIN frames :
        i < j /\ frames[i].kind = "update" /\ frames[j].kind = "update" =>
            frames[i].of < frames[j].of

\* Everything on its way from TDLib to the consumer, oldest first.
Stream == delivered \o got \o queue \o hand \o inbox

\* The updates that were emitted and are nowhere.
Missing == (1..emitted) \ (Numbers(Stream) \cup lost)

\* The table holds exactly the requests somebody waits for: no entry outlives
\* its request, whatever order reply, timeout, failure and close come in.
PendingIsWaiting == pending = Waiting

\* Updates reach the consumer in the order TDLib emitted them, across the
\* inbox, the thread's hand, the queue and a cancelled or finished getter, and
\* none is lost by backpressure, failure or the end of the stream: only the one
\* in the thread's hand when it is told to stop, and those a cancelled
\* receive() held.
StreamIsExact ==
    /\ InOrder(Stream)
    /\ Cardinality(Missing) <= IF stopping THEN 1 ELSE 0

\* Once close() has returned no request waits and the end is announced, even
\* when the thread did not stop in time.
ClosedReleasesWaiters == closing = "done" => Waiting = {} /\ ended

\* A consumer told that a stream that failed has ended has had all of it.
EndComesLast ==
    receiver = "ended" /\ ~stopping => queue = <<>> /\ hand = <<>>

\* A consumer of a client whose thread has ended is told so, behind whatever is
\* queued: the signal is an event, so a full queue cannot hide it.
ConsumerIsReleased == thread = "ended" ~> receiver = "ended"

\* A request that waits when the thread dies is released by the failure itself,
\* without waiting for its own timeout.
FailureReleasesWaiters ==
    \A r \in Requests : (status[r] = "waiting" /\ thread = "dying") ~> status[r] # "waiting"

\* An update TDLib emitted reaches the consumer however small the queue is,
\* unless the client is closed, fails, or the consumer gives the item up.
UpdatesArrive ==
    \A n \in 1..MaxFrames : emitted >= n ~>
        (n \in Numbers(delivered) \cup lost
            \/ stopping \/ failed \/ thread = "none")
=============================================================================
