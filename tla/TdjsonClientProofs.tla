------------------------- MODULE TdjsonClientProofs -------------------------
(***************************************************************************)
(* Theorems of TdjsonClient, for any requests, any number of updates and   *)
(* any queue capacity.                                                     *)
(***************************************************************************)
EXTENDS TdjsonClient, TLAPS, SequenceTheorems, FiniteSetTheorems

-----------------------------------------------------------------------------
(***************************************************************************)
(* Types.                                                                  *)
(***************************************************************************)
Raw == Frames \cup {Malformed}

\* What a frame read from TDLib can be, by its kind.
LEMMA FrameTypes ==
    /\ \A n \in 1..MaxFrames : Update(n) \in Frames
    /\ \A r \in Requests : Reply(r) \in Frames
    /\ \A f \in Raw : f.kind # "malformed" => f \in Frames
    /\ \A f \in Frames : f.kind = "reply" => f.of \in Requests
    /\ \A f \in Frames : f.kind = "update" => f.of \in 1..MaxFrames
<1>1. /\ \A n \in 1..MaxFrames : Update(n) \in Frames
      /\ \A r \in Requests : Reply(r) \in Frames
  BY DEF Frames
<1>2. \A f \in Raw : f.kind # "malformed" => f \in Frames
  BY DEF Malformed, Raw
<1>3. ASSUME NEW f \in Frames
      PROVE  /\ f.kind = "reply" => f.of \in Requests
             /\ f.kind = "update" => f.of \in 1..MaxFrames
  <2>1. CASE \E n \in 1..MaxFrames : f = Update(n)
    BY <2>1 DEF Update
  <2>2. CASE \E r \in Requests : f = Reply(r)
    BY <2>2 DEF Reply
  <2> QED BY <2>1, <2>2 DEF Frames
<1> QED BY <1>1, <1>2, <1>3

LEMMA Types0 == Init => TypeOK
<1> SUFFICES ASSUME Init PROVE TypeOK
  OBVIOUS
<1>1. LifeOK
  <2>1. /\ starting = FALSE /\ stopping = FALSE /\ failed = FALSE /\ ended = FALSE
        /\ state = "stopped" /\ closing = "no" /\ thread = "none" /\ hand = <<>>
        /\ callbacks = <<>>
    BY DEF Init
  <2>2. callbacks \in Seq(Callbacks)
    BY <2>1
  <2> QED BY <2>1, <2>2 DEF LifeOK
<1>3. AskingOK
  BY DEF Init, AskingOK
<1>2. FlowOK
  <2>1. 0 \in 0..MaxFrames /\ 0 <= Capacity
    BY CapacityAssumption
  <2>2. Len(<<>>) = 0
    OBVIOUS
  <2> QED BY <2>1, <2>2 DEF Init, FlowOK
<1> QED BY <1>1, <1>2, <1>3 DEF TypeOK

\* Emit and Answer: the inbox takes frames, and the updates are numbered.
LEMMA FlowOfTdlib ==
    ASSUME FlowOK, AskingOK, Emit \/ \E r \in Requests : Answer(r)
    PROVE  FlowOK'
<1>0. /\ inbox \in Seq(Raw) /\ emitted \in 0..MaxFrames
  BY DEF FlowOK, Raw
<1>1. ASSUME inbox' \in Seq(Raw), emitted' \in 0..MaxFrames, UNCHANGED <<hand, queue, consumer>>
      PROVE  FlowOK'
  BY <1>1 DEF FlowOK, Raw, consumer
<1>2. ASSUME Emit PROVE FlowOK'
  <2>1. emitted + 1 \in 1..MaxFrames /\ emitted' = emitted + 1
    BY <1>0, <1>2, CapacityAssumption DEF Emit
  <2>2. Update(emitted + 1) \in Raw /\ Malformed \in Raw
    BY <2>1, FrameTypes DEF Raw
  <2> DEFINE u == Update(emitted + 1)
  <2>3. inbox' = Append(inbox, u) \/ inbox' = inbox \o <<Malformed, u>>
    BY <1>2 DEF Emit
  <2> HIDE DEF u
  <2>4. u \in Raw /\ <<Malformed, u>> \in Seq(Raw)
    BY <2>2 DEF u
  <2>5. inbox' \in Seq(Raw)
    <3>1. Append(inbox, u) \in Seq(Raw)
      BY <1>0, <2>4, AppendProperties
    <3>2. inbox \o <<Malformed, u>> \in Seq(Raw)
      BY <1>0, <2>4, ConcatProperties
    <3> QED BY <2>3, <3>1, <3>2
  <2>6. UNCHANGED <<hand, queue, consumer>>
    BY <1>2 DEF Emit, consumer
  <2>7. emitted' \in 0..MaxFrames
    BY <2>1, CapacityAssumption
  <2> QED BY <1>1, <2>5, <2>6, <2>7
<1>3. ASSUME NEW r \in Requests, Answer(r) PROVE FlowOK'
  <2>1. Reply(r) \in Raw
    BY FrameTypes DEF Raw
  <2>2. inbox' \in Seq(Raw)
    BY <1>0, <1>3, <2>1 DEF Answer
  <2>3. UNCHANGED <<emitted, hand, queue, consumer>>
    BY <1>3 DEF Answer, consumer
  <2> QED BY <1>0, <1>1, <2>2, <2>3
<1> QED BY <1>2, <1>3


\* The consumer's steps: items move from the queue to the getter and on.
LEMMA FlowOfConsumer ==
    ASSUME FlowOK, Receive \/ CancelReceive
    PROVE  FlowOK'
<1>0. /\ queue \in Seq(Frames) /\ got \in Seq(Frames) /\ delivered \in Seq(Frames)
      /\ Len(queue) <= Capacity /\ lost \in SUBSET (1..MaxFrames)
      /\ receiver \in {"idle", "waiting", "got", "ended"} /\ (receiver = "got" <=> got # <<>>)
  BY DEF FlowOK
<1>1. ASSUME UNCHANGED <<hand, tdlib>>,
             queue' \in Seq(Frames), Len(queue') <= Capacity,
             receiver' \in {"idle", "waiting", "got", "ended"},
             got' \in Seq(Frames), receiver' = "got" <=> got' # <<>>,
             delivered' \in Seq(Frames), lost' \in SUBSET (1..MaxFrames)
      PROVE  FlowOK'
  BY <1>1 DEF FlowOK, tdlib
<1>2. ASSUME queue # <<>>
      PROVE  /\ Head(queue) \in Frames /\ Tail(queue) \in Seq(Frames)
             /\ Len(Tail(queue)) <= Capacity
  BY <1>0, <1>2, CapacityAssumption, HeadTailProperties
<1>3. ASSUME NEW f \in Frames PROVE Append(delivered, f) \in Seq(Frames)
  BY <1>0, AppendProperties
<1>4. CASE ReceiveNow
  <2>1. /\ queue # <<>> /\ delivered' = Append(delivered, Head(queue)) /\ queue' = Tail(queue)
        /\ UNCHANGED <<hand, tdlib, receiver, got, lost>>
    BY <1>4 DEF ReceiveNow, Deliver
  <2>2. delivered' \in Seq(Frames)
    BY <1>2, <1>3, <2>1
  <2> QED BY <1>0, <1>1, <1>2, <2>1, <2>2
<1>5. CASE ReceiveEnds \/ ReceiveWaits \/ FinisherFires
  BY <1>0, <1>1, <1>5 DEF ReceiveEnds, ReceiveWaits, FinisherFires
<1>6. CASE GetterTakes
  <2>1. /\ queue # <<>> /\ receiver' = "got" /\ got' = <<Head(queue)>>
        /\ queue' = Tail(queue) /\ UNCHANGED <<hand, tdlib, delivered, lost>>
    BY <1>6 DEF GetterTakes
  <2>2. got' \in Seq(Frames) /\ got' # <<>>
    BY <1>2, <2>1
  <2> QED BY <1>0, <1>1, <1>2, <2>1, <2>2
<1>7. CASE ReceiveReturns
  <2>1. /\ receiver = "got" /\ delivered' = Append(delivered, got[1])
        /\ receiver' = "idle" /\ got' = <<>> /\ UNCHANGED <<hand, tdlib, queue, lost>>
    BY <1>7 DEF ReceiveReturns, Deliver
  <2>2. got[1] \in Frames
    BY <1>0, <2>1, EmptySeq, HeadTailProperties
  <2>3. delivered' \in Seq(Frames)
    BY <1>3, <2>1, <2>2
  <2> QED BY <1>0, <1>1, <2>1, <2>3
<1>8. CASE CancelReceive
  <2>1. /\ lost' = lost \cup {f.of : f \in {g \in Range(got) : g.kind = "update"}}
        /\ receiver' = "idle" /\ got' = <<>>
        /\ UNCHANGED <<hand, tdlib, queue, delivered>>
    BY <1>8 DEF CancelReceive
  <2>2. \A g \in Range(got) : g \in Frames
    BY <1>0 DEF Range
  <2>3. lost' \in SUBSET (1..MaxFrames)
    BY <1>0, <2>1, <2>2, FrameTypes
  <2> QED BY <1>0, <1>1, <2>1, <2>3
<1> QED BY <1>4, <1>5, <1>6, <1>7, <1>8 DEF Receive

\* The thread's steps and the put: a frame goes from the inbox to the queue.
LEMMA FlowOfThread ==
    ASSUME FlowOK, LifeOK, Thread \/ Put
    PROVE  FlowOK'
<1>0. /\ queue \in Seq(Frames) /\ Len(queue) <= Capacity
      /\ hand \in Seq(Frames) /\ Len(hand) <= 1 /\ inbox \in Seq(Raw)
  BY DEF FlowOK, Raw
<1>1. ASSUME UNCHANGED <<emitted, consumer>>,
             queue' \in Seq(Frames), Len(queue') <= Capacity,
             hand' \in Seq(Frames), Len(hand') <= 1, inbox' \in Seq(Raw)
      PROVE  FlowOK'
  BY <1>1 DEF FlowOK, consumer, Raw
<1>2. CASE ThreadChecks \/ ReceiveTimesOut \/ ThreadEnds
  BY <1>0, <1>1, <1>2 DEF ThreadChecks, ReceiveTimesOut, ThreadEnds, tdlib
<1>3. CASE ThreadReceives
  <2> DEFINE frame == Head(inbox)
  <2>1. /\ inbox # <<>> /\ inbox' = Tail(inbox) /\ UNCHANGED <<emitted, queue, consumer>>
        /\ UNCHANGED hand \/ (hand' = <<frame>> /\ frame.kind # "malformed")
    BY <1>3 DEF ThreadReceives
  <2>2. frame \in Raw /\ inbox' \in Seq(Raw)
    BY <1>0, <2>1, HeadTailProperties
  <2>3. frame.kind # "malformed" => frame \in Frames
    BY <2>2, FrameTypes
  <2> HIDE DEF frame
  <2>4. hand' \in Seq(Frames) /\ Len(hand') <= 1
    <3>1. CASE UNCHANGED hand
      BY <1>0, <3>1
    <3>2. CASE hand' = <<frame>> /\ frame \in Frames
      BY <3>2
    <3> QED BY <2>1, <2>3, <3>1, <3>2
  <2> QED BY <1>0, <1>1, <2>1, <2>2, <2>4
<1>4. CASE GiveUp
  <2>1. hand' = <<>> /\ UNCHANGED <<inbox, emitted, queue, consumer>>
    BY <1>4 DEF GiveUp, tdlib
  <2> QED BY <1>0, <1>1, <2>1
<1>5. CASE Put
  <2>1. /\ hand' = <<>> /\ UNCHANGED <<inbox, emitted, consumer>>
        /\ queue' = queue \o hand /\ Len(queue) < Capacity
    BY <1>5 DEF Put, PutAtEnd, tdlib
  <2>2. queue' \in Seq(Frames) /\ Len(queue') = Len(queue) + Len(hand)
    BY <1>0, <2>1, ConcatProperties
  <2>3. Len(queue) \in Nat /\ Len(hand) \in Nat
    BY <1>0, LenProperties
  <2>4. Len(queue') <= Capacity
    BY <1>0, <2>1, <2>2, <2>3, CapacityAssumption
  <2> QED BY <1>0, <1>1, <2>1, <2>2, <2>4
<1> QED BY <1>2, <1>3, <1>4, <1>5 DEF Thread


LEMMA FlowStep ==
    ASSUME TypeOK, [Next]_vars
    PROVE  FlowOK'
<1> USE DEF TypeOK
<1>1. CASE Emit \/ \E r \in Requests : Answer(r)
  BY <1>1, FlowOfTdlib
<1>2. CASE Receive \/ CancelReceive
  BY <1>2, FlowOfConsumer
<1>3. CASE Thread \/ Put
  BY <1>3, FlowOfThread
<1>4. ASSUME UNCHANGED <<hand, tdlib, queue, consumer>> PROVE FlowOK'
  BY <1>4 DEF FlowOK, tdlib, consumer
<1>5. ASSUME NEW r \in Requests, Request(r) \/ Timeout(r) PROVE FlowOK'
  <2>1. UNCHANGED <<hand, inbox, emitted, queue, consumer>>
    BY <1>5 DEF Request, Timeout, tdlib
  <2> QED BY <2>1 DEF FlowOK, consumer
<1>6. CASE StartThread \/ StartReturns \/ Close \/ CloseReturns \/ ThreadFails \/ RunCallback
  BY <1>4, <1>6 DEF StartThread, StartReturns, Close, CloseReturns, ThreadFails, RunCallback
<1>7. CASE UNCHANGED vars
  BY <1>4, <1>7 DEF vars
<1> QED BY <1>1, <1>2, <1>3, <1>5, <1>6, <1>7 DEF Next

\* Releasing the waiters keeps the table and the requests in step, and leaves
\* nobody waiting.
LEMMA ReleaseKeepsTable ==
    ASSUME AskingOK, PendingIsWaiting, ReleaseWaiters
    PROVE  /\ pending' \in SUBSET Requests
           /\ status' \in [Requests -> {"unsent", "waiting", "answered", "refused", "timed out"}]
           /\ ended' = TRUE
           /\ PendingIsWaiting' /\ Waiting' = {}
<1>1. \A r \in Requests : status'[r] # "waiting"
  BY DEF AskingOK, PendingIsWaiting, Waiting, ReleaseWaiters
<1> QED BY <1>1 DEF AskingOK, PendingIsWaiting, Waiting, ReleaseWaiters

\* The table and the requests, over any step.
LEMMA AskingStep ==
    ASSUME AskingOK, PendingIsWaiting, [Next]_vars
    PROVE  AskingOK' /\ PendingIsWaiting'
<1>1. ASSUME UNCHANGED <<owed, asking>> PROVE AskingOK' /\ PendingIsWaiting'
  BY <1>1 DEF AskingOK, PendingIsWaiting, Waiting, asking
<1>2. ASSUME ReleaseWaiters, UNCHANGED owed PROVE AskingOK' /\ PendingIsWaiting'
  BY <1>2, ReleaseKeepsTable DEF AskingOK
<1>3. CASE Emit \/ StartThread \/ StartReturns \/ ThreadFails \/ Put
  BY <1>1, <1>3 DEF Emit, StartThread, StartReturns, ThreadFails, Put, tdlib
<1>4. CASE Thread
  BY <1>1, <1>4 DEF Thread, ThreadChecks, ReceiveTimesOut, ThreadReceives, ThreadEnds,
                    GiveUp, tdlib
<1>5. CASE Receive \/ CancelReceive
  BY <1>1, <1>5 DEF Receive, ReceiveNow, ReceiveEnds, ReceiveWaits, GetterTakes,
                    ReceiveReturns, FinisherFires, CancelReceive, tdlib
<1>6. ASSUME NEW r \in Requests, Answer(r) PROVE AskingOK' /\ PendingIsWaiting'
  BY <1>6 DEF Answer, AskingOK, PendingIsWaiting, Waiting, asking
<1>7. ASSUME NEW r \in Requests, Request(r) PROVE AskingOK' /\ PendingIsWaiting'
  BY <1>7 DEF Request, AskingOK, PendingIsWaiting, Waiting
<1>8. ASSUME NEW r \in Requests, Timeout(r) PROVE AskingOK' /\ PendingIsWaiting'
  BY <1>8 DEF Timeout, Forget, AskingOK, PendingIsWaiting, Waiting, tdlib
<1>9. CASE Close \/ CloseReturns
  BY <1>1, <1>2, <1>9 DEF Close, CloseReturns, tdlib
<1>10. CASE RunCallback
  <2> DEFINE call == Head(callbacks)
  <2>1. /\ UNCHANGED owed
        /\ \/ OnEnded
           \/ /\ pending' = pending \ {call.of}
              /\ status' = IF call.of \in pending
                           THEN [status EXCEPT ![call.of] = "answered"] ELSE status
    BY <1>10 DEF RunCallback, tdlib
  <2>2. CASE OnEnded
    BY <1>1, <1>2, <2>1, <2>2 DEF OnEnded
  <2>3. CASE ~OnEnded
    <3> HIDE DEF call
    <3> QED BY <2>1, <2>3, ZenonT(40) DEF AskingOK, PendingIsWaiting, Waiting
  <2> QED BY <2>2, <2>3
<1>11. CASE UNCHANGED vars
  BY <1>1, <1>11 DEF vars, tdlib
<1> QED BY <1>3, <1>4, <1>5, <1>6, <1>7, <1>8, <1>9, <1>10, <1>11 DEF Next

-----------------------------------------------------------------------------
(***************************************************************************)
(* The life of the client.                                                 *)
(***************************************************************************)
\* A client that is closing, or closed, is not on its way to running.
Closing ==
    /\ closing # "no" => thread # "none" /\ ~starting
    /\ closing = "joining" => stopping /\ state \in {"stopping", "failed"}
    /\ closing = "done" => state \in {"stopped", "failed"}

\* Unless close() announced it, the end is announced by a thread that has ended.
Announced ==
    /\ \A i \in DOMAIN callbacks : callbacks[i].kind = "ended" => thread = "ended"
    /\ ended /\ ~stopping => thread = "ended"
    /\ receiver = "ended" => ended

Client ==
    /\ TypeOK /\ PendingIsWaiting
    /\ Closing /\ ClosedReleasesWaiters
    /\ Announced /\ EndComesLast

\* What only the life of the client and the frames in hand depend on.
Life == LifeOK /\ Closing /\ Announced /\ EndComesLast

\* A step that leaves the life of the client alone, but for the thread.
LEMMA Undisturbed ==
    ASSUME Life, UNCHANGED <<life, callbacks, ended, receiver>>,
           thread' \in {"none", "checking", "receiving", "handing", "dying", "ended"},
           thread' = "handing" <=> hand' # <<>>,
           thread = "ended" => thread' = "ended" /\ queue' = queue /\ hand' = hand,
           thread' = "none" => thread = "none"
    PROVE  Life'
<1>1. LifeOK' /\ Closing'
  BY DEF Life, LifeOK, Closing, life
<1>2. Announced'
  BY DEF Life, Announced, life
<1>3. EndComesLast'
  BY DEF Life, EndComesLast, Announced, life
<1> QED BY <1>1, <1>2, <1>3 DEF Life

LEMMA LifeOfThread ==
    ASSUME Life, AskingOK, Thread \/ ThreadFails \/ Put
    PROVE  Life'
<1>0. /\ callbacks \in Seq(Callbacks)
      /\ thread = "handing" <=> hand # <<>>
      /\ thread \in {"none", "checking", "receiving", "handing", "dying", "ended"}
  BY DEF Life, LifeOK
<1>1. CASE ThreadChecks \/ ReceiveTimesOut \/ GiveUp \/ Put
  <2>1. /\ UNCHANGED <<life, callbacks, ended, receiver>>
        /\ thread # "ended"
        /\ \/ thread # "handing" /\ thread' \in {"checking", "receiving"} /\ UNCHANGED hand
           \/ thread' = "checking" /\ hand' = <<>>
    BY <1>1 DEF ThreadChecks, ReceiveTimesOut, GiveUp, Put, consumer
  <2> QED BY <1>0, <2>1, Undisturbed
<1>2. \A c \in Callbacks : /\ Append(callbacks, c) \in Seq(Callbacks)
                           /\ DOMAIN Append(callbacks, c) = 1..(Len(callbacks) + 1)
                           /\ Append(callbacks, c)[Len(callbacks) + 1] = c
                           /\ \A i \in 1..Len(callbacks) : Append(callbacks, c)[i] = callbacks[i]
  BY <1>0, AppendProperties
<1>3. CASE ThreadReceives
  <2> DEFINE frame == Head(inbox)
             resolve == [kind |-> "resolve", of |-> frame.of]
  <2>1. /\ thread = "receiving" /\ UNCHANGED <<life, ended, queue, receiver>>
        /\ \/ thread' = "checking" /\ UNCHANGED <<hand, callbacks>>
           \/ /\ thread' = "checking" /\ UNCHANGED hand
              /\ callbacks' = Append(callbacks, resolve) /\ frame.of \in pending
           \/ thread' = "handing" /\ hand' = <<frame>> /\ UNCHANGED callbacks
    BY <1>3 DEF ThreadReceives, consumer
  <2>4. /\ UNCHANGED <<life, ended, queue, receiver>> /\ thread = "receiving"
        /\ thread' \in {"checking", "handing"} /\ (thread' = "handing" <=> hand' # <<>>)
    <3>1. CASE thread' = "checking" /\ UNCHANGED hand
      BY <1>0, <2>1, <3>1
    <3>2. CASE thread' = "handing" /\ hand' = <<frame>>
      <4> HIDE DEF frame
      <4>1. hand' # <<>>
        BY <3>2
      <4> QED BY <2>1, <3>2, <4>1
    <3> QED BY <2>1, <3>1, <3>2
  <2>2. CASE UNCHANGED callbacks
    BY <1>0, <2>2, <2>4, Undisturbed
  <2>3. CASE callbacks' = Append(callbacks, resolve) /\ frame.of \in pending
    <3>1. resolve \in Callbacks /\ resolve.kind = "resolve"
      BY <2>3 DEF Callbacks, AskingOK
    <3> HIDE DEF resolve
    <3>2. callbacks' \in Seq(Callbacks)
      BY <1>2, <2>3, <3>1
    <3>4. LifeOK' /\ Closing'
      BY <3>2, <2>4 DEF Life, LifeOK, Closing, life
    <3>5. Announced'
      BY <1>0, <1>2, <2>3, <3>1, <2>4 DEF Life, Announced, life
    <3>6. EndComesLast'
      BY <2>4 DEF Life, Announced, EndComesLast, life
    <3> QED BY <3>4, <3>5, <3>6 DEF Life
  <2> QED BY <2>1, <2>2, <2>3
<1>4. CASE ThreadEnds
  <2>1. /\ thread \in {"dying", "checking"} /\ thread' = "ended"
        /\ UNCHANGED <<life, hand, queue, ended, receiver>>
        /\ callbacks' = Append(callbacks, Ended)
    BY <1>4 DEF ThreadEnds, consumer
  <2>2. callbacks' \in Seq(Callbacks)
    BY <1>2, <2>1 DEF Callbacks, Ended
  <2>3. LifeOK' /\ Closing'
    BY <1>0, <2>1, <2>2 DEF Life, LifeOK, Closing, life
  <2>4. Announced' /\ EndComesLast'
    BY <2>1 DEF Life, Announced, EndComesLast, life
  <2> QED BY <2>3, <2>4 DEF Life
<1>5. CASE ThreadFails
  <2>1. /\ thread = "receiving" /\ thread' = "dying" /\ state' = "failed" /\ failed' = TRUE
        /\ UNCHANGED <<starting, closing, stopping, hand, queue, callbacks, ended, receiver>>
    BY <1>5 DEF ThreadFails, consumer
  <2>2. LifeOK' /\ Closing'
    BY <1>0, <2>1 DEF Life, LifeOK, Closing
  <2>3. Announced' /\ EndComesLast'
    BY <2>1 DEF Life, Announced, EndComesLast, Closing
  <2> QED BY <2>2, <2>3 DEF Life
<1> QED BY <1>1, <1>3, <1>4, <1>5 DEF Thread

\* The loop's steps: start, close, what the thread scheduled, the consumer.
LEMMA LifeOfLoop ==
    ASSUME Life, AskingOK, PendingIsWaiting,
           \/ StartThread \/ StartReturns \/ Close \/ CloseReturns \/ RunCallback
           \/ Receive \/ CancelReceive
    PROVE  Life'
<1>0. /\ callbacks \in Seq(Callbacks)
      /\ thread = "handing" <=> hand # <<>>
      /\ thread \in {"none", "checking", "receiving", "handing", "dying", "ended"}
  BY DEF Life, LifeOK
<1>1. CASE StartThread
  <2>1. /\ state = "stopped" /\ thread = "none" /\ thread' = "checking" /\ state' = "starting"
        /\ starting' = TRUE
        /\ UNCHANGED <<failed, closing, stopping, hand, queue, callbacks, ended, receiver>>
    BY <1>1 DEF StartThread, consumer
  <2>2. LifeOK' /\ Closing'
    BY <1>0, <2>1 DEF Life, LifeOK, Closing
  <2>3. Announced' /\ EndComesLast'
    BY <2>1 DEF Life, Announced, EndComesLast, Closing
  <2> QED BY <2>2, <2>3 DEF Life
<1>2. CASE StartReturns
  <2>1. /\ starting /\ state' = "running" /\ starting' = FALSE
        /\ UNCHANGED <<failed, closing, stopping, thread, hand, queue, callbacks, ended, receiver>>
    BY <1>2 DEF StartReturns, consumer
  <2>2. LifeOK' /\ Closing'
    BY <1>0, <2>1 DEF Life, LifeOK, Closing
  <2>3. Announced' /\ EndComesLast'
    BY <2>1 DEF Life, Announced, EndComesLast, Closing
  <2> QED BY <2>2, <2>3 DEF Life
<1>3. CASE Close
  <2>1. LoopFree /\ UNCHANGED <<starting, failed, thread, hand, queue, callbacks, receiver>>
    BY <1>3 DEF Close, consumer
  <2>2. CASE state \in {"stopped", "failed"} /\ ~ThreadAlive
    <3>1. /\ closing' = "done" /\ ended' = TRUE /\ UNCHANGED <<state, stopping>>
      BY <1>3, <2>2 DEF Close, ReleaseWaiters
    <3>2. thread = "ended" /\ ~starting
      BY <1>0, <2>1, <2>2 DEF LoopFree, ThreadAlive
    <3>3. LifeOK' /\ Closing'
      BY <2>1, <2>2, <3>1, <3>2 DEF Life, LifeOK, Closing
    <3>4. Announced' /\ EndComesLast'
      BY <2>1, <3>1, <3>2 DEF Life, Announced, EndComesLast
    <3> QED BY <3>3, <3>4 DEF Life
  <2>3. CASE ~(state \in {"stopped", "failed"} /\ ~ThreadAlive)
    <3>1. /\ closing' = "joining" /\ state' = "stopping" /\ stopping' = TRUE /\ UNCHANGED ended
      BY <1>3, <2>3 DEF Close
    <3>2. LifeOK' /\ Closing'
      BY <2>1, <3>1 DEF Life, LifeOK, Closing, LoopFree
    <3>3. Announced' /\ EndComesLast'
      BY <2>1, <3>1 DEF Life, Announced, EndComesLast
    <3> QED BY <3>2, <3>3 DEF Life
  <2> QED BY <2>2, <2>3
<1>4. CASE CloseReturns
  <2>1. /\ closing = "joining" /\ closing' = "done" /\ ended' = TRUE
        /\ state' = IF state = "failed" THEN "failed" ELSE "stopped"
        /\ UNCHANGED <<starting, failed, stopping, thread, hand, queue, callbacks, receiver>>
    BY <1>4 DEF CloseReturns, ReleaseWaiters, consumer
  <2>2. LifeOK' /\ Closing'
    BY <1>0, <2>1 DEF Life, LifeOK, Closing
  <2>3. Announced' /\ EndComesLast'
    BY <2>1 DEF Life, Announced, EndComesLast, Closing
  <2> QED BY <2>2, <2>3 DEF Life
<1>5. CASE RunCallback
  <2>1. /\ callbacks # <<>> /\ callbacks' = Tail(callbacks)
        /\ UNCHANGED <<life, thread, hand, queue, receiver>>
        /\ (ended' = TRUE /\ Head(callbacks).kind = "ended") \/ UNCHANGED ended
    BY <1>5 DEF RunCallback, OnEnded, ReleaseWaiters, consumer
  <2>2. /\ callbacks' \in Seq(Callbacks) /\ Head(callbacks) = callbacks[1]
        /\ \A i \in DOMAIN callbacks' : i + 1 \in DOMAIN callbacks /\ callbacks'[i] = callbacks[i + 1]
        /\ 1 \in DOMAIN callbacks
    BY <1>0, <2>1, HeadTailProperties, EmptySeq
  <2>3. LifeOK' /\ Closing'
    BY <2>1, <2>2 DEF Life, LifeOK, Closing, life
  <2>4. Announced'
    BY <2>1, <2>2 DEF Life, Announced, life
  <2>5. EndComesLast'
    BY <2>1 DEF Life, EndComesLast, life
  <2> QED BY <2>3, <2>4, <2>5 DEF Life
<1>6. CASE Receive \/ CancelReceive
  <2>1. /\ UNCHANGED <<life, thread, hand, callbacks, ended>>
        /\ receiver # "ended"
        /\ receiver' = "ended" => ended /\ queue' = <<>>
    BY <1>6 DEF Receive, ReceiveNow, ReceiveEnds, ReceiveWaits, GetterTakes, ReceiveReturns,
                FinisherFires, CancelReceive, AtEnd
  <2>2. LifeOK' /\ Closing'
    BY <2>1 DEF Life, LifeOK, Closing, life
  <2>3. Announced'
    BY <2>1 DEF Life, Announced, life
  <2>4. EndComesLast'
    BY <1>0, <2>1 DEF Life, Announced, EndComesLast, life
  <2> QED BY <2>2, <2>3, <2>4 DEF Life
<1> QED BY <1>1, <1>2, <1>3, <1>4, <1>5, <1>6

LEMMA LifeStep ==
    ASSUME Life, AskingOK, PendingIsWaiting, [Next]_vars
    PROVE  Life'
<1>0. /\ thread = "handing" <=> hand # <<>>
      /\ thread \in {"none", "checking", "receiving", "handing", "dying", "ended"}
  BY DEF Life, LifeOK
<1>1. ASSUME UNCHANGED <<life, thread, hand, queue, callbacks, ended, receiver>> PROVE Life'
  BY <1>0, <1>1, Undisturbed
<1>2. CASE Emit \/ UNCHANGED vars
  BY <1>1, <1>2 DEF Emit, vars, consumer
<1>3. ASSUME NEW r \in Requests, Answer(r) \/ Request(r) \/ Timeout(r) PROVE Life'
  BY <1>1, <1>3 DEF Answer, Request, Timeout, consumer
<1> QED BY <1>2, <1>3, LifeOfThread, LifeOfLoop DEF Next

-----------------------------------------------------------------------------
\* Once close() has returned nothing waits again.
LEMMA ClosedStep ==
    ASSUME Life, AskingOK, PendingIsWaiting, ClosedReleasesWaiters, [Next]_vars
    PROVE  ClosedReleasesWaiters'
<1>1. ASSUME UNCHANGED <<closing, ended, asking>> PROVE ClosedReleasesWaiters'
  BY <1>1 DEF ClosedReleasesWaiters, Waiting, asking
<1>2. ASSUME ReleaseWaiters PROVE ClosedReleasesWaiters'
  BY <1>2, ReleaseKeepsTable DEF ClosedReleasesWaiters
<1>3. CASE Emit \/ StartThread \/ StartReturns \/ ThreadFails \/ Put \/ UNCHANGED vars
  BY <1>1, <1>3 DEF Emit, StartThread, StartReturns, ThreadFails, Put, life, vars
<1>4. CASE Thread
  BY <1>1, <1>4 DEF Thread, ThreadChecks, ReceiveTimesOut, ThreadReceives, ThreadEnds,
                    GiveUp, life
<1>5. CASE Receive \/ CancelReceive
  BY <1>1, <1>5 DEF Receive, ReceiveNow, ReceiveEnds, ReceiveWaits, GetterTakes,
                    ReceiveReturns, FinisherFires, CancelReceive, life
<1>6. ASSUME NEW r \in Requests, Answer(r) PROVE ClosedReleasesWaiters'
  BY <1>1, <1>6 DEF Answer, life
<1>7. ASSUME NEW r \in Requests, Request(r) PROVE ClosedReleasesWaiters'
  BY <1>7 DEF Request, Life, Closing, ClosedReleasesWaiters, life
<1>8. ASSUME NEW r \in Requests, Timeout(r) PROVE ClosedReleasesWaiters'
  BY <1>8 DEF Timeout, AskingOK, ClosedReleasesWaiters, Waiting, life
<1>9. CASE Close
  <2>1. closing' = "joining" \/ ReleaseWaiters
    BY <1>9 DEF Close
  <2> QED BY <1>2, <2>1 DEF ClosedReleasesWaiters
<1>10. CASE CloseReturns
  BY <1>2, <1>10 DEF CloseReturns
<1>11. CASE RunCallback
  <2> DEFINE call == Head(callbacks)
  <2>1. /\ UNCHANGED closing
        /\ \/ OnEnded
           \/ /\ status' = IF call.of \in pending
                           THEN [status EXCEPT ![call.of] = "answered"] ELSE status
              /\ UNCHANGED ended
    BY <1>11 DEF RunCallback, life
  <2>2. CASE OnEnded
    BY <1>2, <2>1, <2>2 DEF OnEnded, ClosedReleasesWaiters, Waiting, asking
  <2>3. CASE ~OnEnded
    <3> HIDE DEF call
    <3> QED BY <2>1, <2>3 DEF AskingOK, ClosedReleasesWaiters, Waiting
  <2> QED BY <2>2, <2>3
<1> QED BY <1>3, <1>4, <1>5, <1>6, <1>7, <1>8, <1>9, <1>10, <1>11 DEF Next

-----------------------------------------------------------------------------
(***************************************************************************)
(* Theorems.                                                               *)
(***************************************************************************)
LEMMA ClientInit == Init => Client
<1> SUFFICES ASSUME Init PROVE Client
  OBVIOUS
<1>1. TypeOK
  BY Types0
<1>2. PendingIsWaiting
  BY DEF Init, PendingIsWaiting, Waiting
<1>3. Closing /\ ClosedReleasesWaiters /\ Announced /\ EndComesLast
  BY DEF Init, Closing, ClosedReleasesWaiters, Announced, EndComesLast
<1> QED BY <1>1, <1>2, <1>3 DEF Client

LEMMA ClientAlways == Spec => []Client
<1>1. ASSUME Client, [Next]_vars PROVE Client'
  <2>1. Life /\ AskingOK /\ PendingIsWaiting /\ ClosedReleasesWaiters /\ TypeOK
    BY <1>1 DEF Client, Life, TypeOK
  <2>2. Life' /\ AskingOK' /\ PendingIsWaiting' /\ ClosedReleasesWaiters' /\ FlowOK'
    BY <1>1, <2>1, LifeStep, AskingStep, ClosedStep, FlowStep
  <2> QED BY <2>2 DEF Client, Life, TypeOK
<1> QED BY <1>1, ClientInit, PTL DEF Spec

\* Every variable of the client keeps its type: the queue its capacity, and the
\* thread holds a frame exactly while it hands one over.
THEOREM ClientTypeCorrect == Spec => []TypeOK
<1>1. Client => TypeOK
  BY DEF Client
<1> QED BY <1>1, ClientAlways, PTL

\* No entry of the pending table outlives its request (client.py:368, 531).
THEOREM TableIsExact == Spec => []PendingIsWaiting
<1>1. Client => PendingIsWaiting
  BY DEF Client
<1> QED BY <1>1, ClientAlways, PTL

\* close() leaves nobody waiting, and nobody can begin to (client.py:266-306).
THEOREM CloseReleases == Spec => []ClosedReleasesWaiters
<1>1. Client => ClosedReleasesWaiters
  BY DEF Client
<1> QED BY <1>1, ClientAlways, PTL

\* The end of a stream that was not closed is never told before its last update
\* (client.py:408-440, 541).
THEOREM EndIsTheEnd == Spec => []EndComesLast
<1>1. Client => EndComesLast
  BY DEF Client
<1> QED BY <1>1, ClientAlways, PTL
-----------------------------------------------------------------------------
(***************************************************************************)
(* The stream of updates.  A sequence of frames is told by the numbers of  *)
(* its updates and by whether they come in order: that is enough to follow *)
(* a frame from one place to the next.                                     *)
(***************************************************************************)
Precedes(S, T) == \A m \in S, n \in T : m < n

LEMMA NumbersAre ==
    ASSUME NEW s \in Seq(Raw)
    PROVE  /\ \A n : n \in Numbers(s) <=> \E i \in 1..Len(s) : s[i].kind = "update" /\ s[i].of = n
           /\ Numbers(s) \subseteq 1..MaxFrames
           /\ DOMAIN s = 1..Len(s) /\ Len(s) \in Nat
<1>1. DOMAIN s = 1..Len(s) /\ Len(s) \in Nat /\ \A i \in 1..Len(s) : s[i] \in Raw
  OBVIOUS
<1>2. \A n : n \in Numbers(s) <=> \E i \in 1..Len(s) : s[i].kind = "update" /\ s[i].of = n
  BY <1>1 DEF Numbers, Range
<1>3. ASSUME NEW i \in 1..Len(s), s[i].kind = "update" PROVE s[i].of \in 1..MaxFrames
  <2>1. s[i] \in Frames
    BY <1>1, <1>3, FrameTypes
  <2> QED BY <1>3, <2>1, FrameTypes
<1> QED BY <1>1, <1>2, <1>3

LEMMA NumbersOfJoin ==
    ASSUME NEW s \in Seq(Raw), NEW t \in Seq(Raw)
    PROVE  /\ s \o t \in Seq(Raw)
           /\ Numbers(s \o t) = Numbers(s) \cup Numbers(t)
<1> DEFINE u == s \o t
<1>1. /\ u \in Seq(Raw) /\ Len(u) = Len(s) + Len(t)
      /\ \A i \in 1..(Len(s) + Len(t)) : u[i] = IF i <= Len(s) THEN s[i] ELSE t[i - Len(s)]
  BY ConcatProperties
<1> HIDE DEF u
<1>2. Len(s) \in Nat /\ Len(t) \in Nat
  OBVIOUS
<1>3. \A i \in 1..Len(s) : i \in 1..Len(u) /\ u[i] = s[i]
  BY <1>1, <1>2
<1>4. ASSUME NEW i \in 1..Len(t)
      PROVE  i + Len(s) \in 1..Len(u) /\ u[i + Len(s)] = t[i]
  <2>1. /\ i + Len(s) \in 1..(Len(s) + Len(t)) /\ ~(i + Len(s) <= Len(s))
        /\ (i + Len(s)) - Len(s) = i
    BY <1>2
  <2> QED BY <1>1, <2>1
<1>5. ASSUME NEW i \in 1..Len(u)
      PROVE  \/ i \in 1..Len(s) /\ u[i] = s[i]
             \/ i - Len(s) \in 1..Len(t) /\ u[i] = t[i - Len(s)]
  BY <1>1, <1>2
<1>6. ASSUME NEW n \in Numbers(u) PROVE n \in Numbers(s) \cup Numbers(t)
  <2>1. PICK i \in 1..Len(u) : u[i].kind = "update" /\ u[i].of = n
    BY <1>1, NumbersAre
  <2> QED BY <1>5, <2>1, NumbersAre
<1>7. ASSUME NEW n \in Numbers(s) PROVE n \in Numbers(u)
  <2>1. PICK i \in 1..Len(s) : s[i].kind = "update" /\ s[i].of = n
    BY NumbersAre
  <2> QED BY <1>1, <1>3, <2>1, NumbersAre
<1>8. ASSUME NEW n \in Numbers(t) PROVE n \in Numbers(u)
  <2>1. PICK i \in 1..Len(t) : t[i].kind = "update" /\ t[i].of = n
    BY NumbersAre
  <2> QED BY <1>1, <1>4, <2>1, NumbersAre, SMTT(30)
<1> QED BY <1>1, <1>6, <1>7, <1>8 DEF u

\* Two sequences one after the other are in order if each is, and all of the
\* first comes before all of the second.
LEMMA OrderOfJoin ==
    ASSUME NEW s \in Seq(Raw), NEW t \in Seq(Raw)
    PROVE  InOrder(s \o t) <=>
               InOrder(s) /\ InOrder(t) /\ Precedes(Numbers(s), Numbers(t))
<1> DEFINE u == s \o t
<1>1. /\ u \in Seq(Raw) /\ Len(u) = Len(s) + Len(t)
      /\ \A i \in 1..(Len(s) + Len(t)) : u[i] = IF i <= Len(s) THEN s[i] ELSE t[i - Len(s)]
  BY ConcatProperties
<1> HIDE DEF u
<1>2. /\ Len(s) \in Nat /\ Len(t) \in Nat
      /\ DOMAIN s = 1..Len(s) /\ DOMAIN t = 1..Len(t) /\ DOMAIN u = 1..Len(u)
  BY <1>1
<1>3. \A i \in 1..Len(s) : i \in 1..Len(u) /\ u[i] = s[i]
  BY <1>1, <1>2
<1>4. ASSUME NEW i \in 1..Len(t)
      PROVE  i + Len(s) \in 1..Len(u) /\ u[i + Len(s)] = t[i]
  <2>1. /\ i + Len(s) \in 1..(Len(s) + Len(t)) /\ ~(i + Len(s) <= Len(s))
        /\ (i + Len(s)) - Len(s) = i
    BY <1>2
  <2> QED BY <1>1, <2>1
<1>5. ASSUME InOrder(u) PROVE InOrder(s) /\ InOrder(t) /\ Precedes(Numbers(s), Numbers(t))
  <2>1. InOrder(s)
    BY <1>2, <1>3, <1>5 DEF InOrder
  <2>2. InOrder(t)
    <3> SUFFICES ASSUME NEW i \in 1..Len(t), NEW j \in 1..Len(t), i < j,
                        t[i].kind = "update", t[j].kind = "update"
                 PROVE  t[i].of < t[j].of
      BY <1>2 DEF InOrder
    <3>1. i + Len(s) < j + Len(s)
      BY <1>2
    <3> QED BY <1>2, <1>4, <1>5, <3>1 DEF InOrder
  <2>3. ASSUME NEW m \in Numbers(s), NEW n \in Numbers(t) PROVE m < n
    <3>1. PICK i \in 1..Len(s) : s[i].kind = "update" /\ s[i].of = m
      BY NumbersAre
    <3>2. PICK j \in 1..Len(t) : t[j].kind = "update" /\ t[j].of = n
      BY NumbersAre
    <3>3. i < j + Len(s)
      BY <1>2
    <3> QED BY <1>2, <1>3, <1>4, <1>5, <3>1, <3>2, <3>3 DEF InOrder
  <2> QED BY <2>1, <2>2, <2>3 DEF Precedes
<1>6. ASSUME InOrder(s), InOrder(t), Precedes(Numbers(s), Numbers(t)) PROVE InOrder(u)
  <2> SUFFICES ASSUME NEW i \in 1..Len(u), NEW j \in 1..Len(u), i < j,
                      u[i].kind = "update", u[j].kind = "update"
               PROVE  u[i].of < u[j].of
    BY <1>2 DEF InOrder
  <2>1. CASE j <= Len(s)
    <3>1. i \in 1..Len(s) /\ j \in 1..Len(s)
      BY <1>2, <2>1
    <3> QED BY <1>2, <1>3, <1>6, <3>1 DEF InOrder
  <2>2. CASE i > Len(s)
    <3>1. /\ i - Len(s) \in 1..Len(t) /\ j - Len(s) \in 1..Len(t) /\ i - Len(s) < j - Len(s)
          /\ u[i] = t[i - Len(s)] /\ u[j] = t[j - Len(s)]
      BY <1>1, <1>2, <2>2
    <3> QED BY <1>2, <1>6, <3>1 DEF InOrder
  <2>3. CASE i <= Len(s) /\ j > Len(s)
    <3>1. /\ i \in 1..Len(s) /\ j - Len(s) \in 1..Len(t)
          /\ u[i] = s[i] /\ u[j] = t[j - Len(s)]
      BY <1>1, <1>2, <2>3
    <3>2. u[i].of \in Numbers(s) /\ u[j].of \in Numbers(t)
      BY <3>1, NumbersAre
    <3> QED BY <1>6, <3>2 DEF Precedes
  <2> QED BY <1>2, <2>1, <2>2, <2>3
<1> QED BY <1>5, <1>6 DEF u

LEMMA FewFrames ==
    /\ Numbers(<<>>) = {} /\ InOrder(<<>>)
    /\ \A f \in Raw : /\ Numbers(<<f>>) = IF f.kind = "update" THEN {f.of} ELSE {}
                      /\ InOrder(<<f>>)
<1>1. Numbers(<<>>) = {} /\ InOrder(<<>>)
  <2>1. DOMAIN <<>> = {}
    OBVIOUS
  <2> QED BY <2>1 DEF Numbers, InOrder, Range
<1>2. ASSUME NEW f \in Raw
      PROVE  /\ Numbers(<<f>>) = IF f.kind = "update" THEN {f.of} ELSE {}
             /\ InOrder(<<f>>)
  <2> DEFINE s == <<f>>
  <2>1. DOMAIN s = {1} /\ s[1] = f
    OBVIOUS
  <2> HIDE DEF s
  <2>2. Numbers(s) = (IF f.kind = "update" THEN {f.of} ELSE {}) /\ InOrder(s)
    BY <2>1 DEF Numbers, InOrder, Range
  <2> QED BY <2>2 DEF s
<1> QED BY <1>1, <1>2

\* A queue whose first frame is taken.
LEMMA FirstTaken ==
    ASSUME NEW s \in Seq(Raw), s # <<>>
    PROVE  /\ Head(s) \in Raw /\ Tail(s) \in Seq(Raw)
           /\ Numbers(s) = Numbers(<<Head(s)>>) \cup Numbers(Tail(s))
           /\ InOrder(s) => InOrder(Tail(s)) /\ Precedes(Numbers(<<Head(s)>>), Numbers(Tail(s)))
<1>1. Head(s) \in Raw /\ Tail(s) \in Seq(Raw)
  BY HeadTailProperties
<1>2. <<Head(s)>> \in Seq(Raw) /\ Len(<<Head(s)>>) = 1 /\ <<Head(s)>>[1] = s[1]
  BY <1>1
<1>3. s = <<Head(s)>> \o Tail(s)
  <2> DEFINE h == <<Head(s)>>
             t == h \o Tail(s)
  <2>1. /\ Len(Tail(s)) = Len(s) - 1 /\ Len(s) \in Nat
        /\ \A i \in 1..Len(Tail(s)) : Tail(s)[i] = s[i + 1]
    BY HeadTailProperties
  <2>2. h \in Seq(Raw) /\ Len(h) = 1 /\ h[1] = s[1]
    BY <1>2
  <2> HIDE DEF h
  <2>3. /\ t \in Seq(Raw) /\ Len(t) = 1 + Len(Tail(s))
        /\ \A i \in 1..(1 + Len(Tail(s))) : t[i] = IF i <= 1 THEN h[i] ELSE Tail(s)[i - 1]
    <3>1. /\ t \in Seq(Raw) /\ Len(t) = Len(h) + Len(Tail(s))
          /\ \A i \in 1..(Len(h) + Len(Tail(s))) :
                t[i] = IF i <= Len(h) THEN h[i] ELSE Tail(s)[i - Len(h)]
      BY <1>1, <2>2, ConcatProperties
    <3> HIDE DEF t
    <3> QED BY <2>2, <3>1
  <2> HIDE DEF t
  <2>4. Len(t) = Len(s)
    BY <2>1, <2>3
  <2>5. ASSUME NEW i \in 1..Len(s) PROVE s[i] = t[i]
    <3>1. CASE i = 1
      BY <2>1, <2>2, <2>3, <3>1
    <3>2. CASE i # 1
      <4>1. i - 1 \in 1..Len(Tail(s)) /\ i \in 1..(1 + Len(Tail(s))) /\ ~(i <= 1)
        BY <2>1, <3>2
      <4>2. t[i] = Tail(s)[i - 1] /\ Tail(s)[i - 1] = s[(i - 1) + 1]
        BY <2>1, <2>3, <4>1
      <4>3. (i - 1) + 1 = i
        BY <2>1
      <4> QED BY <4>2, <4>3
    <3> QED BY <3>1, <3>2
  <2>6. s = t
    BY <2>3, <2>4, <2>5, SeqEqual
  <2> QED BY <2>6 DEF t, h
<1> QED BY <1>1, <1>2, <1>3, NumbersOfJoin, OrderOfJoin

LEMMA OneFrame ==
    ASSUME NEW s \in Seq(Raw), s # <<>>, Len(s) <= 1
    PROVE  s = <<s[1]>> /\ s[1] \in Raw
<1>1. Len(s) = 1 /\ s[1] \in Raw
  <2>1. Len(s) \in Nat \ {0}
    BY EmptySeq
  <2>2. Len(s) = 1
    <3> DEFINE n == Len(s)
    <3>1. n \in Nat \ {0} /\ n <= 1
      BY <2>1
    <3> HIDE DEF n
    <3>2. n = 1
      BY <3>1
    <3> QED BY <3>2 DEF n
  <2>3. 1 \in 1..Len(s)
    BY <2>2
  <2>4. s[1] \in Raw
    BY <2>3, ElementOfSeq
  <2> QED BY <2>2, <2>4
<1> DEFINE f == s[1]
           t == <<f>>
<1>2. t \in Seq(Raw) /\ Len(t) = 1 /\ t[1] = f
  BY <1>1
<1> HIDE DEF t
<1>3. \A i \in 1..Len(s) : s[i] = t[i]
  BY <1>1, <1>2
<1>4. s = t
  BY <1>1, <1>2, <1>3, SeqEqual
<1> QED BY <1>1, <1>4 DEF t

LEMMA TwoFrames ==
    ASSUME NEW f \in Raw, NEW g \in Raw, f.kind # "update", g.kind = "update"
    PROVE  <<f, g>> \in Seq(Raw) /\ Numbers(<<f, g>>) = {g.of} /\ InOrder(<<f, g>>)
<1> DEFINE s == <<f, g>>
<1>1. s \in Seq(Raw) /\ DOMAIN s = {1, 2} /\ s[1] = f /\ s[2] = g
  OBVIOUS
<1> HIDE DEF s
<1>2. Numbers(s) = {g.of} /\ InOrder(s)
  BY <1>1 DEF Numbers, InOrder, Range
<1> QED BY <1>1, <1>2 DEF s

\* A frame put behind others.
LEMMA LastPut ==
    ASSUME NEW s \in Seq(Raw), NEW f \in Raw
    PROVE  /\ Append(s, f) \in Seq(Raw)
           /\ Numbers(Append(s, f)) = Numbers(s) \cup Numbers(<<f>>)
           /\ InOrder(Append(s, f)) <=> InOrder(s) /\ Precedes(Numbers(s), Numbers(<<f>>))
<1>1. Append(s, f) = s \o <<f>> /\ <<f>> \in Seq(Raw)
  BY AppendIsConcat
<1> QED BY <1>1, NumbersOfJoin, OrderOfJoin, FewFrames, ZenonT(40)

\* The five places a frame passes through, the oldest first.
Rows(a, b, c, d, e) ==
    /\ InOrder(a) /\ InOrder(b) /\ InOrder(c) /\ InOrder(d) /\ InOrder(e)
    /\ Precedes(Numbers(a), Numbers(b) \cup Numbers(c) \cup Numbers(d) \cup Numbers(e))
    /\ Precedes(Numbers(b), Numbers(c) \cup Numbers(d) \cup Numbers(e))
    /\ Precedes(Numbers(c), Numbers(d) \cup Numbers(e))
    /\ Precedes(Numbers(d), Numbers(e))

LEMMA RowsAreStream ==
    ASSUME NEW a \in Seq(Raw), NEW b \in Seq(Raw), NEW c \in Seq(Raw), NEW d \in Seq(Raw),
           NEW e \in Seq(Raw)
    PROVE  /\ Numbers(a \o b \o c \o d \o e) =
                  Numbers(a) \cup Numbers(b) \cup Numbers(c) \cup Numbers(d) \cup Numbers(e)
           /\ InOrder(a \o b \o c \o d \o e) <=> Rows(a, b, c, d, e)
<1>1. a \o b \in Seq(Raw) /\ Numbers(a \o b) = Numbers(a) \cup Numbers(b)
  BY NumbersOfJoin
<1>2. /\ (a \o b) \o c \in Seq(Raw)
      /\ Numbers((a \o b) \o c) = Numbers(a) \cup Numbers(b) \cup Numbers(c)
  BY <1>1, NumbersOfJoin
<1>3. /\ ((a \o b) \o c) \o d \in Seq(Raw)
      /\ Numbers(((a \o b) \o c) \o d) = Numbers(a) \cup Numbers(b) \cup Numbers(c) \cup Numbers(d)
  BY <1>2, NumbersOfJoin
<1>4. Numbers((((a \o b) \o c) \o d) \o e) =
          Numbers(a) \cup Numbers(b) \cup Numbers(c) \cup Numbers(d) \cup Numbers(e)
  BY <1>3, NumbersOfJoin
<1>5. InOrder(a \o b) <=> InOrder(a) /\ InOrder(b) /\ Precedes(Numbers(a), Numbers(b))
  BY OrderOfJoin
<1>6. InOrder((a \o b) \o c) <=> /\ InOrder(a \o b) /\ InOrder(c)
                                 /\ Precedes(Numbers(a) \cup Numbers(b), Numbers(c))
  BY <1>1, OrderOfJoin
<1>7. InOrder(((a \o b) \o c) \o d) <=>
          /\ InOrder((a \o b) \o c) /\ InOrder(d)
          /\ Precedes(Numbers(a) \cup Numbers(b) \cup Numbers(c), Numbers(d))
  BY <1>2, OrderOfJoin, ZenonT(40)
<1>8. InOrder((((a \o b) \o c) \o d) \o e) <=>
          /\ InOrder(((a \o b) \o c) \o d) /\ InOrder(e)
          /\ Precedes(Numbers(a) \cup Numbers(b) \cup Numbers(c) \cup Numbers(d), Numbers(e))
  BY <1>3, OrderOfJoin, ZenonT(40)
<1>9. InOrder((((a \o b) \o c) \o d) \o e) <=> Rows(a, b, c, d, e)
  BY <1>5, <1>6, <1>7, <1>8 DEF Rows, Precedes
<1> QED BY <1>4, <1>9

OnTheWay ==
    Numbers(delivered) \cup Numbers(got) \cup Numbers(queue) \cup Numbers(hand) \cup Numbers(inbox)

Nowhere == (1..emitted) \ (OnTheWay \cup lost)

\* An update disappears only when the thread, told to stop, gives up the frame
\* in its hand; it then has nothing left to do but end, so that happens once.
Kept ==
    /\ Rows(delivered, got, queue, hand, inbox)
    /\ OnTheWay \subseteq 1..emitted
    /\ Len(got) <= 1
    /\ Nowhere # {} => stopping /\ thread \in {"checking", "ended"}
    /\ \E n : Nowhere \subseteq {n}

LEMMA KeptIsExact ==
    ASSUME TypeOK, Kept
    PROVE  StreamIsExact
<1>1. /\ delivered \in Seq(Raw) /\ got \in Seq(Raw) /\ queue \in Seq(Raw) /\ hand \in Seq(Raw)
      /\ inbox \in Seq(Raw)
  BY DEF TypeOK, FlowOK, Raw
<1>2. Numbers(Stream) = OnTheWay /\ InOrder(Stream)
  BY <1>1, RowsAreStream DEF Kept, Stream, OnTheWay
<1>3. Missing = Nowhere
  BY <1>2 DEF Missing, Nowhere
<1>4. PICK n : Nowhere \subseteq {n}
  BY DEF Kept
<1>5. Cardinality(Nowhere) <= 1
  <2>1. IsFiniteSet({n}) /\ Cardinality({n}) = 1
    BY FS_Singleton
  <2>2. Cardinality(Nowhere) <= Cardinality({n})
    BY <1>4, <2>1, FS_Subset
  <2> QED BY <2>1, <2>2
<1>6. Nowhere = {} => Cardinality(Nowhere) = 0
  BY FS_EmptySet
<1>7. Cardinality(Missing) <= IF stopping THEN 1 ELSE 0
  <2>1. CASE stopping
    BY <1>3, <1>5, <2>1
  <2>2. CASE ~stopping
    <3>1. Cardinality(Nowhere) = 0
      BY <1>6, <2>2 DEF Kept
    <3> QED BY <1>3, <2>2, <3>1
  <2> QED BY <2>1, <2>2
<1> QED BY <1>2, <1>7 DEF StreamIsExact

\* A step that leaves every update where it is.
LEMMA KeptStill ==
    ASSUME Kept, UNCHANGED <<delivered, got, queue, hand, inbox, emitted, lost>>,
           stopping => stopping',
           thread \in {"checking", "ended"} /\ stopping => thread' \in {"checking", "ended"}
    PROVE  Kept'
BY DEF Kept, OnTheWay, Nowhere

LEMMA KeptByTdlib ==
    ASSUME TypeOK, Kept, Emit \/ \E r \in Requests : Answer(r)
    PROVE  Kept'
<1>0. /\ inbox \in Seq(Raw) /\ emitted \in Nat /\ MaxFrames \in Nat
      /\ UNCHANGED <<delivered, got, queue, hand, lost, stopping, thread>>
  BY CapacityAssumption DEF TypeOK, FlowOK, Raw, Emit, Answer, consumer, life
<1>1. CASE Emit
  <2> DEFINE u == Update(emitted + 1)
  <2>1. /\ u \in Raw /\ u.kind = "update" /\ u.of = emitted + 1
        /\ Malformed \in Raw /\ Malformed.kind = "malformed" /\ emitted' = emitted + 1
        /\ inbox' = Append(inbox, u) \/ inbox' = inbox \o <<Malformed, u>>
    <3>1. emitted + 1 \in 1..MaxFrames
      BY <1>0, <1>1 DEF Emit
    <3> QED BY <1>1, <3>1, FrameTypes DEF Emit, Raw, Update, Malformed
  <2> HIDE DEF u
  <2>2. Append(inbox, u) = inbox \o <<u>> /\ <<u>> \in Seq(Raw)
    BY <1>0, <2>1, AppendIsConcat
  <2>3. Numbers(<<u>>) = {emitted + 1} /\ InOrder(<<u>>)
    BY <2>1, FewFrames
  <2>4. /\ <<Malformed, u>> \in Seq(Raw) /\ Numbers(<<Malformed, u>>) = {emitted + 1}
        /\ InOrder(<<Malformed, u>>)
    BY <2>1, TwoFrames
  <2>5. PICK t \in Seq(Raw) :
           inbox' = inbox \o t /\ Numbers(t) = {emitted + 1} /\ InOrder(t)
    BY <2>1, <2>2, <2>3, <2>4
  <2>6. /\ Numbers(inbox \o t) = Numbers(inbox) \cup {emitted + 1}
        /\ InOrder(inbox \o t) <=> InOrder(inbox) /\ Precedes(Numbers(inbox), {emitted + 1})
    BY <1>0, <2>5, NumbersOfJoin, OrderOfJoin, ZenonT(40)
  <2>7. \A m \in OnTheWay : m < emitted + 1
    BY <1>0 DEF Kept
  <2>8. InOrder(inbox') /\ Numbers(inbox') = Numbers(inbox) \cup {emitted + 1}
    BY <2>5, <2>6, <2>7 DEF Kept, Rows, Precedes, OnTheWay
  <2>9. Rows(delivered, got, queue, hand, inbox)'
    BY <1>0, <2>7, <2>8 DEF Kept, Rows, Precedes, OnTheWay
  <2>10. OnTheWay' = OnTheWay \cup {emitted + 1}
    BY <1>0, <2>8 DEF OnTheWay
  <2>11. 1..emitted' = (1..emitted) \cup {emitted + 1}
    BY <1>0, <2>1
  <2>12. Nowhere' \subseteq Nowhere
    BY <1>0, <2>10, <2>11 DEF Nowhere
  <2>13. (OnTheWay \subseteq 1..emitted)'
    BY <2>10, <2>11 DEF Kept
  <2> QED BY <1>0, <2>9, <2>12, <2>13 DEF Kept
<1>2. ASSUME NEW r \in Requests, Answer(r) PROVE Kept'
  <2>1. /\ Reply(r) \in Raw /\ Reply(r).kind = "reply"
        /\ inbox' = Append(inbox, Reply(r)) /\ UNCHANGED emitted
    BY <1>2, FrameTypes DEF Answer, Raw, Reply
  <2>2. Numbers(inbox') = Numbers(inbox) /\ (InOrder(inbox) => InOrder(inbox'))
    <3> DEFINE f == Reply(r)
    <3>1. f \in Raw /\ f.kind # "update" /\ inbox' = Append(inbox, f)
      BY <2>1
    <3> HIDE DEF f
    <3>2. Numbers(<<f>>) = {}
      BY <3>1, FewFrames
    <3>3. /\ Numbers(Append(inbox, f)) = Numbers(inbox) \cup Numbers(<<f>>)
          /\ InOrder(Append(inbox, f)) <=> InOrder(inbox) /\ Precedes(Numbers(inbox), Numbers(<<f>>))
      BY <1>0, <3>1, LastPut
    <3> QED BY <3>1, <3>2, <3>3 DEF Precedes
  <2>3. Rows(delivered, got, queue, hand, inbox)' /\ OnTheWay' = OnTheWay
    BY <1>0, <2>2 DEF Kept, Rows, OnTheWay
  <2> QED BY <1>0, <2>1, <2>3 DEF Kept, Nowhere
<1> QED BY <1>1, <1>2

LEMMA KeptByThread ==
    ASSUME TypeOK, Kept, Thread \/ Put
    PROVE  Kept'
<1>0. /\ queue \in Seq(Raw) /\ hand \in Seq(Raw) /\ inbox \in Seq(Raw)
      /\ Len(hand) <= 1 /\ (thread = "handing" <=> hand # <<>>)
      /\ UNCHANGED <<delivered, got, lost, emitted, stopping>>
  BY SMTT(30) DEF TypeOK, FlowOK, LifeOK, Raw, Thread, ThreadChecks, ReceiveTimesOut, ThreadReceives,
         ThreadEnds, GiveUp, Put, consumer, life, tdlib
<1>1. CASE ThreadChecks \/ ReceiveTimesOut \/ ThreadEnds
  BY <1>0, <1>1, KeptStill DEF ThreadChecks, ReceiveTimesOut, ThreadEnds, tdlib
<1>2. CASE ThreadReceives
  <2> DEFINE frame == Head(inbox)
  <2>1. /\ inbox # <<>> /\ inbox' = Tail(inbox) /\ UNCHANGED queue
        /\ thread = "receiving"
        /\ \/ frame.kind = "malformed" /\ UNCHANGED hand
           \/ frame.kind = "reply" /\ UNCHANGED hand
           \/ hand' = <<frame>>
    BY <1>2 DEF ThreadReceives
  <2>2. /\ frame \in Raw /\ Numbers(inbox) = Numbers(<<frame>>) \cup Numbers(inbox')
        /\ InOrder(inbox) => InOrder(inbox') /\ Precedes(Numbers(<<frame>>), Numbers(inbox'))
    BY <1>0, <2>1, FirstTaken
  <2>3. Numbers(hand) = {} /\ InOrder(hand)
    BY <1>0, <2>1, FewFrames
  <2>4. Numbers(hand') = Numbers(<<frame>>) /\ InOrder(hand')
    <3>1. CASE hand' = <<frame>>
      BY <2>2, <3>1, FewFrames
    <3>2. CASE UNCHANGED hand /\ frame.kind \in {"malformed", "reply"}
      <4>1. Numbers(<<frame>>) = {}
        BY <2>2, <3>2, FewFrames
      <4> QED BY <2>3, <3>2, <4>1
    <3> QED BY <2>1, <3>1, <3>2
  <2> HIDE DEF frame
  <2>5. OnTheWay' = OnTheWay
    BY <1>0, <2>1, <2>2, <2>3, <2>4 DEF OnTheWay
  <2>6. Rows(delivered, got, queue, hand, inbox)'
    BY <1>0, <2>1, <2>2, <2>3, <2>4 DEF Kept, Rows, Precedes
  <2>7. Nowhere = {}
    BY <2>1 DEF Kept
  <2> QED BY <1>0, <2>5, <2>6, <2>7 DEF Kept, Nowhere
<1>3. CASE GiveUp
  <2>1. /\ thread = "handing" /\ stopping /\ thread' = "checking" /\ hand' = <<>>
        /\ UNCHANGED <<inbox, queue>>
    BY <1>3 DEF GiveUp, tdlib
  <2>2. hand = <<hand[1]>> /\ hand[1] \in Raw
    BY <1>0, <2>1, OneFrame
  <2>3. PICK n : Numbers(hand) \subseteq {n}
    BY <2>2, FewFrames
  <2>4. Numbers(hand') = {} /\ InOrder(hand')
    BY <2>1, FewFrames
  <2>5. Rows(delivered, got, queue, hand, inbox)'
    BY <1>0, <2>1, <2>4 DEF Kept, Rows, Precedes
  <2>6. OnTheWay = OnTheWay' \cup Numbers(hand)
    BY <1>0, <2>1, <2>4 DEF OnTheWay
  <2>7. Nowhere = {}
    BY <2>1 DEF Kept
  <2>8. Nowhere' \subseteq {n}
    BY <1>0, <2>3, <2>6, <2>7 DEF Nowhere
  <2> QED BY <1>0, <2>1, <2>5, <2>6, <2>8 DEF Kept
<1>4. CASE Put
  <2>1. /\ thread = "handing" /\ hand' = <<>> /\ queue' = queue \o hand /\ UNCHANGED inbox
    BY <1>4 DEF Put, PutAtEnd, tdlib
  <2>2. /\ Numbers(queue') = Numbers(queue) \cup Numbers(hand)
        /\ InOrder(queue') <=>
               InOrder(queue) /\ InOrder(hand) /\ Precedes(Numbers(queue), Numbers(hand))
    BY <1>0, <2>1, NumbersOfJoin, OrderOfJoin
  <2>3. Numbers(hand') = {} /\ InOrder(hand')
    BY <2>1, FewFrames
  <2>4. OnTheWay' = OnTheWay
    BY <1>0, <2>1, <2>2, <2>3 DEF OnTheWay
  <2>5. Rows(delivered, got, queue, hand, inbox)'
    BY <1>0, <2>1, <2>2, <2>3 DEF Kept, Rows, Precedes
  <2>6. Nowhere = {}
    BY <2>1 DEF Kept
  <2> QED BY <1>0, <2>4, <2>5, <2>6 DEF Kept, Nowhere
<1> QED BY <1>1, <1>2, <1>3, <1>4 DEF Thread

LEMMA KeptByConsumer ==
    ASSUME TypeOK, Kept, Receive \/ CancelReceive
    PROVE  Kept'
<1>0. /\ queue \in Seq(Raw) /\ got \in Seq(Raw) /\ delivered \in Seq(Raw)
      /\ (receiver = "got" <=> got # <<>>)
      /\ UNCHANGED <<hand, inbox, emitted, stopping, thread>>
  BY DEF TypeOK, FlowOK, Raw, Receive, ReceiveNow, ReceiveEnds, ReceiveWaits, GetterTakes,
         ReceiveReturns, FinisherFires, CancelReceive, life, tdlib
<1>1. CASE ReceiveEnds \/ ReceiveWaits \/ FinisherFires
  BY <1>0, <1>1, KeptStill DEF ReceiveEnds, ReceiveWaits, FinisherFires
<1>2. CASE ReceiveNow
  <2> DEFINE frame == Head(queue)
  <2>1. /\ queue # <<>> /\ got = <<>> /\ delivered' = Append(delivered, frame)
        /\ queue' = Tail(queue) /\ UNCHANGED <<got, lost>>
    BY <1>0, <1>2 DEF ReceiveNow, Deliver
  <2>2. /\ frame \in Raw /\ Numbers(queue) = Numbers(<<frame>>) \cup Numbers(queue')
        /\ InOrder(queue) => InOrder(queue') /\ Precedes(Numbers(<<frame>>), Numbers(queue'))
    BY <1>0, <2>1, FirstTaken
  <2>3. /\ Numbers(delivered') = Numbers(delivered) \cup Numbers(<<frame>>)
        /\ InOrder(delivered') <=>
               InOrder(delivered) /\ Precedes(Numbers(delivered), Numbers(<<frame>>))
    BY <1>0, <2>1, <2>2, LastPut
  <2> HIDE DEF frame
  <2>4. Numbers(got) = {}
    BY <2>1, FewFrames
  <2>5. OnTheWay' = OnTheWay
    BY <1>0, <2>1, <2>2, <2>3 DEF OnTheWay
  <2>6. Rows(delivered, got, queue, hand, inbox)'
    BY <1>0, <2>1, <2>2, <2>3, <2>4 DEF Kept, Rows, Precedes
  <2> QED BY <1>0, <2>1, <2>5, <2>6 DEF Kept, Nowhere
<1>3. CASE GetterTakes
  <2> DEFINE frame == Head(queue)
  <2>1. /\ queue # <<>> /\ got = <<>> /\ got' = <<frame>>
        /\ queue' = Tail(queue) /\ UNCHANGED <<delivered, lost>>
    BY <1>0, <1>3 DEF GetterTakes
  <2>2. /\ frame \in Raw /\ Numbers(queue) = Numbers(<<frame>>) \cup Numbers(queue')
        /\ InOrder(queue) => InOrder(queue') /\ Precedes(Numbers(<<frame>>), Numbers(queue'))
    BY <1>0, <2>1, FirstTaken
  <2>3. Numbers(got) = {} /\ Numbers(got') = Numbers(<<frame>>) /\ InOrder(got')
    BY <2>1, <2>2, FewFrames
  <2>4. Len(got') <= 1
    BY <2>1
  <2> HIDE DEF frame
  <2>5. OnTheWay' = OnTheWay
    BY <1>0, <2>1, <2>2, <2>3 DEF OnTheWay
  <2>6. Rows(delivered, got, queue, hand, inbox)'
    BY <1>0, <2>1, <2>2, <2>3 DEF Kept, Rows, Precedes
  <2> QED BY <1>0, <2>1, <2>4, <2>5, <2>6 DEF Kept, Nowhere
<1>4. CASE ReceiveReturns
  <2> DEFINE frame == got[1]
  <2>1. /\ receiver = "got" /\ delivered' = Append(delivered, frame)
        /\ got' = <<>> /\ UNCHANGED <<queue, lost>>
    BY <1>4 DEF ReceiveReturns, Deliver
  <2>2. got = <<frame>> /\ frame \in Raw
    BY <1>0, <2>1, OneFrame DEF Kept
  <2> HIDE DEF frame
  <2>3. /\ Numbers(delivered') = Numbers(delivered) \cup Numbers(got)
        /\ InOrder(delivered') <=>
               InOrder(delivered) /\ Precedes(Numbers(delivered), Numbers(got))
    BY <1>0, <2>1, <2>2, LastPut
  <2>4. Numbers(got') = {} /\ InOrder(got') /\ Len(got') <= 1
    BY <2>1, FewFrames
  <2>5. OnTheWay' = OnTheWay
    BY <1>0, <2>1, <2>3, <2>4 DEF OnTheWay
  <2>6. Rows(delivered, got, queue, hand, inbox)'
    BY <1>0, <2>1, <2>3, <2>4 DEF Kept, Rows, Precedes
  <2> QED BY <1>0, <2>1, <2>4, <2>5, <2>6 DEF Kept, Nowhere
<1>5. CASE CancelReceive
  <2>1. /\ lost' = lost \cup Numbers(got) /\ got' = <<>> /\ UNCHANGED <<queue, delivered>>
    BY <1>5 DEF CancelReceive, Numbers
  <2>2. Numbers(got') = {} /\ InOrder(got') /\ Len(got') <= 1
    BY <2>1, FewFrames
  <2>3. OnTheWay = OnTheWay' \cup Numbers(got)
    BY <1>0, <2>1, <2>2 DEF OnTheWay
  <2>4. Rows(delivered, got, queue, hand, inbox)'
    BY <1>0, <2>1, <2>2 DEF Kept, Rows, Precedes
  <2>5. Nowhere' = Nowhere
    BY <1>0, <2>1, <2>3 DEF Nowhere
  <2> QED BY <1>0, <2>2, <2>3, <2>4, <2>5 DEF Kept
<1> QED BY <1>1, <1>2, <1>3, <1>4, <1>5 DEF Receive

LEMMA KeptNext ==
    ASSUME TypeOK, Kept, [Next]_vars
    PROVE  Kept'
<1>1. CASE \/ StartThread \/ StartReturns \/ Close \/ CloseReturns \/ ThreadFails \/ RunCallback
           \/ UNCHANGED vars
  <2>1. UNCHANGED <<delivered, got, queue, hand, inbox, emitted, lost>>
    BY <1>1 DEF StartThread, StartReturns, Close, CloseReturns, ThreadFails, RunCallback,
                consumer, tdlib, vars
  <2>2. (stopping => stopping') /\ (UNCHANGED thread \/ thread \in {"none", "receiving"})
    BY <1>1 DEF StartThread, StartReturns, Close, CloseReturns, ThreadFails, RunCallback,
                life, vars
  <2> QED BY <2>1, <2>2, KeptStill
<1>2. ASSUME NEW r \in Requests, Request(r) \/ Timeout(r) PROVE Kept'
  <2>1. UNCHANGED <<delivered, got, queue, hand, inbox, emitted, lost, stopping, thread>>
    BY <1>2 DEF Request, Timeout, consumer, tdlib, life
  <2> QED BY <2>1, KeptStill
<1> QED BY <1>1, <1>2, KeptByTdlib, KeptByThread, KeptByConsumer DEF Next

LEMMA KeptInit == Init => Kept
<1> SUFFICES ASSUME Init PROVE Kept
  OBVIOUS
<1>1. /\ delivered = <<>> /\ got = <<>> /\ queue = <<>> /\ hand = <<>> /\ inbox = <<>>
      /\ emitted = 0
  BY DEF Init
<1>2. Rows(delivered, got, queue, hand, inbox) /\ OnTheWay = {} /\ Len(got) = 0
  BY <1>1, FewFrames DEF Rows, Precedes, OnTheWay
<1>3. Nowhere = {}
  BY <1>1 DEF Nowhere
<1> QED BY <1>2, <1>3 DEF Kept

\* Updates come in the order TDLib emitted them wherever they are, and none is
\* lost but the one in the thread's hand when it is told to stop, and those a
\* cancelled receive() held (client.py:408-440, 476).
THEOREM StreamStaysExact == Spec => []StreamIsExact
<1>1. TypeOK /\ Kept => StreamIsExact
  BY KeptIsExact
<1>2. TypeOK /\ Kept /\ [Next]_vars => Kept'
  BY KeptNext
<1> QED BY <1>1, <1>2, KeptInit, ClientTypeCorrect, PTL DEF Spec
=============================================================================
