------------------------------ MODULE Gateway ------------------------------
(***************************************************************************)
(* infrastructure/telegram/gateway.py: one loop, three tasks.  The session *)
(* connects, signs in and disconnects; the dispatch loop reads every frame *)
(* the client delivers, keeps the view of the authorization and fills the  *)
(* bounded queue of updates; one consumer drains that queue.               *)
(*                                                                         *)
(* The client is what module TdjsonClient promises: frames in order, then  *)
(* the end.  TDLib answers a request on a way of its own, before or after  *)
(* the report of what the request changed.  Frames that leave no trace     *)
(* (connection states, kinds nobody handles) are left out, as is a second  *)
(* connect(): a client is started once.                                    *)
(***************************************************************************)
EXTENDS Integers, Sequences

CONSTANTS
    Capacity,       \* update_queue_size
    MaxMessages,    \* bound on the messages TDLib reports
    MaxSteps,       \* MAX_AUTHORIZATION_STEPS
    MaxRetries      \* bound: how often the operator tries a step again

ASSUME BoundsAssumption ==
    Capacity \in Nat \ {0} /\ MaxMessages \in Nat /\ MaxSteps \in Nat /\ MaxRetries \in Nat

VARIABLES
    server,         \* the step of the authorization TDLib is at
    pipe,           \* frames the client has still to deliver
    cut,            \* nothing follows them: the client failed or was closed
    emitted,        \* messages TDLib has reported
    asked,          \* the step the last request was for
    reply,          \* what became of it
    view,           \* _AuthorizationView
    dispatch,       \* the dispatch loop
    queue,          \* the update queue
    consumer,       \* the consumer of updates()
    delivered,      \* what it was given
    session,        \* where the session is
    from,           \* the raw state it read before it acted
    steps,          \* steps the login has taken
    retries,
    closing         \* _closing

tdlib == <<server, pipe, cut, emitted>>
request == <<asked, reply>>
flow == <<session, from, steps, retries>>
stream == <<queue, consumer, delivered>>
vars == <<tdlib, request, view, dispatch, stream, flow, closing>>

Prompted == {"phone", "code", "password"}
Reported == {"parameters", "ready", "logged_out"} \cup Prompted
Dead == {"unsupported", "closed"}
Raw == Reported \cup Dead \cup {"none"}

End == 0
Auth(s) == <<"auth", s>>
Message(n) == <<"message", n>>
Frames == ({"auth"} \X Raw) \cup ({"message"} \X (1..MaxMessages))

\* state is the last step that translates; a closing or an unsupported one
\* leaves it alone.
Views == [raw : Raw, state : Reported, known : BOOLEAN, closed : BOOLEAN, fatal : BOOLEAN]

Waits == {"starting", "sending", "settling", "asking", "requesting", "changing",
          "leaving", "parting"}
Holds == {"connected", "signed_in"}
Leaves == {"failing", "timed_out", "signed_out"}
Sessions == Waits \cup Holds \cup Leaves \cup {"new", "login", "disconnecting", "disconnected"}

TypeOK ==
    /\ server \in Raw \ {"none"}
    /\ pipe \in Seq(Frames) /\ cut \in BOOLEAN /\ emitted \in 0..MaxMessages
    /\ asked \in Raw \cup {"logout"}
    /\ reply \in {"none", "ok", "rejected", "failed"}
    /\ view \in Views
    /\ dispatch \in {"none", "room", "receiving", "cancelled", "ended"}
    /\ queue \in Seq(0..MaxMessages) /\ Len(queue) <= Capacity
    /\ consumer \in {"off", "waiting", "busy", "over"}
    /\ delivered \in Seq(1..MaxMessages)
    /\ session \in Sessions
    /\ from \in Raw /\ steps \in 0..MaxSteps /\ retries \in 0..MaxRetries
    /\ closing \in BOOLEAN

Init ==
    /\ server = "parameters" /\ pipe = <<>> /\ cut = FALSE /\ emitted = 0
    /\ asked = "none" /\ reply = "none"
    /\ view = [raw |-> "none", state |-> "parameters", known |-> FALSE,
               closed |-> FALSE, fatal |-> FALSE]
    /\ dispatch = "none" /\ queue = <<>> /\ consumer = "off" /\ delivered = <<>>
    /\ session = "new" /\ from = "none" /\ steps = 0 /\ retries = 0
    /\ closing = FALSE

-----------------------------------------------------------------------------
(***************************************************************************)
(* TDLib.  A new instance asks for its parameters; a valid session on disk *)
(* is ready right after them.                                              *)
(***************************************************************************)
Follows(s) ==
    CASE s = "parameters" -> Prompted \cup {"ready", "unsupported"}
      [] s = "phone" -> {"code", "unsupported"}
      [] s = "code" -> {"password", "ready"}
      [] s = "password" -> {"ready"}
      [] s = "logout" -> {"logged_out"}
      [] OTHER -> {}

Moves(s) == server' = s /\ pipe' = Append(pipe, Auth(s))

\* The step a request must find TDLib at.
Meant(a) == IF a = "logout" THEN "ready" ELSE a

Pending == asked # "none" /\ reply = "none" /\ session \in {"sending", "requesting", "leaving"}

Accept ==
    /\ Pending /\ ~cut /\ server = Meant(asked)
    /\ \E s \in Follows(asked) : Moves(s)
    /\ reply' = "ok"
    /\ UNCHANGED <<cut, emitted, asked, view, dispatch, stream, flow, closing>>

\* A wrong credential, or a step TDLib is no longer at, or no answer at all.
Refuse ==
    /\ Pending
    /\ reply' \in {"failed"} \cup IF asked \in Prompted THEN {"rejected"} ELSE {}
    /\ UNCHANGED <<tdlib, asked, view, dispatch, stream, flow, closing>>

\* Telegram ends the session from its side.
ServerCloses ==
    /\ session # "new" /\ ~cut /\ server # "closed"
    /\ Moves(IF server = "ready" THEN "logged_out" ELSE "closed")
    /\ UNCHANGED <<cut, emitted, request, view, dispatch, stream, flow, closing>>

EmitMessage ==
    /\ server = "ready" /\ ~cut /\ emitted < MaxMessages
    /\ emitted' = emitted + 1
    /\ pipe' = Append(pipe, Message(emitted + 1))
    /\ UNCHANGED <<server, cut, request, view, dispatch, stream, flow, closing>>

ClientFails ==
    /\ session # "new" /\ ~cut /\ cut' = TRUE
    /\ UNCHANGED <<server, pipe, emitted, request, view, dispatch, stream, flow, closing>>

-----------------------------------------------------------------------------
(***************************************************************************)
(* The dispatch loop: room in the queue first, then a frame.               *)
(***************************************************************************)
HasRoom == Len(queue) < Capacity \/ closing

AwaitRoom ==
    /\ dispatch = "room" /\ HasRoom
    /\ dispatch' = "receiving"
    /\ UNCHANGED <<tdlib, request, view, stream, flow, closing>>

\* _on_authorization; what is fatal is kept for the session to raise.
OnAuthorization(s) ==
    /\ view' = [view EXCEPT !.raw = s, !.known = TRUE,
                            !.closed = @ \/ s = "closed",
                            !.fatal = @ \/ s = "unsupported",
                            !.state = IF s \in Dead THEN @ ELSE s]
    /\ UNCHANGED queue

\* Mutant: an update that finds the queue half full is let go.
OfferSome(n) == queue' = IF 2 * Len(queue) < Capacity THEN Append(queue, n) ELSE queue

Offer(n) == queue' = IF closing THEN queue ELSE Append(queue, n)

HandleFrame ==
    /\ dispatch = "receiving" /\ pipe # <<>>
    /\ pipe' = Tail(pipe)
    /\ IF Head(pipe)[1] = "auth" THEN OnAuthorization(Head(pipe)[2])
                                 ELSE Offer(Head(pipe)[2]) /\ UNCHANGED view
    /\ dispatch' = "room"
    /\ UNCHANGED <<server, cut, emitted, request, consumer, delivered, flow, closing>>

\* The end is put without waiting, and a full queue is ignored.
EndStream == queue' = IF Len(queue) < Capacity THEN Append(queue, End) ELSE queue

ClientEnded ==
    /\ dispatch = "receiving" /\ pipe = <<>> /\ cut
    /\ view' = [view EXCEPT !.closed = TRUE, !.known = TRUE]
    /\ EndStream
    /\ dispatch' = "ended"
    /\ UNCHANGED <<tdlib, request, consumer, delivered, flow, closing>>

\* CancelledError ends the loop at either await, before another frame.
DispatchStops ==
    /\ dispatch = "cancelled" /\ dispatch' = "ended"
    /\ UNCHANGED <<tdlib, request, view, stream, flow, closing>>

-----------------------------------------------------------------------------
(***************************************************************************)
(* The consumer of updates().                                              *)
(***************************************************************************)
Subscribe ==
    /\ session = "signed_in" /\ consumer = "off"
    /\ consumer' = "waiting"
    /\ UNCHANGED <<tdlib, request, view, dispatch, queue, delivered, flow, closing>>

TakeUpdate ==
    /\ consumer = "waiting" /\ queue # <<>>
    /\ queue' = Tail(queue)
    /\ IF Head(queue) = End
       THEN consumer' = "over" /\ UNCHANGED delivered
       ELSE consumer' = "busy" /\ delivered' = Append(delivered, Head(queue))
    /\ UNCHANGED <<tdlib, request, view, dispatch, flow, closing>>

NextUpdate ==
    /\ consumer = "busy" /\ consumer' = "waiting"
    /\ UNCHANGED <<tdlib, request, view, dispatch, queue, delivered, flow, closing>>

CancelConsumer ==
    /\ consumer \in {"waiting", "busy"} /\ consumer' = "over"
    /\ UNCHANGED <<tdlib, request, view, dispatch, queue, delivered, flow, closing>>

-----------------------------------------------------------------------------
(***************************************************************************)
(* The session: connect(), start_authorization(), logout(), disconnect().  *)
(***************************************************************************)
Go(s) == session' = s

Ask(a) == asked' = a /\ reply' = "none"

\* _raise_if_fatal
OrRaise(s) ==
    /\ Go(IF view.fatal THEN "failing" ELSE s)
    /\ view' = [view EXCEPT !.fatal = FALSE]

Connect ==
    /\ session = "new" /\ Go("starting")
    /\ dispatch' = "room"
    /\ pipe' = Append(pipe, Auth(server))
    /\ UNCHANGED <<server, cut, emitted, request, view, stream, from, steps, retries, closing>>

Known ==
    /\ session = "starting" /\ view.known
    /\ IF view.raw = "parameters"
       THEN Go("sending") /\ Ask("parameters") /\ from' = "parameters" /\ UNCHANGED view
       ELSE OrRaise("connected") /\ UNCHANGED <<request, from>>
    /\ UNCHANGED <<tdlib, dispatch, stream, steps, retries, closing>>

ParametersAnswered ==
    /\ session = "sending" /\ reply # "none"
    /\ Go(IF reply = "ok" THEN "settling" ELSE "failing")
    /\ UNCHANGED <<tdlib, request, view, dispatch, stream, from, steps, retries, closing>>

\* Mutant: nobody waits for the report.
AtOnce == TRUE

Changed == view.raw # from \/ view.closed

Settle ==
    /\ session = "settling" /\ Changed
    /\ OrRaise("connected")
    /\ UNCHANGED <<tdlib, request, dispatch, stream, from, steps, retries, closing>>

StartLogin ==
    /\ session = "connected" /\ Go("login")
    /\ UNCHANGED <<tdlib, request, view, dispatch, stream, from, steps, retries, closing>>

\* Ready is looked at before closed: a session that is both is signed in.
LoginEnds ==
    /\ session = "login"
    /\ \/ steps = MaxSteps /\ Go("failing") /\ UNCHANGED view
       \/ steps < MaxSteps /\ view.fatal /\ OrRaise("login")
       \/ /\ steps < MaxSteps /\ ~view.fatal /\ UNCHANGED view
          /\ \/ view.state = "ready" /\ Go("signed_in")
             \/ view.state # "ready" /\ view.closed /\ Go("failing")
    /\ UNCHANGED <<tdlib, request, dispatch, stream, from, steps, retries, closing>>

LoginStep ==
    /\ session = "login" /\ steps < MaxSteps
    /\ ~view.fatal /\ ~view.closed /\ view.state # "ready"
    /\ from' = view.raw
    /\ steps' = steps + 1
    /\ IF view.state \in Prompted
       THEN Go("asking") /\ UNCHANGED asked
       ELSE Go("changing") /\ asked' = "none"
    /\ UNCHANGED <<tdlib, reply, view, dispatch, stream, retries, closing>>

\* The operator has answered the prompt.
Submit ==
    /\ session = "asking" /\ Go("requesting")
    /\ Ask(from)
    /\ UNCHANGED <<tdlib, view, dispatch, stream, from, steps, retries, closing>>

\* Mutant: the state to change from is read when the answer is there.
ReadAgain == from' = view.raw

ReadBefore == from' = from

Submitted ==
    /\ session = "requesting"
    /\ \/ /\ reply = "ok" /\ Go("changing")
          /\ ReadBefore /\ UNCHANGED retries
       \/ /\ reply = "rejected" /\ retries < MaxRetries
          /\ Go("asking")
          /\ retries' = retries + 1 /\ UNCHANGED from
       \/ /\ reply \in {"rejected", "failed"} /\ Go("failing")
          /\ UNCHANGED <<from, retries>>
    /\ UNCHANGED <<tdlib, request, view, dispatch, stream, steps, closing>>

Change ==
    /\ session = "changing" /\ Changed
    /\ OrRaise("login")
    /\ UNCHANGED <<tdlib, request, dispatch, stream, from, steps, retries, closing>>

WaitTimesOut ==
    /\ \/ session = "starting" /\ ~view.known
       \/ session \in {"settling", "changing"} /\ ~Changed
    /\ Go("timed_out")
    /\ UNCHANGED <<tdlib, request, view, dispatch, stream, from, steps, retries, closing>>

LogOut ==
    /\ session = "signed_in" /\ Go("leaving")
    /\ Ask("logout")
    /\ UNCHANGED <<tdlib, view, dispatch, stream, from, steps, retries, closing>>

LogOutAnswered ==
    /\ session = "leaving" /\ reply # "none"
    /\ Go(IF reply = "ok" THEN "parting" ELSE "failing")
    /\ UNCHANGED <<tdlib, request, view, dispatch, stream, from, steps, retries, closing>>

\* It waits for one state only, and a timeout is as good.
Part ==
    /\ session = "parting" /\ Go("signed_out")
    /\ UNCHANGED <<tdlib, request, view, dispatch, stream, from, steps, retries, closing>>

Interrupt ==
    /\ session \in Waits \cup Holds /\ Go("failing")
    /\ UNCHANGED <<tdlib, request, view, dispatch, stream, from, steps, retries, closing>>

\* Mutant: a loop that waits for room is left to find out by itself.
CancelReader == dispatch' = IF dispatch = "receiving" THEN "cancelled" ELSE dispatch

CancelDispatch == dispatch' = IF dispatch = "ended" THEN dispatch ELSE "cancelled"

Disconnect ==
    /\ session \in Leaves \cup Holds /\ Go("disconnecting")
    /\ closing' = TRUE
    /\ EndStream
    /\ CancelDispatch
    /\ UNCHANGED <<tdlib, request, view, consumer, delivered, from, steps, retries>>

Disconnected ==
    /\ session = "disconnecting" /\ dispatch = "ended" /\ Go("disconnected")
    /\ cut' = TRUE
    /\ UNCHANGED <<server, pipe, emitted, request, view, dispatch, stream, from, steps,
                   retries, closing>>

-----------------------------------------------------------------------------
Tdlib == Accept \/ Refuse \/ ServerCloses \/ EmitMessage \/ ClientFails

Dispatch == AwaitRoom \/ HandleFrame \/ ClientEnded \/ DispatchStops

Consumer == Subscribe \/ TakeUpdate \/ NextUpdate \/ CancelConsumer

Session ==
    \/ Connect \/ Known \/ ParametersAnswered \/ Settle
    \/ StartLogin \/ LoginEnds \/ LoginStep \/ Submit \/ Submitted \/ Change
    \/ LogOut \/ LogOutAnswered \/ Part
    \/ WaitTimesOut \/ Interrupt \/ Disconnect \/ Disconnected

Next == Tdlib \/ Dispatch \/ Consumer \/ Session

Spec == Init /\ [][Next]_vars

\* The loop runs the dispatch task and the end of disconnect().
FairSpec == Spec /\ WF_vars(Dispatch) /\ WF_vars(Disconnected)

-----------------------------------------------------------------------------
(***************************************************************************)
(* Properties.                                                             *)
(***************************************************************************)
Messages == {"message"} \X (1..MaxMessages)

\* Everything on its way from TDLib to the consumer, oldest first.
Way == [i \in DOMAIN delivered |-> Message(delivered[i])]
           \o [i \in DOMAIN queue |-> Message(queue[i])] \o pipe

\* Until disconnect() every message TDLib reported is delivered, queued or
\* still with the client, once and in order: a full queue holds the loop back
\* and nothing is dropped.
StreamIsWhole ==
    ~closing =>
        /\ {Way[i] : i \in DOMAIN Way} \cap Messages = {Message(n) : n \in 1..emitted}
        /\ \A i, k \in DOMAIN Way :
              i < k /\ Way[i] \in Messages /\ Way[k] \in Messages => Way[i][2] < Way[k][2]

\* The operator is not asked again for a credential TDLib has accepted, however
\* late the report of what it led to is read.
AcceptedOnce == session = "asking" /\ reply = "ok" => from # asked

\* A wait that gives up was not told anything it waited for: TDLib is still at
\* the step the session acted on, or what it reported has not been read.
Unheard == (\E i \in DOMAIN pipe : pipe[i][1] = "auth") \/ (cut /\ dispatch # "ended")

TimeoutMeansSilence ==
    [][session # "timed_out" /\ session' = "timed_out"
          => Unheard \/ server = IF asked = "none" THEN from ELSE asked]_vars

\* disconnect() returns, also when the dispatch loop waits for room in a queue
\* nobody drains.
DisconnectReturns == session = "disconnecting" ~> session = "disconnected"
=============================================================================
