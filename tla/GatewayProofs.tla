--------------------------- MODULE GatewayProofs ---------------------------
(***************************************************************************)
(* Theorems of Gateway, for any capacity, messages, steps and retries.     *)
(***************************************************************************)
EXTENDS Gateway, TLAPS

-----------------------------------------------------------------------------
(***************************************************************************)
(* The authorization only moves forward.                                   *)
(***************************************************************************)
Rank(s) ==
    CASE s = "none" -> 0
      [] s = "parameters" -> 1
      [] s = "phone" -> 2
      [] s = "code" -> 3
      [] s = "password" -> 4
      [] s \in {"ready", "unsupported"} -> 5
      [] s = "logged_out" -> 6
      [] s = "closed" -> 7
      [] OTHER -> 8

IsAuth(frame) == frame[1] = "auth"

\* Reports come in the order of the steps, each later than the view, and the
\* last one is where TDLib is: nothing is reported twice and nothing is missing.
Reports ==
    /\ \A i \in DOMAIN pipe : IsAuth(pipe[i]) =>
          Rank(view.raw) < Rank(pipe[i][2]) /\ Rank(pipe[i][2]) <= Rank(server)
    /\ \A i, k \in DOMAIN pipe : i < k /\ IsAuth(pipe[i]) /\ IsAuth(pipe[k]) =>
          Rank(pipe[i][2]) < Rank(pipe[k][2])
    /\ session # "new" => view.raw = server \/ \E i \in DOMAIN pipe : pipe[i] = Auth(server)
    /\ session = "new" =>
          view.raw = "none" /\ server = "parameters" /\ pipe = <<>> /\ ~cut

\* What the view says of the state last understood.
Viewed ==
    /\ view.state \in Prompted => Rank(view.state) <= Rank(view.raw)
    /\ session # "new" /\ ~view.known => \E i \in DOMAIN pipe : IsAuth(pipe[i])

Early == {"new", "starting", "sending", "settling", "connected"}

\* What the session remembers of its last request.
Asked ==
    /\ Rank(from) <= Rank(view.raw)
    /\ reply = "ok" => asked \in Prompted \cup {"none", "parameters", "logout"}
    /\ session \in {"new", "starting"} => asked = "none" /\ from = "none"
    /\ session \in Early => asked \in {"none", "parameters"}
    /\ session \in {"sending", "settling"} => asked = "parameters" /\ from = "parameters"
    /\ session = "requesting" => asked = from
    /\ session = "changing" => asked \in {"none", from}
    /\ session = "login" /\ reply = "ok" /\ asked \in Prompted =>
          Rank(asked) < Rank(view.raw) \/ view.closed
    /\ session \in {"asking", "requesting"} => 2 <= Rank(from)
    /\ session = "asking" /\ reply = "ok" /\ asked \in Prompted => Rank(asked) < Rank(from)

-----------------------------------------------------------------------------
(***************************************************************************)
(* Where the messages are.                                                 *)
(***************************************************************************)
Ended == queue # <<>> /\ queue[Len(queue)] = End

\* The messages that have been handed to the queue.
Handed == Len(delivered) + IF Ended THEN Len(queue) - 1 ELSE Len(queue)

IsMessage(frame) == frame[1] = "message"

\* The consumer has the first messages, the queue the next, the client the rest.
Placed ==
    /\ \A i \in DOMAIN delivered : delivered[i] = i
    /\ \A i \in DOMAIN queue : queue[i] = Len(delivered) + i \/ (i = Len(queue) /\ queue[i] = End)
    /\ Handed <= emitted
    /\ \A i \in DOMAIN pipe : IsMessage(pipe[i]) => pipe[i][2] \in (Handed + 1)..emitted
    /\ \A i, k \in DOMAIN pipe : i < k /\ IsMessage(pipe[i]) /\ IsMessage(pipe[k]) =>
          pipe[i][2] < pipe[k][2]
    /\ \A n \in (Handed + 1)..emitted : \E i \in DOMAIN pipe : pipe[i] = Message(n)

Flowing ==
    /\ ~closing => Placed
    /\ ~closing /\ Ended => cut /\ pipe = <<>> /\ dispatch = "ended"
    /\ dispatch = "receiving" => Len(queue) < Capacity \/ closing

GatewayInv == TypeOK /\ Reports /\ Viewed /\ Asked /\ Flowing

-----------------------------------------------------------------------------
(***************************************************************************)
(* Steps, frames and views.                                                *)
(***************************************************************************)
LEMMA Ranks ==
    /\ Rank("none") = 0 /\ Rank("parameters") = 1 /\ Rank("phone") = 2
    /\ Rank("code") = 3 /\ Rank("password") = 4 /\ Rank("ready") = 5
    /\ Rank("unsupported") = 5 /\ Rank("logged_out") = 6 /\ Rank("closed") = 7
BY DEF Rank

LEMMA RankOfRaw ==
    ASSUME NEW s \in Raw
    PROVE  /\ Rank(s) \in 0..7
           /\ Rank(s) = 0 <=> s = "none"
           /\ Rank(s) = 7 <=> s = "closed"
           /\ \A t \in Prompted : Rank(s) = Rank(t) => s = t
           /\ 2 <= Rank(s) => s \notin {"none", "parameters"}
<1>1. \/ s = "none" \/ s = "parameters" \/ s = "phone" \/ s = "code" \/ s = "password"
      \/ s = "ready" \/ s = "unsupported" \/ s = "logged_out" \/ s = "closed"
  BY DEF Raw, Reported, Prompted, Dead
<1>2. Rank(s) \in 0..7 /\ (Rank(s) = 0 <=> s = "none") /\ (Rank(s) = 7 <=> s = "closed")
  BY <1>1, Ranks
<1>3. /\ \A t \in Prompted : Rank(s) = Rank(t) => s = t
      /\ 2 <= Rank(s) => s \notin {"none", "parameters"}
  BY <1>1, Ranks DEF Prompted
<1> QED BY <1>2, <1>3

\* Whatever a request leads to is later than the step it was meant for.
LEMMA Later ==
    ASSUME NEW a, NEW s \in Follows(a)
    PROVE  /\ a \in Prompted \cup {"parameters", "logout"}
           /\ s \in Raw \ {"none"} /\ Rank(Meant(a)) < Rank(s)
<1>1. CASE a = "parameters"
  <2>1. s \in {"phone", "code", "password", "ready", "unsupported"} /\ Meant(a) = "parameters"
    BY <1>1 DEF Follows, Meant, Prompted
  <2> QED BY <1>1, <2>1, Ranks DEF Raw, Reported, Prompted, Dead
<1>2. CASE a = "phone"
  <2>1. s \in {"code", "unsupported"} /\ Meant(a) = "phone"
    BY <1>2 DEF Follows, Meant
  <2> QED BY <1>2, <2>1, Ranks DEF Raw, Reported, Prompted, Dead
<1>3. CASE a = "code"
  <2>1. s \in {"password", "ready"} /\ Meant(a) = "code"
    BY <1>3 DEF Follows, Meant
  <2> QED BY <1>3, <2>1, Ranks DEF Raw, Reported, Prompted, Dead
<1>4. CASE a = "password"
  <2>1. s = "ready" /\ Meant(a) = "password"
    BY <1>4 DEF Follows, Meant
  <2> QED BY <1>4, <2>1, Ranks DEF Raw, Reported, Prompted, Dead
<1>5. CASE a = "logout"
  <2>1. s = "logged_out" /\ Meant(a) = "ready"
    BY <1>5 DEF Follows, Meant
  <2> QED BY <1>5, <2>1, Ranks DEF Raw, Reported, Prompted, Dead
<1>6. CASE a \notin {"parameters", "phone", "code", "password", "logout"}
  BY <1>6 DEF Follows
<1> QED BY <1>1, <1>2, <1>3, <1>4, <1>5, <1>6

LEMMA FrameIs ==
    ASSUME NEW f \in Frames
    PROVE  \/ IsAuth(f) /\ ~IsMessage(f) /\ f[2] \in Raw /\ f = Auth(f[2])
           \/ IsMessage(f) /\ ~IsAuth(f) /\ f[2] \in 1..MaxMessages /\ f = Message(f[2])
BY DEF Frames, IsAuth, IsMessage, Auth, Message

LEMMA AuthIs ==
    ASSUME NEW s \in Raw
    PROVE  /\ Auth(s) \in Frames /\ IsAuth(Auth(s)) /\ ~IsMessage(Auth(s))
           /\ Auth(s)[1] = "auth" /\ Auth(s)[2] = s
BY DEF Frames, IsAuth, IsMessage, Auth

LEMMA MessageIs ==
    ASSUME NEW n \in 1..MaxMessages
    PROVE  /\ Message(n) \in Frames /\ ~IsAuth(Message(n)) /\ IsMessage(Message(n))
           /\ Message(n)[1] = "message" /\ Message(n)[2] = n
BY DEF Frames, IsAuth, IsMessage, Message

LEMMA ViewIs ==
    ASSUME view \in Views
    PROVE  /\ view.raw \in Raw /\ view.state \in Reported
           /\ view.known \in BOOLEAN /\ view.closed \in BOOLEAN /\ view.fatal \in BOOLEAN
BY DEF Views

SameView == /\ view'.raw = view.raw /\ view'.state = view.state
            /\ view'.known = view.known /\ view'.closed = view.closed

LEMMA ViewCleared ==
    ASSUME view \in Views, view' = [view EXCEPT !.fatal = FALSE]
    PROVE  view' \in Views /\ SameView
BY DEF Views, SameView

LEMMA ViewReported ==
    ASSUME view \in Views, NEW s \in Raw \ {"none"}, OnAuthorization(s)
    PROVE  /\ view' \in Views /\ view'.raw = s /\ view'.known
           /\ view'.state = IF s \in Dead THEN view.state ELSE s
           /\ view.closed => view'.closed
<1> DEFINE closed == view.closed \/ s = "closed"
           fatal == view.fatal \/ s = "unsupported"
           state == IF s \in Dead THEN view.state ELSE s
<1>1. view' = [view EXCEPT !.raw = s, !.known = TRUE, !.closed = closed, !.fatal = fatal,
                           !.state = state]
  BY DEF OnAuthorization
<1>2. closed \in BOOLEAN /\ fatal \in BOOLEAN /\ (view.closed => closed)
  OBVIOUS
<1>3. state \in Reported
  BY ViewIs DEF Raw, Dead
<1> HIDE DEF closed, fatal, state
<1>4. view' \in Views
  BY <1>1, <1>2, <1>3 DEF Views
<1>5. view'.raw = s /\ view'.known = TRUE /\ view'.closed = closed /\ view'.state = state
  BY <1>1 DEF Views
<1> QED BY <1>2, <1>4, <1>5 DEF state

LEMMA ViewEnded ==
    ASSUME view \in Views, view' = [view EXCEPT !.closed = TRUE, !.known = TRUE]
    PROVE  /\ view' \in Views /\ view'.raw = view.raw /\ view'.state = view.state
           /\ view'.known /\ view'.closed
BY DEF Views

-----------------------------------------------------------------------------
(***************************************************************************)
(* The session's own steps: the stream and the reports stay as they are.   *)
(***************************************************************************)
LEMMA Types ==
    ASSUME TypeOK
    PROVE  /\ server \in Raw \ {"none"} /\ pipe \in Seq(Frames) /\ cut \in BOOLEAN
           /\ emitted \in 0..MaxMessages
           /\ asked \in Raw \cup {"logout"} /\ reply \in {"none", "ok", "rejected", "failed"}
           /\ view \in Views
           /\ dispatch \in {"none", "room", "receiving", "cancelled", "ended"}
           /\ queue \in Seq(0..MaxMessages) /\ Len(queue) <= Capacity
           /\ consumer \in {"off", "waiting", "busy", "over"}
           /\ delivered \in Seq(1..MaxMessages)
           /\ session \in Sessions
           /\ from \in Raw /\ steps \in 0..MaxSteps /\ retries \in 0..MaxRetries
           /\ closing \in BOOLEAN
BY DEF TypeOK

SameTypes ==
    /\ asked \in Raw \cup {"logout"} /\ reply \in {"none", "ok", "rejected", "failed"}
    /\ from \in Raw /\ steps \in 0..MaxSteps /\ retries \in 0..MaxRetries

Rests ==
    /\ UNCHANGED <<tdlib, dispatch, stream, closing>>
    /\ view' \in Views /\ SameView
    /\ session # "new" /\ session' \in Sessions \ {"new"}

LEMMA RestsKeeps ==
    ASSUME GatewayInv, Rests, SameTypes', Asked'
    PROVE  GatewayInv'
<1>1. UNCHANGED <<server, pipe, cut, emitted, dispatch, queue, consumer, delivered, closing>>
  BY DEF Rests, tdlib, stream
<1>2. TypeOK'
  BY <1>1 DEF GatewayInv, TypeOK, SameTypes, Rests
<1>3. Reports'
  BY <1>1 DEF GatewayInv, Reports, Rests, SameView, IsAuth, Auth
<1>4. Viewed'
  BY <1>1 DEF GatewayInv, Viewed, Rests, SameView, IsAuth
<1>5. Flowing'
  BY <1>1 DEF GatewayInv, Flowing, Placed, Handed, Ended, IsMessage
<1> QED BY <1>2, <1>3, <1>4, <1>5 DEF GatewayInv

LEMMA SessionStates ==
    /\ Waits \subseteq Sessions \ {"new"} /\ Holds \subseteq Sessions \ {"new"}
    /\ Leaves \subseteq Sessions \ {"new"}
    /\ {"login", "disconnecting", "disconnected"} \subseteq Sessions \ {"new"}
BY DEF Sessions, Waits, Holds, Leaves

\* The session goes on without asking anything.
LEMMA Moving ==
    ASSUME GatewayInv, NEW s \in Sessions \ {"new"}, session # "new", session' = s,
           UNCHANGED <<tdlib, request, dispatch, stream, from, steps, retries, closing>>,
           view' = view \/ view' = [view EXCEPT !.fatal = FALSE],
           s \notin Early, s \notin {"requesting", "changing", "asking", "login"}
    PROVE  GatewayInv'
<1>1. TypeOK /\ Asked
  BY DEF GatewayInv
<1>2. view' \in Views /\ SameView
  BY <1>1, Types, ViewCleared DEF SameView
<1>3. Rests
  BY <1>2 DEF Rests
<1>4. SameTypes'
  BY <1>1, Types DEF SameTypes, request
<1>5. Asked'
  BY <1>1, <1>2 DEF Asked, SameView, Early, request
<1> QED BY <1>3, <1>4, <1>5, RestsKeeps

LEMMA Starting ==
    ASSUME GatewayInv, Known \/ ParametersAnswered \/ Settle \/ StartLogin
    PROVE  GatewayInv'
<1>1. TypeOK /\ Asked
  BY DEF GatewayInv
<1>2. CASE Known
  <2>1. session = "starting" /\ asked = "none" /\ from = "none"
    BY <1>1, <1>2 DEF Known, Asked
  <2>2. CASE view.raw = "parameters"
    <3>1. /\ session' = "sending" /\ asked' = "parameters" /\ reply' = "none"
          /\ from' = "parameters" /\ view' = view
          /\ UNCHANGED <<tdlib, dispatch, stream, steps, retries, closing>>
      BY <1>2, <2>2 DEF Known, Go, Ask
    <3>2. Rests
      BY <1>1, <2>1, <3>1, Types, SessionStates DEF Rests, SameView, Waits
    <3>3. SameTypes'
      BY <1>1, <3>1, Types DEF SameTypes, Raw, Reported
    <3>4. Asked'
      BY <1>1, <2>2, <3>1, Types, ViewIs, RankOfRaw, SMTT(30) DEF Asked, Early
    <3> QED BY <3>2, <3>3, <3>4, RestsKeeps
  <2>3. CASE view.raw # "parameters"
    <3>1. /\ session' \in {"failing", "connected"} /\ view' = [view EXCEPT !.fatal = FALSE]
          /\ UNCHANGED <<asked, reply, from, tdlib, dispatch, stream, steps, retries, closing>>
      BY <1>2, <2>3 DEF Known, OrRaise, Go, request
    <3>2. view' \in Views /\ SameView
      BY <1>1, <3>1, Types, ViewCleared
    <3>3. Rests
      BY <2>1, <3>1, <3>2, SessionStates DEF Rests, Holds, Leaves
    <3>4. SameTypes'
      BY <1>1, <3>1, Types DEF SameTypes
    <3>5. Asked'
      BY <1>1, <2>1, <3>1, <3>2 DEF Asked, SameView, Early
    <3> QED BY <3>3, <3>4, <3>5, RestsKeeps
  <2> QED BY <2>2, <2>3
<1>3. CASE ParametersAnswered
  <2>1. /\ session = "sending" /\ session' \in {"settling", "failing"}
        /\ UNCHANGED <<asked, reply, from, view, tdlib, dispatch, stream, steps, retries, closing>>
    BY <1>3 DEF ParametersAnswered, Go, request
  <2>2. Rests
    BY <1>1, <2>1, Types, SessionStates DEF Rests, SameView, Waits, Leaves
  <2>3. SameTypes'
    BY <1>1, <2>1, Types DEF SameTypes
  <2>4. Asked'
    BY <1>1, <2>1 DEF Asked, Early
  <2> QED BY <2>2, <2>3, <2>4, RestsKeeps
<1>4. CASE Settle
  <2>1. /\ session = "settling" /\ session' \in {"connected", "failing"}
        /\ view' = [view EXCEPT !.fatal = FALSE]
        /\ UNCHANGED <<asked, reply, from, tdlib, dispatch, stream, steps, retries, closing>>
    BY <1>4 DEF Settle, OrRaise, Go, request
  <2>2. view' \in Views /\ SameView
    BY <1>1, <2>1, Types, ViewCleared
  <2>3. Rests
    BY <2>1, <2>2, SessionStates DEF Rests, Holds, Leaves
  <2>4. SameTypes'
    BY <1>1, <2>1, Types DEF SameTypes
  <2>5. Asked'
    BY <1>1, <2>1, <2>2 DEF Asked, SameView, Early
  <2> QED BY <2>3, <2>4, <2>5, RestsKeeps
<1>5. CASE StartLogin
  <2>1. /\ session = "connected" /\ session' = "login"
        /\ UNCHANGED <<asked, reply, from, view, tdlib, dispatch, stream, steps, retries, closing>>
    BY <1>5 DEF StartLogin, Go, request
  <2>2. Rests
    BY <1>1, <2>1, Types, SessionStates DEF Rests, SameView
  <2>3. SameTypes'
    BY <1>1, <2>1, Types DEF SameTypes
  <2>4. Asked'
    BY <1>1, <2>1 DEF Asked, Early, Prompted
  <2> QED BY <2>2, <2>3, <2>4, RestsKeeps
<1> QED BY <1>2, <1>3, <1>4, <1>5

LEMMA LoggingIn ==
    ASSUME GatewayInv, LoginEnds \/ LoginStep \/ Submit \/ Submitted \/ Change
    PROVE  GatewayInv'
<1>1. TypeOK /\ Asked /\ Viewed
  BY DEF GatewayInv
<1>2. CASE LoginEnds
  <2>1. /\ session = "login" /\ session' \in {"failing", "signed_in"}
        /\ view' = view \/ view' = [view EXCEPT !.fatal = FALSE]
        /\ UNCHANGED <<tdlib, request, dispatch, stream, from, steps, retries, closing>>
    BY <1>2 DEF LoginEnds, OrRaise, Go
  <2>2. /\ session' \in Sessions \ {"new"} /\ session' \notin Early
        /\ session' \notin {"requesting", "changing", "asking", "login"}
    BY <2>1, SessionStates DEF Holds, Leaves, Early
  <2> QED BY <2>1, <2>2, Moving
<1>3. CASE LoginStep
  <2>1. /\ session = "login" /\ steps < MaxSteps /\ ~view.closed
        /\ from' = view.raw /\ steps' = steps + 1
        /\ \/ session' = "asking" /\ view.state \in Prompted /\ asked' = asked
           \/ session' = "changing" /\ asked' = "none"
        /\ UNCHANGED <<tdlib, reply, view, dispatch, stream, retries, closing>>
    BY <1>3 DEF LoginStep, Go
  <2>2. Rests
    BY <1>1, <2>1, Types, SessionStates DEF Rests, SameView, Waits
  <2>3. SameTypes'
    <3>1. steps' \in 0..MaxSteps
      BY <1>1, <2>1, Types, BoundsAssumption
    <3> QED BY <1>1, <2>1, <3>1, Types, ViewIs DEF SameTypes, Raw
  <2>4. view.state \in Prompted => 2 <= Rank(view.raw)
    <3>1. view.raw \in Raw
      BY <1>1, Types, ViewIs
    <3>2. \A s \in Prompted : 2 <= Rank(s)
      BY Ranks DEF Prompted
    <3>3. \A s \in Prompted : Rank(s) \in Int
      BY Ranks DEF Prompted
    <3>4. Rank(view.raw) \in Int
      BY <3>1, RankOfRaw
    <3> QED BY <1>1, <3>2, <3>3, <3>4 DEF Viewed
  <2>5. Rank(from') <= Rank(view'.raw)
    <3>1. Rank(view.raw) \in Int
      BY <1>1, Types, ViewIs, RankOfRaw
    <3>2. from' = view.raw /\ view'.raw = view.raw
      BY <2>1
    <3> QED BY <3>1, <3>2
  <2>6. Asked'
    BY <1>1, <2>1, <2>4, <2>5 DEF Asked, Early, Prompted
  <2> QED BY <2>2, <2>3, <2>6, RestsKeeps
<1>4. CASE Submit
  <2>1. /\ session = "asking" /\ session' = "requesting" /\ asked' = from /\ reply' = "none"
        /\ UNCHANGED <<tdlib, view, dispatch, stream, from, steps, retries, closing>>
    BY <1>4 DEF Submit, Go, Ask
  <2>2. Rests
    BY <1>1, <2>1, Types, SessionStates DEF Rests, SameView, Waits
  <2>3. SameTypes'
    BY <1>1, <2>1, Types DEF SameTypes
  <2>4. Asked'
    BY <1>1, <2>1 DEF Asked, Early
  <2> QED BY <2>2, <2>3, <2>4, RestsKeeps
<1>5. CASE Submitted
  <2>1. /\ session = "requesting" /\ session' \in {"changing", "asking", "failing"}
        /\ session' = "asking" => reply = "rejected" /\ retries < MaxRetries
        /\ retries' \in {retries, retries + 1} /\ (retries' # retries => session' = "asking")
        /\ UNCHANGED <<asked, reply, from, view, tdlib, dispatch, stream, steps, closing>>
    BY <1>5 DEF Submitted, Go, ReadBefore, request
  <2>2. Rests
    BY <1>1, <2>1, Types, SessionStates DEF Rests, SameView, Waits, Leaves
  <2>3. SameTypes'
    <3>1. retries' \in 0..MaxRetries
      BY <1>1, <2>1, Types, BoundsAssumption
    <3> QED BY <1>1, <2>1, <3>1, Types DEF SameTypes
  <2>4. Asked'
    BY <1>1, <2>1 DEF Asked, Early
  <2> QED BY <2>2, <2>3, <2>4, RestsKeeps
<1>6. CASE Change
  <2>1. /\ session = "changing" /\ session' \in {"login", "failing"} /\ Changed
        /\ view' = [view EXCEPT !.fatal = FALSE]
        /\ UNCHANGED <<asked, reply, from, tdlib, dispatch, stream, steps, retries, closing>>
    BY <1>6 DEF Change, OrRaise, Go, request
  <2>2. view' \in Views /\ SameView
    BY <1>1, <2>1, Types, ViewCleared
  <2>3. Rests
    BY <2>1, <2>2, SessionStates DEF Rests, Leaves
  <2>4. SameTypes'
    BY <1>1, <2>1, Types DEF SameTypes
  <2>5. asked \in Prompted => Rank(asked) < Rank(view.raw) \/ view.closed
    <3> SUFFICES ASSUME asked \in Prompted, ~view.closed
                 PROVE  Rank(asked) < Rank(view.raw)
      OBVIOUS
    <3>1. asked = from /\ view.raw # from
      BY <1>1, <2>1 DEF Asked, Changed, Prompted
    <3>2. view.raw \in Raw /\ from \in Raw
      BY <1>1, Types, ViewIs
    <3>3. Rank(view.raw) # Rank(from)
      BY <3>1, <3>2, RankOfRaw
    <3>4. Rank(view.raw) \in Int /\ Rank(from) \in Int
      BY <3>2, RankOfRaw
    <3> QED BY <1>1, <3>1, <3>3, <3>4 DEF Asked
  <2>6. Asked'
    BY <1>1, <2>1, <2>2, <2>5 DEF Asked, SameView, Early
  <2> QED BY <2>3, <2>4, <2>6, RestsKeeps
<1> QED BY <1>2, <1>3, <1>4, <1>5, <1>6

LEMMA Leaving ==
    ASSUME GatewayInv, LogOut \/ LogOutAnswered \/ Part \/ WaitTimesOut \/ Interrupt
    PROVE  GatewayInv'
<1>1. TypeOK /\ Asked
  BY DEF GatewayInv
<1>2. CASE LogOut
  <2>1. /\ session = "signed_in" /\ session' = "leaving" /\ asked' = "logout" /\ reply' = "none"
        /\ UNCHANGED <<tdlib, view, dispatch, stream, from, steps, retries, closing>>
    BY <1>2 DEF LogOut, Go, Ask
  <2>2. Rests
    BY <1>1, <2>1, Types, SessionStates DEF Rests, SameView, Waits
  <2>3. SameTypes'
    BY <1>1, <2>1, Types DEF SameTypes
  <2>4. Asked'
    BY <1>1, <2>1 DEF Asked, Early
  <2> QED BY <2>2, <2>3, <2>4, RestsKeeps
<1>3. CASE LogOutAnswered
  <2>1. /\ session = "leaving" /\ session' \in {"parting", "failing"}
        /\ UNCHANGED <<tdlib, request, view, dispatch, stream, from, steps, retries, closing>>
    BY <1>3 DEF LogOutAnswered, Go
  <2> QED BY <2>1, SessionStates, Moving DEF Waits, Leaves, Early
<1>4. CASE Part
  <2>1. /\ session = "parting" /\ session' = "signed_out"
        /\ UNCHANGED <<tdlib, request, view, dispatch, stream, from, steps, retries, closing>>
    BY <1>4 DEF Part, Go
  <2> QED BY <2>1, SessionStates, Moving DEF Waits, Leaves, Early
<1>5. CASE WaitTimesOut
  <2>1. /\ session \in {"starting", "settling", "changing"} /\ session' = "timed_out"
        /\ UNCHANGED <<tdlib, request, view, dispatch, stream, from, steps, retries, closing>>
    BY <1>5 DEF WaitTimesOut, Go
  <2> QED BY <2>1, SessionStates, Moving DEF Waits, Leaves, Early
<1>6. CASE Interrupt
  <2>1. /\ session \in Waits \cup Holds /\ session' = "failing"
        /\ UNCHANGED <<tdlib, request, view, dispatch, stream, from, steps, retries, closing>>
    BY <1>6 DEF Interrupt, Go
  <2> QED BY <2>1, SessionStates, Moving DEF Waits, Leaves, Early
<1> QED BY <1>2, <1>3, <1>4, <1>5, <1>6

-----------------------------------------------------------------------------
(***************************************************************************)
(* TDLib's steps.                                                          *)
(***************************************************************************)
LEMMA Appended ==
    ASSUME NEW S, NEW s \in Seq(S), NEW e \in S
    PROVE  /\ Append(s, e) \in Seq(S) /\ Len(Append(s, e)) = Len(s) + 1
           /\ DOMAIN Append(s, e) = (DOMAIN s) \cup {Len(s) + 1}
           /\ \A i \in DOMAIN s : Append(s, e)[i] = s[i] /\ i < Len(s) + 1 /\ i \in Nat
           /\ Append(s, e)[Len(s) + 1] = e
           /\ Len(s) + 1 \notin DOMAIN s
OBVIOUS

LEMMA Removed ==
    ASSUME NEW S, NEW s \in Seq(S), s # <<>>
    PROVE  /\ Head(s) \in S /\ Head(s) = s[1] /\ 1 \in DOMAIN s
           /\ Tail(s) \in Seq(S) /\ Len(Tail(s)) = Len(s) - 1
           /\ \A i \in DOMAIN Tail(s) : Tail(s)[i] = s[i + 1] /\ i + 1 \in DOMAIN s /\ i \in Nat /\ 0 < i
           /\ \A i \in DOMAIN s : i # 1 => i - 1 \in DOMAIN Tail(s) /\ Tail(s)[i - 1] = s[i]
OBVIOUS

\* The view is never ahead of TDLib.
LEMMA NotAhead ==
    ASSUME TypeOK, Reports
    PROVE  Rank(view.raw) <= Rank(server) /\ Rank(view.raw) \in Nat /\ Rank(server) \in Nat
<1>1. view.raw \in Raw /\ server \in Raw /\ pipe \in Seq(Frames)
  BY Types, ViewIs
<1>2. Rank(view.raw) \in 0..7 /\ Rank(server) \in 0..7
  BY <1>1, RankOfRaw
<1>3. CASE session = "new"
  BY <1>2, <1>3, Ranks DEF Reports
<1>4. CASE view.raw = server
  BY <1>2, <1>4
<1>5. CASE \E i \in DOMAIN pipe : pipe[i] = Auth(server)
  BY <1>1, <1>2, <1>5, AuthIs DEF Reports
<1> QED BY <1>2, <1>3, <1>4, <1>5 DEF Reports

LEMMA ReportAdded ==
    ASSUME TypeOK, Reports, Viewed, Flowing, ~cut, session # "new",
           NEW s \in Raw \ {"none"}, Rank(server) < Rank(s), Moves(s),
           UNCHANGED <<cut, emitted, view, dispatch, stream, session, closing>>
    PROVE  pipe' \in Seq(Frames) /\ Reports' /\ Viewed' /\ Flowing'
<1> DEFINE f == Auth(s)
<1>1. pipe \in Seq(Frames) /\ s \in Raw /\ server' = s
  BY Types DEF Moves
<1>2. f \in Frames /\ IsAuth(f) /\ ~IsMessage(f) /\ f[2] = s
  BY <1>1, AuthIs
<1>3. pipe' = Append(pipe, f)
  BY DEF Moves
<1>4. f = Auth(s)
  OBVIOUS
<1> HIDE DEF f
<1>5. /\ pipe' \in Seq(Frames) /\ DOMAIN pipe' = (DOMAIN pipe) \cup {Len(pipe) + 1}
      /\ \A i \in DOMAIN pipe : pipe'[i] = pipe[i] /\ i < Len(pipe) + 1 /\ i \in Nat
      /\ pipe'[Len(pipe) + 1] = f /\ Len(pipe) \in Nat
  BY <1>1, <1>2, <1>3, Appended
<1>6. Rank(view.raw) < Rank(s) /\ Rank(s) \in Nat /\ Rank(server) \in Nat
  BY <1>1, NotAhead, RankOfRaw
<1>7. Reports'
  <2>1. \A i \in DOMAIN pipe : IsAuth(pipe[i]) =>
            /\ pipe[i][2] \in Raw /\ Rank(pipe[i][2]) \in Nat
            /\ Rank(view.raw) < Rank(pipe[i][2]) /\ Rank(pipe[i][2]) < Rank(s)
    <3> SUFFICES ASSUME NEW i \in DOMAIN pipe, IsAuth(pipe[i])
                 PROVE  /\ pipe[i][2] \in Raw /\ Rank(pipe[i][2]) \in Nat
                        /\ Rank(view.raw) < Rank(pipe[i][2]) /\ Rank(pipe[i][2]) < Rank(s)
      OBVIOUS
    <3>1. pipe[i] \in Frames
      BY <1>1
    <3>2. pipe[i][2] \in Raw
      BY <3>1, FrameIs
    <3>3. Rank(pipe[i][2]) \in Nat
      BY <3>2, RankOfRaw
    <3>4. Rank(view.raw) < Rank(pipe[i][2]) /\ Rank(pipe[i][2]) <= Rank(server)
      BY DEF Reports
    <3> QED BY <1>6, <3>2, <3>3, <3>4
  <2>2. \A i \in DOMAIN pipe' : IsAuth(pipe'[i]) =>
            Rank(view'.raw) < Rank(pipe'[i][2]) /\ Rank(pipe'[i][2]) <= Rank(server')
    BY <1>1, <1>2, <1>5, <1>6, <2>1 DEF IsAuth
  <2>3. \A i, k \in DOMAIN pipe' : i < k /\ IsAuth(pipe'[i]) /\ IsAuth(pipe'[k]) =>
            Rank(pipe'[i][2]) < Rank(pipe'[k][2])
    <3> SUFFICES ASSUME NEW i \in DOMAIN pipe', NEW k \in DOMAIN pipe', i < k,
                        IsAuth(pipe'[i]), IsAuth(pipe'[k])
                 PROVE  Rank(pipe'[i][2]) < Rank(pipe'[k][2])
      OBVIOUS
    <3>1. i \in DOMAIN pipe
      BY <1>5
    <3>2. CASE k \in DOMAIN pipe
      BY <1>5, <3>1, <3>2 DEF Reports
    <3>3. CASE k = Len(pipe) + 1
      BY <1>2, <1>5, <2>1, <3>1, <3>3
    <3> QED BY <1>5, <3>2, <3>3
  <2>4. \E i \in DOMAIN pipe' : pipe'[i] = Auth(server')
    BY <1>1, <1>4, <1>5
  <2>5. session' # "new"
    OBVIOUS
  <2> QED BY <2>2, <2>3, <2>4, <2>5 DEF Reports, IsAuth
<1>8. Viewed'
  BY <1>5 DEF Viewed, IsAuth
<1>9. Flowing'
  <2>1. UNCHANGED <<queue, delivered, emitted, closing, dispatch, cut>>
    BY DEF stream
  <2>2. ~closing => ~Ended
    BY DEF Flowing
  <2>3. Handed' = Handed /\ Ended' = Ended
    BY <2>1 DEF Handed, Ended
  <2>4. ASSUME ~closing PROVE Placed'
    <3>1. Placed
      BY <2>4 DEF Flowing
    <3>2. \A i \in DOMAIN pipe' : IsMessage(pipe'[i]) => i \in DOMAIN pipe /\ pipe'[i] = pipe[i]
      BY <1>2, <1>5
    <3>3. \A i \in DOMAIN pipe' : IsMessage(pipe'[i]) => pipe'[i][2] \in (Handed + 1)..emitted
      BY <3>1, <3>2 DEF Placed
    <3>4. \A i, k \in DOMAIN pipe' : i < k /\ IsMessage(pipe'[i]) /\ IsMessage(pipe'[k]) =>
              pipe'[i][2] < pipe'[k][2]
      BY <3>1, <3>2 DEF Placed
    <3>5. \A n \in (Handed + 1)..emitted : \E i \in DOMAIN pipe' : pipe'[i] = Message(n)
      BY <1>5, <3>1 DEF Placed
    <3> QED BY <2>1, <2>3, <3>1, <3>3, <3>4, <3>5 DEF Placed, IsMessage, Message
  <2> QED BY <2>1, <2>2, <2>3, <2>4 DEF Flowing
<1> QED BY <1>5, <1>7, <1>8, <1>9

LEMMA ServerMoves ==
    ASSUME GatewayInv, Accept \/ Refuse \/ ServerCloses
    PROVE  GatewayInv'
<1>1. TypeOK /\ Reports /\ Viewed /\ Asked /\ Flowing
  BY DEF GatewayInv
<1>2. CASE Accept
  <2>1. /\ ~cut /\ server = Meant(asked) /\ session \in {"sending", "requesting", "leaving"}
        /\ reply' = "ok"
        /\ UNCHANGED <<cut, emitted, asked, view, dispatch, stream, flow, closing>>
    BY <1>2 DEF Accept, Pending
  <2>2. PICK s \in Follows(asked) : Moves(s)
    BY <1>2 DEF Accept
  <2>3. s \in Raw \ {"none"} /\ Rank(server) < Rank(s)
        /\ asked \in Prompted \cup {"parameters", "logout"}
    BY <2>1, Later
  <2>4. UNCHANGED <<session, from, steps, retries>>
    BY <2>1 DEF flow
  <2>5. pipe' \in Seq(Frames) /\ Reports' /\ Viewed' /\ Flowing'
    BY <1>1, <2>1, <2>2, <2>3, <2>4, ReportAdded
  <2>6. TypeOK'
    BY <1>1, <2>1, <2>2, <2>3, <2>4, <2>5 DEF TypeOK, Moves, stream
  <2>7. Asked'
    BY <1>1, <2>1, <2>3, <2>4 DEF Asked, Early
  <2> QED BY <2>5, <2>6, <2>7 DEF GatewayInv
<1>3. CASE Refuse
  <2>1. /\ session \in {"sending", "requesting", "leaving"}
        /\ reply' \in {"failed", "rejected"}
        /\ UNCHANGED <<tdlib, asked, view, dispatch, stream, flow, closing>>
    BY <1>3 DEF Refuse, Pending
  <2>2. UNCHANGED <<session, from, steps, retries>>
    BY <2>1 DEF flow
  <2>3. Rests
    BY <1>1, <2>1, <2>2, Types DEF Rests, SameView
  <2>4. SameTypes'
    BY <1>1, <2>1, <2>2, Types DEF SameTypes
  <2>5. Asked'
    BY <1>1, <2>1, <2>2 DEF Asked, Early
  <2> QED BY <2>3, <2>4, <2>5, RestsKeeps
<1>4. CASE ServerCloses
  <2> DEFINE s == IF server = "ready" THEN "logged_out" ELSE "closed"
  <2>1. /\ ~cut /\ session # "new" /\ server # "closed" /\ Moves(s)
        /\ UNCHANGED <<cut, emitted, request, view, dispatch, stream, flow, closing>>
    BY <1>4 DEF ServerCloses
  <2>2. s \in Raw \ {"none"}
    BY DEF Raw, Reported, Dead
  <2>3. Rank(server) < Rank(s)
    <3>1. Rank(server) \in 0..7 /\ Rank(server) # 7
      BY <1>1, <2>1, Types, RankOfRaw
    <3> QED BY <3>1, Ranks
  <2> HIDE DEF s
  <2>4. UNCHANGED <<session, from, steps, retries, asked, reply>>
    BY <2>1 DEF flow, request
  <2>5. pipe' \in Seq(Frames) /\ Reports' /\ Viewed' /\ Flowing'
    BY <1>1, <2>1, <2>2, <2>3, <2>4, ReportAdded
  <2>6. TypeOK'
    BY <1>1, <2>1, <2>2, <2>4, <2>5 DEF TypeOK, Moves, stream
  <2>7. Asked'
    BY <1>1, <2>1, <2>4 DEF Asked, Early
  <2> QED BY <2>5, <2>6, <2>7 DEF GatewayInv
<1> QED BY <1>2, <1>3, <1>4

LEMMA MessageAdded ==
    ASSUME GatewayInv, EmitMessage
    PROVE  GatewayInv'
<1> DEFINE f == Message(emitted + 1)
<1>1. TypeOK /\ Reports /\ Viewed /\ Asked /\ Flowing
  BY DEF GatewayInv
<1>2. /\ server = "ready" /\ ~cut /\ emitted < MaxMessages /\ emitted' = emitted + 1
      /\ pipe' = Append(pipe, f)
      /\ UNCHANGED <<server, cut, request, view, dispatch, stream, flow, closing>>
  BY DEF EmitMessage
<1>3. /\ pipe \in Seq(Frames) /\ emitted \in Nat /\ emitted + 1 \in 1..MaxMessages
      /\ queue \in Seq(0..MaxMessages) /\ delivered \in Seq(1..MaxMessages)
  BY <1>1, <1>2, Types, BoundsAssumption
<1>4. f \in Frames /\ ~IsAuth(f) /\ IsMessage(f) /\ f[2] = emitted + 1
  BY <1>3, MessageIs
<1>5. f = Message(emitted + 1)
  OBVIOUS
<1> HIDE DEF f
<1>6. /\ pipe' \in Seq(Frames) /\ DOMAIN pipe' = (DOMAIN pipe) \cup {Len(pipe) + 1}
      /\ \A i \in DOMAIN pipe : pipe'[i] = pipe[i] /\ i < Len(pipe) + 1 /\ i \in Nat
      /\ pipe'[Len(pipe) + 1] = f /\ Len(pipe) \in Nat
  BY <1>2, <1>3, <1>4, Appended
<1>7. UNCHANGED <<server, cut, asked, reply, view, dispatch, queue, consumer, delivered,
                  session, from, steps, retries, closing>>
  BY <1>2 DEF request, stream, flow
<1>8. session # "new"
  BY <1>1, <1>2 DEF Reports
<1>9. TypeOK'
  BY <1>1, <1>3, <1>2, <1>6, <1>7 DEF TypeOK
<1>10. \A i \in DOMAIN pipe' : IsAuth(pipe'[i]) => i \in DOMAIN pipe /\ pipe'[i] = pipe[i]
  BY <1>4, <1>6
<1>11. Reports'
  <2>1. \A i \in DOMAIN pipe' : IsAuth(pipe'[i]) =>
            Rank(view'.raw) < Rank(pipe'[i][2]) /\ Rank(pipe'[i][2]) <= Rank(server')
    BY <1>1, <1>7, <1>10 DEF Reports
  <2>2. \A i, k \in DOMAIN pipe' : i < k /\ IsAuth(pipe'[i]) /\ IsAuth(pipe'[k]) =>
            Rank(pipe'[i][2]) < Rank(pipe'[k][2])
    BY <1>1, <1>10 DEF Reports
  <2>3. view'.raw = server' \/ \E i \in DOMAIN pipe' : pipe'[i] = Auth(server')
    BY <1>1, <1>6, <1>7, <1>8 DEF Reports
  <2> QED BY <1>7, <1>8, <2>1, <2>2, <2>3 DEF Reports, IsAuth, Auth
<1>12. Viewed'
  BY <1>1, <1>6, <1>7 DEF Viewed, IsAuth
<1>13. Asked'
  BY <1>1, <1>7 DEF Asked
<1>14. Flowing'
  <2>1. ~closing => ~Ended
    BY <1>1, <1>2 DEF Flowing
  <2>2. Handed' = Handed /\ Ended' = Ended /\ Handed \in Int
    BY <1>3, <1>7 DEF Handed, Ended
  <2>3. ASSUME ~closing PROVE Placed'
    <3>1. Placed
      BY <1>1, <2>3 DEF Flowing
    <3>2. \A i \in DOMAIN pipe' : \/ i \in DOMAIN pipe /\ pipe'[i] = pipe[i]
                                  \/ i = Len(pipe) + 1 /\ pipe'[i] = f
      BY <1>6
    <3>3. \A i \in DOMAIN pipe : IsMessage(pipe[i]) =>
              pipe[i][2] \in (Handed + 1)..(emitted + 1) /\ pipe[i][2] < emitted + 1
      BY <1>3, <2>2, <3>1 DEF Placed
    <3>4. \A i \in DOMAIN pipe' : IsMessage(pipe'[i]) => pipe'[i][2] \in (Handed + 1)..(emitted + 1)
      BY <1>3, <1>4, <2>2, <3>1, <3>2, <3>3 DEF Placed
    <3>5. \A i, k \in DOMAIN pipe' : i < k /\ IsMessage(pipe'[i]) /\ IsMessage(pipe'[k]) =>
              pipe'[i][2] < pipe'[k][2]
      <4> SUFFICES ASSUME NEW i \in DOMAIN pipe', NEW k \in DOMAIN pipe', i < k,
                          IsMessage(pipe'[i]), IsMessage(pipe'[k])
                   PROVE  pipe'[i][2] < pipe'[k][2]
        OBVIOUS
      <4>1. i \in DOMAIN pipe /\ pipe'[i] = pipe[i]
        BY <1>6
      <4>2. CASE k \in DOMAIN pipe
        BY <1>6, <3>1, <4>1, <4>2 DEF Placed
      <4>3. CASE k = Len(pipe) + 1
        BY <1>4, <1>6, <3>3, <4>1, <4>3
      <4> QED BY <1>6, <4>2, <4>3
    <3>6. \A n \in (Handed + 1)..(emitted + 1) : \E i \in DOMAIN pipe' : pipe'[i] = Message(n)
      <4> SUFFICES ASSUME NEW n \in (Handed + 1)..(emitted + 1)
                   PROVE  \E i \in DOMAIN pipe' : pipe'[i] = Message(n)
        OBVIOUS
      <4>1. CASE n = emitted + 1
        BY <1>5, <1>6, <4>1
      <4>2. CASE n # emitted + 1
        <5>1. n \in (Handed + 1)..emitted
          BY <1>3, <2>2, <4>2
        <5>2. PICK i \in DOMAIN pipe : pipe[i] = Message(n)
          BY <3>1, <5>1 DEF Placed
        <5> QED BY <1>6, <5>2
      <4> QED BY <4>1, <4>2
    <3>7. Handed <= emitted + 1
      BY <1>3, <2>2, <3>1 DEF Placed
    <3> QED BY <1>2, <1>7, <2>2, <3>1, <3>4, <3>5, <3>6, <3>7 DEF Placed, IsMessage, Message
  <2> QED BY <1>7, <2>1, <2>2, <2>3, <1>1 DEF Flowing
<1> QED BY <1>9, <1>11, <1>12, <1>13, <1>14 DEF GatewayInv

LEMMA Fails ==
    ASSUME GatewayInv, ClientFails
    PROVE  GatewayInv'
<1>1. TypeOK /\ Reports /\ Viewed /\ Asked /\ Flowing
  BY DEF GatewayInv
<1>2. /\ session # "new" /\ cut' = TRUE
      /\ UNCHANGED <<server, pipe, emitted, asked, reply, view, dispatch, queue, consumer,
                     delivered, session, from, steps, retries, closing>>
  BY DEF ClientFails, request, stream, flow
<1>3. TypeOK'
  BY <1>1, <1>2 DEF TypeOK
<1>4. Reports' /\ Viewed'
  BY <1>1, <1>2 DEF Reports, Viewed, IsAuth, Auth
<1>5. Asked'
  BY <1>1, <1>2 DEF Asked
<1>6. Flowing'
  BY <1>1, <1>2 DEF Flowing, Placed, Handed, Ended, IsMessage, Message
<1> QED BY <1>3, <1>4, <1>5, <1>6 DEF GatewayInv

-----------------------------------------------------------------------------
(***************************************************************************)
(* The dispatch loop and the consumer.                                     *)
(***************************************************************************)
\* A frame is taken that is a report.
LEMMA ReportRead ==
    ASSUME GatewayInv, pipe # <<>>, session # "new",
           pipe' = Tail(pipe), IsAuth(Head(pipe)), OnAuthorization(Head(pipe)[2]),
           dispatch' = "room",
           UNCHANGED <<server, cut, emitted, asked, reply, consumer, delivered,
                       session, from, steps, retries, closing>>
    PROVE  GatewayInv'
<1>1. TypeOK /\ Reports /\ Viewed /\ Asked /\ Flowing
  BY DEF GatewayInv
<1>2. pipe \in Seq(Frames) /\ view \in Views /\ queue' = queue /\ server \in Raw \ {"none"}
  BY <1>1, Types DEF OnAuthorization
<1>3. /\ Head(pipe) \in Frames /\ Head(pipe) = pipe[1] /\ 1 \in DOMAIN pipe
      /\ pipe' \in Seq(Frames)
      /\ \A i \in DOMAIN pipe' : pipe'[i] = pipe[i + 1] /\ i + 1 \in DOMAIN pipe /\ i \in Nat /\ 0 < i
      /\ \A i \in DOMAIN pipe : i # 1 => i - 1 \in DOMAIN pipe' /\ pipe'[i - 1] = pipe[i]
  BY <1>2, Removed
<1>4. PICK s : s = Head(pipe)[2]
  OBVIOUS
<1>5. s \in Raw /\ pipe[1] = Auth(s) /\ IsAuth(pipe[1]) /\ ~IsMessage(pipe[1]) /\ pipe[1][2] = s
  BY <1>3, <1>4, FrameIs
<1>6. /\ Rank(view.raw) < Rank(s) /\ Rank(s) <= Rank(server)
      /\ Rank(view.raw) \in Nat /\ Rank(s) \in Nat /\ Rank(server) \in Nat
  <2>1. Rank(view.raw) < Rank(s) /\ Rank(s) <= Rank(server)
    BY <1>1, <1>3, <1>5 DEF Reports
  <2> QED BY <1>1, <1>5, <2>1, NotAhead, RankOfRaw
<1>7. s # "none"
  BY <1>6, Ranks
<1>8. /\ view' \in Views /\ view'.raw = s /\ view'.known
      /\ view'.state = IF s \in Dead THEN view.state ELSE s
      /\ view.closed => view'.closed
  BY <1>2, <1>4, <1>5, <1>7, ViewReported
<1>9. TypeOK'
  BY <1>1, <1>2, <1>3, <1>8 DEF TypeOK
<1>10. Reports'
  <2>1. \A i \in DOMAIN pipe' : IsAuth(pipe'[i]) =>
            Rank(s) < Rank(pipe'[i][2]) /\ Rank(pipe'[i][2]) <= Rank(server)
    <3> SUFFICES ASSUME NEW i \in DOMAIN pipe', IsAuth(pipe'[i])
                 PROVE  Rank(s) < Rank(pipe'[i][2]) /\ Rank(pipe'[i][2]) <= Rank(server)
      OBVIOUS
    <3>1. pipe'[i] = pipe[i + 1] /\ i + 1 \in DOMAIN pipe /\ 1 < i + 1
      BY <1>3
    <3> QED BY <1>1, <1>3, <1>5, <3>1 DEF Reports
  <2>2. \A i, k \in DOMAIN pipe' : i < k /\ IsAuth(pipe'[i]) /\ IsAuth(pipe'[k]) =>
            Rank(pipe'[i][2]) < Rank(pipe'[k][2])
    <3> SUFFICES ASSUME NEW i \in DOMAIN pipe', NEW k \in DOMAIN pipe', i < k,
                        IsAuth(pipe'[i]), IsAuth(pipe'[k])
                 PROVE  Rank(pipe'[i][2]) < Rank(pipe'[k][2])
      OBVIOUS
    <3>1. /\ pipe'[i] = pipe[i + 1] /\ i + 1 \in DOMAIN pipe
          /\ pipe'[k] = pipe[k + 1] /\ k + 1 \in DOMAIN pipe /\ i + 1 < k + 1
      BY <1>3
    <3> QED BY <1>1, <3>1 DEF Reports
  <2>3. s = server \/ \E i \in DOMAIN pipe' : pipe'[i] = Auth(server)
    <3>1. CASE view.raw = server
      BY <1>6, <3>1
    <3>2. CASE \E i \in DOMAIN pipe : pipe[i] = Auth(server)
      <4>1. PICK i \in DOMAIN pipe : pipe[i] = Auth(server)
        BY <3>2
      <4>2. CASE i = 1
        BY <1>2, <1>5, <4>1, <4>2, AuthIs
      <4>3. CASE i # 1
        <5>1. i - 1 \in DOMAIN pipe' /\ pipe'[i - 1] = pipe[i]
          BY <1>3, <4>3
        <5> QED BY <4>1, <5>1
      <4> QED BY <4>2, <4>3
    <3> QED BY <1>1, <3>1, <3>2 DEF Reports
  <2> QED BY <1>8, <2>1, <2>2, <2>3 DEF Reports, IsAuth, Auth
<1>11. Viewed'
  <2>1. view'.state \in Prompted => Rank(view'.state) <= Rank(view'.raw)
    <3>1. CASE s \in Dead
      <4>1. view'.state = view.state
        BY <1>8, <3>1
      <4>2. view'.state \in Prompted => Rank(view'.state) \in Nat
        BY Ranks DEF Prompted
      <4> QED BY <1>1, <1>6, <1>8, <4>1, <4>2 DEF Viewed
    <3>2. CASE s \notin Dead
      BY <1>6, <1>8, <3>2
    <3> QED BY <3>1, <3>2
  <2> QED BY <1>8, <2>1 DEF Viewed
<1>12. Asked'
  <2>1. /\ Rank(from) \in Nat
        /\ asked \in Prompted => Rank(asked) \in Nat
    BY <1>1, Types, RankOfRaw, Ranks, SMTT(30) DEF Prompted
  <2> QED BY <1>1, <1>6, <1>8, <2>1 DEF Asked
<1>13. Flowing'
  <2>1. Handed' = Handed /\ Ended' = Ended
    BY <1>2 DEF Handed, Ended
  <2>2. ASSUME ~closing PROVE Placed'
    <3>1. Placed
      BY <1>1, <2>2 DEF Flowing
    <3>2. \A i \in DOMAIN pipe' : IsMessage(pipe'[i]) => pipe'[i][2] \in (Handed + 1)..emitted
      BY <1>3, <3>1 DEF Placed
    <3>3. \A i, k \in DOMAIN pipe' : i < k /\ IsMessage(pipe'[i]) /\ IsMessage(pipe'[k]) =>
              pipe'[i][2] < pipe'[k][2]
      <4> SUFFICES ASSUME NEW i \in DOMAIN pipe', NEW k \in DOMAIN pipe', i < k,
                          IsMessage(pipe'[i]), IsMessage(pipe'[k])
                   PROVE  pipe'[i][2] < pipe'[k][2]
        OBVIOUS
      <4>1. /\ pipe'[i] = pipe[i + 1] /\ i + 1 \in DOMAIN pipe
            /\ pipe'[k] = pipe[k + 1] /\ k + 1 \in DOMAIN pipe /\ i + 1 < k + 1
        BY <1>3
      <4> QED BY <3>1, <4>1 DEF Placed
    <3>4. \A n \in (Handed + 1)..emitted : \E i \in DOMAIN pipe' : pipe'[i] = Message(n)
      <4> SUFFICES ASSUME NEW n \in (Handed + 1)..emitted
                   PROVE  \E i \in DOMAIN pipe' : pipe'[i] = Message(n)
        OBVIOUS
      <4>1. PICK i \in DOMAIN pipe : pipe[i] = Message(n)
        BY <3>1 DEF Placed
      <4>2. i # 1
        BY <1>5, <4>1 DEF IsMessage, Message
      <4>3. i - 1 \in DOMAIN pipe' /\ pipe'[i - 1] = Message(n)
        BY <1>3, <4>1, <4>2
      <4> QED BY <4>3
    <3> QED BY <1>2, <2>1, <3>1, <3>2, <3>3, <3>4 DEF Placed, IsMessage, Message
  <2>3. ~closing /\ Ended => FALSE
    BY <1>1 DEF Flowing
  <2> QED BY <2>1, <2>2, <2>3 DEF Flowing
<1> QED BY <1>9, <1>10, <1>11, <1>12, <1>13 DEF GatewayInv

\* A frame is taken that is a message.
LEMMA MessageRead ==
    ASSUME GatewayInv, pipe # <<>>, session # "new", dispatch = "receiving",
           pipe' = Tail(pipe), ~IsAuth(Head(pipe)), Offer(Head(pipe)[2]),
           dispatch' = "room",
           UNCHANGED <<server, cut, emitted, asked, reply, view, consumer, delivered,
                       session, from, steps, retries, closing>>
    PROVE  GatewayInv'
<1>1. TypeOK /\ Reports /\ Viewed /\ Asked /\ Flowing
  BY DEF GatewayInv
<1>2. /\ pipe \in Seq(Frames) /\ queue \in Seq(0..MaxMessages) /\ Len(queue) <= Capacity
      /\ delivered \in Seq(1..MaxMessages) /\ emitted \in Nat
  BY <1>1, Types
<1>3. /\ Head(pipe) \in Frames /\ Head(pipe) = pipe[1] /\ 1 \in DOMAIN pipe
      /\ pipe' \in Seq(Frames)
      /\ \A i \in DOMAIN pipe' : pipe'[i] = pipe[i + 1] /\ i + 1 \in DOMAIN pipe /\ i \in Nat /\ 0 < i
      /\ \A i \in DOMAIN pipe : i # 1 => i - 1 \in DOMAIN pipe' /\ pipe'[i - 1] = pipe[i]
  BY <1>2, Removed
<1>4. PICK n : n = Head(pipe)[2]
  OBVIOUS
<1>5. n \in 1..MaxMessages /\ pipe[1] = Message(n) /\ IsMessage(pipe[1]) /\ ~IsAuth(pipe[1])
      /\ pipe[1][2] = n
  BY <1>3, <1>4, FrameIs
<1>6. /\ closing => queue' = queue
      /\ ~closing => queue' = Append(queue, n) /\ Len(queue) < Capacity
  BY <1>1, <1>4 DEF Offer, Flowing
<1>7. queue' \in Seq(0..MaxMessages) /\ Len(queue') <= Capacity
  <2>1. n \in 0..MaxMessages /\ Capacity \in Nat
    BY <1>5, BoundsAssumption
  <2>2. Append(queue, n) \in Seq(0..MaxMessages) /\ Len(Append(queue, n)) = Len(queue) + 1
    BY <1>2, <2>1, Appended
  <2>3. CASE closing
    BY <1>2, <1>6, <2>3
  <2>4. CASE ~closing
    <3>1. queue' = Append(queue, n) /\ Len(queue) < Capacity /\ Len(queue) \in Nat
      BY <1>2, <1>6, <2>4
    <3> QED BY <2>1, <2>2, <3>1
  <2> QED BY <2>3, <2>4
<1>8. TypeOK'
  BY <1>1, <1>3, <1>7 DEF TypeOK
<1>9. \A i \in DOMAIN pipe : IsAuth(pipe[i]) => i - 1 \in DOMAIN pipe' /\ pipe'[i - 1] = pipe[i]
  BY <1>3, <1>5
<1>10. Reports'
  <2>1. \A i \in DOMAIN pipe' : IsAuth(pipe'[i]) =>
            Rank(view.raw) < Rank(pipe'[i][2]) /\ Rank(pipe'[i][2]) <= Rank(server)
    BY <1>1, <1>3 DEF Reports
  <2>2. \A i, k \in DOMAIN pipe' : i < k /\ IsAuth(pipe'[i]) /\ IsAuth(pipe'[k]) =>
            Rank(pipe'[i][2]) < Rank(pipe'[k][2])
    <3> SUFFICES ASSUME NEW i \in DOMAIN pipe', NEW k \in DOMAIN pipe', i < k,
                        IsAuth(pipe'[i]), IsAuth(pipe'[k])
                 PROVE  Rank(pipe'[i][2]) < Rank(pipe'[k][2])
      OBVIOUS
    <3>1. /\ pipe'[i] = pipe[i + 1] /\ i + 1 \in DOMAIN pipe
          /\ pipe'[k] = pipe[k + 1] /\ k + 1 \in DOMAIN pipe /\ i + 1 < k + 1
      BY <1>3
    <3> QED BY <1>1, <3>1 DEF Reports
  <2>3. view.raw = server \/ \E i \in DOMAIN pipe' : pipe'[i] = Auth(server)
    <3>1. server \in Raw
      BY <1>1, Types
    <3>2. \A i \in DOMAIN pipe : pipe[i] = Auth(server) => IsAuth(pipe[i])
      BY <3>1, AuthIs
    <3>3. view.raw = server \/ \E i \in DOMAIN pipe : pipe[i] = Auth(server)
      BY <1>1 DEF Reports
    <3> QED BY <1>9, <3>2, <3>3
  <2> QED BY <2>1, <2>2, <2>3 DEF Reports, IsAuth, Auth
<1>11. Viewed'
  BY <1>1, <1>9 DEF Viewed, IsAuth
<1>12. Asked'
  BY <1>1 DEF Asked
<1>13. Flowing'
  <2> SUFFICES ASSUME ~closing PROVE Placed' /\ ~Ended'
    BY DEF Flowing
  <2>1. Placed /\ ~Ended
    BY <1>1 DEF Flowing
  <2>2. Handed = Len(delivered) + Len(queue) /\ Len(delivered) \in Nat /\ Len(queue) \in Nat
    BY <1>2, <2>1 DEF Handed
  <2>3. n = Handed + 1 /\ n <= emitted
    <3>1. n \in (Handed + 1)..emitted
      BY <1>3, <1>5, <2>1 DEF Placed
    <3>2. Handed + 1 \in (Handed + 1)..emitted
      BY <1>2, <2>2, <3>1
    <3>3. PICK i \in DOMAIN pipe : pipe[i] = Message(Handed + 1)
      BY <2>1, <3>2 DEF Placed
    <3>4. IsMessage(pipe[i]) /\ pipe[i][2] = Handed + 1
      BY <3>3 DEF IsMessage, Message
    <3>5. CASE i = 1
      BY <1>2, <1>5, <2>2, <3>1, <3>4, <3>5
    <3>6. CASE i # 1
      <4>1. 1 < i
        BY <1>2, <3>6
      <4>2. n < Handed + 1
        BY <1>3, <1>5, <2>1, <3>4, <4>1 DEF Placed
      <4> QED BY <1>5, <2>2, <3>1, <4>2
    <3> QED BY <3>5, <3>6, <3>1
  <2>4. queue' = Append(queue, n)
    BY <1>6
  <2>5. /\ Len(queue') = Len(queue) + 1 /\ queue'[Len(queue) + 1] = n
        /\ \A i \in DOMAIN queue : queue'[i] = queue[i]
        /\ DOMAIN queue' = (DOMAIN queue) \cup {Len(queue) + 1}
    BY <1>2, <1>5, <2>4
  <2>6. ~Ended'
    BY <1>5, <2>2, <2>5 DEF Ended, End
  <2>7. Handed' = Handed + 1
    BY <2>2, <2>5, <2>6 DEF Handed
  <2>8. \A i \in DOMAIN queue : queue[i] = Len(delivered) + i
    BY <1>2, <2>1 DEF Placed, Ended
  <2>9. \A i \in DOMAIN queue' : queue'[i] = Len(delivered) + i
    <3> SUFFICES ASSUME NEW i \in DOMAIN queue' PROVE queue'[i] = Len(delivered) + i
      OBVIOUS
    <3>1. CASE i \in DOMAIN queue
      BY <2>5, <2>8, <3>1
    <3>2. CASE i = Len(queue) + 1
      <4>1. queue'[i] = n
        BY <2>5, <3>2
      <4> QED BY <2>2, <2>3, <3>2, <4>1
    <3> QED BY <2>5, <3>1, <3>2
  <2>10. \A i \in DOMAIN pipe' : IsMessage(pipe'[i]) => pipe'[i][2] \in (Handed + 2)..emitted
    <3> SUFFICES ASSUME NEW i \in DOMAIN pipe', IsMessage(pipe'[i])
                 PROVE  pipe'[i][2] \in (Handed + 2)..emitted
      OBVIOUS
    <3>1. pipe'[i] = pipe[i + 1] /\ i + 1 \in DOMAIN pipe /\ 1 < i + 1
      BY <1>3
    <3>2. pipe'[i][2] \in (Handed + 1)..emitted /\ n < pipe'[i][2]
      BY <1>3, <1>5, <2>1, <3>1 DEF Placed
    <3>3. Handed \in Nat /\ emitted \in Nat
      BY <1>2, <2>2, <2>3
    <3>4. PICK k \in (Handed + 1)..emitted : k = pipe'[i][2]
      BY <3>2
    <3>5. k \in (Handed + 2)..emitted
      BY <2>3, <3>2, <3>3, <3>4
    <3> QED BY <3>4, <3>5
  <2>11. \A i, k \in DOMAIN pipe' : i < k /\ IsMessage(pipe'[i]) /\ IsMessage(pipe'[k]) =>
             pipe'[i][2] < pipe'[k][2]
    <3> SUFFICES ASSUME NEW i \in DOMAIN pipe', NEW k \in DOMAIN pipe', i < k,
                        IsMessage(pipe'[i]), IsMessage(pipe'[k])
                 PROVE  pipe'[i][2] < pipe'[k][2]
      OBVIOUS
    <3>1. /\ pipe'[i] = pipe[i + 1] /\ i + 1 \in DOMAIN pipe
          /\ pipe'[k] = pipe[k + 1] /\ k + 1 \in DOMAIN pipe /\ i + 1 < k + 1
      BY <1>3
    <3> QED BY <2>1, <3>1 DEF Placed
  <2>12. \A m \in (Handed + 2)..emitted : \E i \in DOMAIN pipe' : pipe'[i] = Message(m)
    <3> SUFFICES ASSUME NEW m \in (Handed + 2)..emitted
                 PROVE  \E i \in DOMAIN pipe' : pipe'[i] = Message(m)
      OBVIOUS
    <3>1. m \in (Handed + 1)..emitted /\ m # n
      BY <1>2, <2>2, <2>3
    <3>2. PICK i \in DOMAIN pipe : pipe[i] = Message(m)
      BY <2>1, <3>1 DEF Placed
    <3>3. i # 1
      BY <1>5, <3>1, <3>2 DEF Message
    <3> QED BY <1>3, <3>2, <3>3
  <2>13. Handed + 1 <= emitted /\ (Handed + 1) + 1 = Handed + 2
    BY <2>2, <2>3
  <2>14. Placed'
    BY <2>1, <2>7, <2>9, <2>10, <2>11, <2>12, <2>13 DEF Placed, IsMessage, Message
  <2> QED BY <2>6, <2>14
<1> QED BY <1>8, <1>10, <1>11, <1>12, <1>13 DEF GatewayInv

\* The end is put behind what is queued, where there is room.
LEMMA EndPut ==
    ASSUME TypeOK, EndStream
    PROVE  queue' \in Seq(0..MaxMessages) /\ Len(queue') <= Capacity
<1>1. /\ queue \in Seq(0..MaxMessages) /\ Len(queue) <= Capacity
      /\ End \in 0..MaxMessages /\ Capacity \in Nat /\ Len(queue) \in Nat
  BY Types, BoundsAssumption DEF End
<1>2. Append(queue, End) \in Seq(0..MaxMessages) /\ Len(Append(queue, End)) = Len(queue) + 1
  BY <1>1, Appended
<1>3. CASE Len(queue) < Capacity
  <2>1. queue' = Append(queue, End)
    BY <1>3 DEF EndStream
  <2> QED BY <1>1, <1>2, <1>3, <2>1
<1>4. CASE ~(Len(queue) < Capacity)
  BY <1>1, <1>4 DEF EndStream
<1> QED BY <1>3, <1>4

LEMMA Dispatching ==
    ASSUME GatewayInv, Dispatch
    PROVE  GatewayInv'
<1>1. TypeOK /\ Reports /\ Viewed /\ Asked /\ Flowing
  BY DEF GatewayInv
<1>2. CASE AwaitRoom
  <2>1. /\ HasRoom /\ dispatch = "room" /\ dispatch' = "receiving"
        /\ UNCHANGED <<server, pipe, cut, emitted, asked, reply, view, queue, consumer,
                       delivered, session, from, steps, retries, closing>>
    BY <1>2 DEF AwaitRoom, tdlib, request, stream, flow
  <2>2. TypeOK'
    BY <1>1, <2>1 DEF TypeOK
  <2>3. Reports' /\ Viewed' /\ Asked'
    BY <1>1, <2>1 DEF Reports, Viewed, Asked, IsAuth, Auth
  <2>4. Flowing'
    BY <1>1, <2>1 DEF Flowing, Placed, Handed, Ended, IsMessage, Message, HasRoom
  <2> QED BY <2>2, <2>3, <2>4 DEF GatewayInv
<1>3. CASE HandleFrame
  <2>1. /\ dispatch = "receiving" /\ pipe # <<>> /\ pipe' = Tail(pipe) /\ dispatch' = "room"
        /\ UNCHANGED <<server, cut, emitted, asked, reply, consumer, delivered,
                       session, from, steps, retries, closing>>
    BY <1>3 DEF HandleFrame, request, flow
  <2>2. session # "new"
    BY <1>1, <2>1 DEF Reports
  <2>3. CASE IsAuth(Head(pipe))
    <3>1. OnAuthorization(Head(pipe)[2])
      BY <1>3, <2>3 DEF HandleFrame, IsAuth
    <3> QED BY <2>1, <2>2, <2>3, <3>1, ReportRead
  <2>4. CASE ~IsAuth(Head(pipe))
    <3>1. Offer(Head(pipe)[2]) /\ view' = view
      BY <1>3, <2>4 DEF HandleFrame, IsAuth
    <3> QED BY <2>1, <2>2, <2>4, <3>1, MessageRead
  <2> QED BY <2>3, <2>4
<1>4. CASE ClientEnded
  <2>1. /\ dispatch = "receiving" /\ pipe = <<>> /\ cut /\ dispatch' = "ended" /\ EndStream
        /\ view' = [view EXCEPT !.closed = TRUE, !.known = TRUE]
        /\ UNCHANGED <<server, pipe, cut, emitted, asked, reply, consumer, delivered,
                       session, from, steps, retries, closing>>
    BY <1>4 DEF ClientEnded, tdlib, request, flow
  <2>2. /\ view' \in Views /\ view'.raw = view.raw /\ view'.state = view.state
        /\ view'.known /\ view'.closed
    BY <1>1, <2>1, Types, ViewEnded
  <2>3. queue' \in Seq(0..MaxMessages) /\ Len(queue') <= Capacity
    BY <1>1, <2>1, EndPut
  <2>4. TypeOK'
    BY <1>1, <2>1, <2>2, <2>3 DEF TypeOK
  <2>5. Reports' /\ Viewed' /\ Asked'
    BY <1>1, <2>1, <2>2 DEF Reports, Viewed, Asked, IsAuth, Auth
  <2>6. ASSUME ~closing PROVE Placed'
    <3>1. /\ Placed /\ ~Ended /\ Len(queue) < Capacity
          /\ queue \in Seq(0..MaxMessages) /\ delivered \in Seq(1..MaxMessages)
      BY <1>1, <2>1, <2>6, Types DEF Flowing
    <3>2. queue' = Append(queue, End)
      BY <2>1, <3>1 DEF EndStream
    <3>3. /\ Len(queue') = Len(queue) + 1 /\ queue'[Len(queue) + 1] = End
          /\ \A i \in DOMAIN queue : queue'[i] = queue[i]
          /\ DOMAIN queue' = (DOMAIN queue) \cup {Len(queue) + 1} /\ queue' # <<>>
          /\ Len(queue) \in Nat /\ Len(delivered) \in Nat
      BY <3>1, <3>2 DEF End
    <3>4. Ended'
      BY <3>3 DEF Ended
    <3>5. Handed' = Handed
      BY <2>1, <3>1, <3>3, <3>4 DEF Handed
    <3>6. \A i \in DOMAIN queue : queue[i] = Len(delivered) + i
      BY <3>1 DEF Placed, Ended
    <3>7. \A i \in DOMAIN queue' :
              queue'[i] = Len(delivered) + i \/ (i = Len(queue') /\ queue'[i] = End)
      BY <3>3, <3>6
    <3> QED BY <2>1, <3>1, <3>5, <3>7 DEF Placed, IsMessage, Message
  <2>7. Flowing'
    BY <1>1, <2>1, <2>6 DEF Flowing
  <2> QED BY <2>4, <2>5, <2>7 DEF GatewayInv
<1>5. CASE DispatchStops
  <2>1. /\ dispatch = "cancelled" /\ dispatch' = "ended"
        /\ UNCHANGED <<server, pipe, cut, emitted, asked, reply, view, queue, consumer,
                       delivered, session, from, steps, retries, closing>>
    BY <1>5 DEF DispatchStops, tdlib, request, stream, flow
  <2>2. TypeOK'
    BY <1>1, <2>1 DEF TypeOK
  <2>3. Reports' /\ Viewed' /\ Asked'
    BY <1>1, <2>1 DEF Reports, Viewed, Asked, IsAuth, Auth
  <2>4. Flowing'
    BY <1>1, <2>1 DEF Flowing, Placed, Handed, Ended, IsMessage, Message
  <2> QED BY <2>2, <2>3, <2>4 DEF GatewayInv
<1> QED BY <1>2, <1>3, <1>4, <1>5 DEF Dispatch

LEMMA Consuming ==
    ASSUME GatewayInv, Consumer
    PROVE  GatewayInv'
<1>1. TypeOK /\ Reports /\ Viewed /\ Asked /\ Flowing
  BY DEF GatewayInv
<1>2. CASE Subscribe \/ NextUpdate \/ CancelConsumer
  <2>1. /\ consumer' \in {"off", "waiting", "busy", "over"}
        /\ UNCHANGED <<server, pipe, cut, emitted, asked, reply, view, dispatch, queue,
                       delivered, session, from, steps, retries, closing>>
    BY <1>2 DEF Subscribe, NextUpdate, CancelConsumer, tdlib, request, flow
  <2>2. TypeOK'
    BY <1>1, <2>1 DEF TypeOK
  <2>3. Reports' /\ Viewed' /\ Asked'
    BY <1>1, <2>1 DEF Reports, Viewed, Asked, IsAuth, Auth
  <2>4. Flowing'
    BY <1>1, <2>1 DEF Flowing, Placed, Handed, Ended, IsMessage, Message
  <2> QED BY <2>2, <2>3, <2>4 DEF GatewayInv
<1>3. CASE TakeUpdate
  <2>1. /\ queue # <<>> /\ queue' = Tail(queue) /\ consumer' \in {"over", "busy"}
        /\ \/ Head(queue) = End /\ delivered' = delivered
           \/ Head(queue) # End /\ delivered' = Append(delivered, Head(queue))
        /\ UNCHANGED <<server, pipe, cut, emitted, asked, reply, view, dispatch,
                       session, from, steps, retries, closing>>
    BY <1>3 DEF TakeUpdate, tdlib, request, flow
  <2>2. /\ queue \in Seq(0..MaxMessages) /\ delivered \in Seq(1..MaxMessages)
        /\ Len(queue) <= Capacity /\ Capacity \in Nat
    BY <1>1, Types, BoundsAssumption
  <2>3. /\ Head(queue) \in 0..MaxMessages /\ Head(queue) = queue[1] /\ 1 \in DOMAIN queue
        /\ queue' \in Seq(0..MaxMessages) /\ Len(queue') = Len(queue) - 1
        /\ \A i \in DOMAIN queue' :
              queue'[i] = queue[i + 1] /\ i + 1 \in DOMAIN queue /\ i \in Nat /\ 0 < i
    BY <2>1, <2>2, Removed
  <2>4. Len(queue) \in Nat /\ Len(queue') \in Nat /\ Len(delivered) \in Nat
    BY <2>2, <2>3
  <2>5. delivered' \in Seq(1..MaxMessages)
    <3>1. CASE Head(queue) = End
      BY <2>1, <2>2, <3>1
    <3>2. CASE Head(queue) # End
      <4>1. Head(queue) \in 1..MaxMessages
        BY <2>3, <3>2 DEF End
      <4>2. delivered' = Append(delivered, Head(queue))
        BY <2>1, <3>2
      <4> QED BY <2>2, <4>1, <4>2, Appended
    <3> QED BY <3>1, <3>2
  <2>6. TypeOK'
    <3>1. Len(queue') <= Capacity
      BY <2>2, <2>3, <2>4
    <3> QED BY <1>1, <2>1, <2>3, <2>5, <3>1 DEF TypeOK
  <2>7. Reports' /\ Viewed' /\ Asked'
    BY <1>1, <2>1 DEF Reports, Viewed, Asked, IsAuth, Auth
  <2>8. ASSUME ~closing
        PROVE  Placed' /\ (Ended' => Ended)
    <3>1. Placed
      BY <1>1, <2>8 DEF Flowing
    <3>2. CASE Head(queue) = End
      <4>1. Len(queue) = 1 /\ queue[Len(queue)] = End
        BY <2>2, <2>3, <2>4, <3>1, <3>2 DEF Placed, End
      <4>2. queue' = <<>> /\ delivered' = delivered
        BY <2>1, <2>3, <3>2, <4>1
      <4>3. Ended /\ ~Ended'
        BY <2>1, <4>1, <4>2 DEF Ended
      <4>4. Handed' = Handed
        BY <2>4, <4>1, <4>2, <4>3 DEF Handed
      <4>5. \A i \in DOMAIN queue' : FALSE
        BY <4>2
      <4> QED BY <2>1, <3>1, <4>2, <4>3, <4>4, <4>5 DEF Placed, IsMessage, Message
    <3>3. CASE Head(queue) # End
      <4>1. /\ Head(queue) = Len(delivered) + 1 /\ delivered' = Append(delivered, Head(queue))
        BY <2>1, <2>3, <3>1, <3>3 DEF Placed
      <4>2. /\ Len(delivered') = Len(delivered) + 1
            /\ \A i \in DOMAIN delivered' : delivered'[i] = i
        <5>1. Head(queue) \in 1..MaxMessages
          BY <2>3, <3>3 DEF End
        <5>2. \A i \in DOMAIN delivered : delivered[i] = i
          BY <3>1 DEF Placed
        <5> QED BY <2>2, <4>1, <5>1, <5>2
      <4>3. CASE Len(queue) = 1
        <5>1. ~Ended /\ queue' = <<>> /\ Len(queue') = 0
          BY <2>3, <3>3, <4>3 DEF Ended
        <5>2. ~Ended'
          BY <5>1 DEF Ended
        <5>3. Handed' = Handed
          BY <2>4, <4>2, <4>3, <5>1, <5>2 DEF Handed
        <5>4. \A i \in DOMAIN queue' : FALSE
          BY <5>1
        <5> QED BY <2>1, <3>1, <4>2, <5>2, <5>3, <5>4 DEF Placed, IsMessage, Message
      <4>4. CASE Len(queue) # 1
        <5>1. queue' # <<>> /\ queue'[Len(queue')] = queue[Len(queue)] /\ 1 < Len(queue)
          <6>1. 1 <= Len(queue)
            BY <2>2, <2>3
          <6>2. 1 < Len(queue) /\ Len(queue') \in DOMAIN queue' /\ Len(queue') + 1 = Len(queue)
            BY <2>3, <2>4, <4>4, <6>1
          <6> QED BY <2>3, <2>4, <6>2
        <5>2. Ended' <=> Ended
          BY <2>1, <5>1 DEF Ended
        <5>3. Handed' = Handed
          <6>1. Len(queue') = Len(queue) - 1 /\ Len(delivered') = Len(delivered) + 1
            BY <2>3, <4>2
          <6>2. CASE Ended
            <7>1. Handed = Len(delivered) + (Len(queue) - 1)
              BY <6>2 DEF Handed
            <7>2. Handed' = Len(delivered') + (Len(queue') - 1)
              BY <5>2, <6>2 DEF Handed
            <7> QED BY <2>4, <6>1, <7>1, <7>2
          <6>3. CASE ~Ended
            <7>1. Handed = Len(delivered) + Len(queue)
              BY <6>3 DEF Handed
            <7>2. Handed' = Len(delivered') + Len(queue')
              BY <5>2, <6>3 DEF Handed
            <7> QED BY <2>4, <6>1, <7>1, <7>2
          <6> QED BY <6>2, <6>3
        <5>4. \A i \in DOMAIN queue' :
                  queue'[i] = Len(delivered') + i \/ (i = Len(queue') /\ queue'[i] = End)
          <6> SUFFICES ASSUME NEW i \in DOMAIN queue'
                       PROVE  queue'[i] = Len(delivered') + i \/ (i = Len(queue') /\ queue'[i] = End)
            OBVIOUS
          <6>1. queue'[i] = queue[i + 1] /\ i + 1 \in DOMAIN queue /\ i \in Nat
            BY <2>3
          <6>2. queue[i + 1] = Len(delivered) + (i + 1) \/ (i + 1 = Len(queue) /\ queue[i + 1] = End)
            BY <3>1, <6>1 DEF Placed
          <6>3. Len(delivered) + (i + 1) = Len(delivered') + i
            BY <2>4, <4>2, <6>1
          <6>4. i + 1 = Len(queue) => i = Len(queue')
            BY <2>3, <2>4, <6>1
          <6> QED BY <6>1, <6>2, <6>3, <6>4
        <5> QED BY <2>1, <3>1, <4>2, <5>2, <5>3, <5>4 DEF Placed, IsMessage, Message
      <4> QED BY <4>3, <4>4
    <3> QED BY <3>2, <3>3
  <2>9. Flowing'
    <3>1. Len(queue') < Len(queue)
      BY <2>3, <2>4
    <3>2. dispatch = "receiving" => Len(queue') < Capacity \/ closing
      BY <1>1, <2>2, <2>4, <3>1 DEF Flowing
    <3> QED BY <1>1, <2>1, <2>8, <3>2 DEF Flowing
  <2> QED BY <2>6, <2>7, <2>9 DEF GatewayInv
<1> QED BY <1>2, <1>3 DEF Consumer

-----------------------------------------------------------------------------
(***************************************************************************)
(* The beginning and the end.                                              *)
(***************************************************************************)
LEMMA Connecting ==
    ASSUME GatewayInv, Connect
    PROVE  GatewayInv'
<1>1. TypeOK /\ Reports /\ Viewed /\ Asked /\ Flowing
  BY DEF GatewayInv
<1>2. /\ session = "new" /\ session' = "starting" /\ dispatch' = "room"
      /\ pipe' = Append(pipe, Auth(server))
      /\ UNCHANGED <<server, cut, emitted, asked, reply, view, queue, consumer, delivered,
                     from, steps, retries, closing>>
  BY DEF Connect, Go, request, stream
<1>3. /\ view.raw = "none" /\ pipe = <<>> /\ ~cut /\ server \in Raw \ {"none"}
      /\ queue \in Seq(0..MaxMessages) /\ delivered \in Seq(1..MaxMessages)
  BY <1>1, <1>2, Types DEF Reports
<1> DEFINE f == Auth(server)
<1>4. f \in Frames /\ IsAuth(f) /\ ~IsMessage(f) /\ f[2] = server
  BY <1>3, AuthIs
<1>5. f = Auth(server)
  OBVIOUS
<1> HIDE DEF f
<1>6. pipe' = <<f>> /\ pipe' \in Seq(Frames) /\ DOMAIN pipe' = {1} /\ pipe'[1] = f
  BY <1>2, <1>3, <1>4, <1>5
<1>7. TypeOK'
  BY <1>1, <1>2, <1>6, SessionStates DEF TypeOK, Waits
<1>8. Reports'
  <2>1. Rank(view.raw) < Rank(f[2]) /\ Rank(f[2]) <= Rank(server)
    BY <1>3, <1>4, Ranks, RankOfRaw
  <2>2. \A i \in DOMAIN pipe' : IsAuth(pipe'[i]) =>
            Rank(view'.raw) < Rank(pipe'[i][2]) /\ Rank(pipe'[i][2]) <= Rank(server')
    BY <1>2, <1>6, <2>1
  <2>3. \A i, k \in DOMAIN pipe' : ~(i < k)
    BY <1>6
  <2>4. \E i \in DOMAIN pipe' : pipe'[i] = Auth(server')
    BY <1>2, <1>5, <1>6
  <2> QED BY <1>2, <2>2, <2>3, <2>4 DEF Reports, IsAuth
<1>9. Viewed'
  BY <1>1, <1>2, <1>4, <1>6 DEF Viewed, IsAuth
<1>10. Asked'
  BY <1>1, <1>2 DEF Asked, Early
<1>11. Flowing'
  <2> SUFFICES ASSUME ~closing PROVE Placed' /\ ~Ended'
    BY <1>2 DEF Flowing
  <2>1. Placed /\ ~Ended
    BY <1>1, <1>3 DEF Flowing
  <2>2. ~Ended' /\ Handed' = Handed
    BY <1>2, <2>1 DEF Handed, Ended
  <2>3. \A i \in DOMAIN pipe' : ~IsMessage(pipe'[i])
    BY <1>4, <1>6
  <2>4. \A n \in (Handed + 1)..emitted : FALSE
    BY <1>3, <2>1 DEF Placed
  <2> QED BY <1>2, <2>1, <2>2, <2>3, <2>4 DEF Placed, IsMessage, Message
<1> QED BY <1>7, <1>8, <1>9, <1>10, <1>11 DEF GatewayInv

LEMMA Disconnecting ==
    ASSUME GatewayInv, Disconnect \/ Disconnected
    PROVE  GatewayInv'
<1>1. TypeOK /\ Reports /\ Viewed /\ Asked /\ Flowing
  BY DEF GatewayInv
<1>2. CASE Disconnect
  <2>1. /\ session \in Leaves \cup Holds /\ session' = "disconnecting" /\ closing' = TRUE
        /\ EndStream /\ dispatch' \in {dispatch, "cancelled"}
        /\ UNCHANGED <<server, pipe, cut, emitted, asked, reply, view, consumer, delivered,
                       from, steps, retries>>
    BY <1>2 DEF Disconnect, Go, CancelDispatch, tdlib, request
  <2>2. queue' \in Seq(0..MaxMessages) /\ Len(queue') <= Capacity
    BY <1>1, <2>1, EndPut
  <2>3. session # "new"
    BY <2>1 DEF Leaves, Holds
  <2>4. TypeOK'
    BY <1>1, <2>1, <2>2, SessionStates DEF TypeOK
  <2>5. Reports' /\ Viewed' /\ Asked'
    BY <1>1, <2>1, <2>3 DEF Reports, Viewed, Asked, IsAuth, Auth, Early
  <2>6. Flowing'
    BY <2>1 DEF Flowing
  <2> QED BY <2>4, <2>5, <2>6 DEF GatewayInv
<1>3. CASE Disconnected
  <2>1. /\ session = "disconnecting" /\ session' = "disconnected" /\ cut' = TRUE
        /\ UNCHANGED <<server, pipe, emitted, asked, reply, view, dispatch, queue, consumer,
                       delivered, from, steps, retries, closing>>
    BY <1>3 DEF Disconnected, Go, request, stream
  <2>2. TypeOK'
    BY <1>1, <2>1, SessionStates DEF TypeOK
  <2>3. Reports' /\ Viewed' /\ Asked'
    BY <1>1, <2>1 DEF Reports, Viewed, Asked, IsAuth, Auth, Early
  <2>4. Flowing'
    BY <1>1, <2>1 DEF Flowing, Placed, Handed, Ended, IsMessage, Message
  <2> QED BY <2>2, <2>3, <2>4 DEF GatewayInv
<1> QED BY <1>2, <1>3

LEMMA GatewayStutters ==
    ASSUME GatewayInv, UNCHANGED vars
    PROVE  GatewayInv'
<1>1. TypeOK /\ Reports /\ Viewed /\ Asked /\ Flowing
  BY DEF GatewayInv
<1>2. UNCHANGED <<server, pipe, cut, emitted, asked, reply, view, dispatch, queue, consumer,
                  delivered, session, from, steps, retries, closing>>
  BY DEF vars, tdlib, request, stream, flow
<1>3. TypeOK'
  BY <1>1, <1>2 DEF TypeOK
<1>4. Reports' /\ Viewed' /\ Asked'
  BY <1>1, <1>2 DEF Reports, Viewed, Asked, IsAuth, Auth
<1>5. Flowing'
  BY <1>1, <1>2 DEF Flowing, Placed, Handed, Ended, IsMessage, Message
<1> QED BY <1>3, <1>4, <1>5 DEF GatewayInv

LEMMA GatewayInit == Init => GatewayInv
<1> SUFFICES ASSUME Init PROVE GatewayInv
  OBVIOUS
<1>1. TypeOK
  <2>1. view \in Views
    BY DEF Init, Views, Raw, Reported
  <2>2. "new" \in Sessions /\ "parameters" \in Raw \ {"none"} /\ "none" \in Raw
    BY DEF Sessions, Raw, Reported
  <2>3. /\ emitted \in 0..MaxMessages /\ steps \in 0..MaxSteps /\ retries \in 0..MaxRetries
        /\ queue \in Seq(0..MaxMessages) /\ Len(queue) <= Capacity
    BY BoundsAssumption DEF Init
  <2>4. pipe \in Seq(Frames) /\ delivered \in Seq(1..MaxMessages)
    BY DEF Init
  <2> QED BY <2>1, <2>2, <2>3, <2>4 DEF Init, TypeOK
<1>2. Reports
  BY DEF Init, Reports
<1>3. Viewed
  BY DEF Init, Viewed, Prompted
<1>4. Asked
  BY Ranks DEF Init, Asked, Early
<1>5. Flowing
  <2>1. ~Ended /\ Handed = 0
    BY DEF Init, Ended, Handed
  <2> QED BY <2>1 DEF Init, Flowing, Placed
<1> QED BY <1>1, <1>2, <1>3, <1>4, <1>5 DEF GatewayInv

LEMMA GatewayNext == GatewayInv /\ [Next]_vars => GatewayInv'
<1> SUFFICES ASSUME GatewayInv, [Next]_vars PROVE GatewayInv'
  OBVIOUS
<1>1. CASE Tdlib
  BY <1>1, ServerMoves, MessageAdded, Fails DEF Tdlib
<1>2. CASE Dispatch
  BY <1>2, Dispatching
<1>3. CASE Consumer
  BY <1>3, Consuming
<1>4. CASE Session
  BY <1>4, Connecting, Starting, LoggingIn, Leaving, Disconnecting DEF Session
<1>5. CASE UNCHANGED vars
  BY <1>5, GatewayStutters
<1> QED BY <1>1, <1>2, <1>3, <1>4, <1>5 DEF Next

LEMMA GatewayAlways == Spec => []GatewayInv
BY GatewayInit, GatewayNext, PTL DEF Spec

-----------------------------------------------------------------------------
(***************************************************************************)
(* Theorems.                                                               *)
(***************************************************************************)
LEMMA Mapped ==
    ASSUME NEW S, NEW n \in Nat, NEW f \in [1..n -> S]
    PROVE  f \in Seq(S) /\ Len(f) = n
OBVIOUS

LEMMA Joined ==
    ASSUME NEW S, NEW s \in Seq(S), NEW t \in Seq(S),
           NEW m \in Nat, Len(s) = m, NEW n \in Nat, Len(t) = n
    PROVE  /\ s \o t \in Seq(S) /\ Len(s \o t) = m + n
           /\ DOMAIN (s \o t) = 1..(m + n)
           /\ \A i \in 1..m : (s \o t)[i] = s[i]
           /\ \A i \in 1..n : (s \o t)[m + i] = t[i]
<1>1. s \o t \in Seq(S) /\ Len(s \o t) = m + n /\ DOMAIN (s \o t) = 1..(m + n)
  OBVIOUS
<1>2. \A i \in 1..m : (s \o t)[i] = s[i]
  OBVIOUS
<1>3. \A i \in 1..n : (s \o t)[m + i] = t[i]
  OBVIOUS
<1> QED BY <1>1, <1>2, <1>3

LEMMA PlacedIsWhole ==
    ASSUME TypeOK, Placed
    PROVE  /\ {Way[i] : i \in DOMAIN Way} \cap Messages = {Message(n) : n \in 1..emitted}
           /\ \A i, k \in DOMAIN Way :
                 i < k /\ Way[i] \in Messages /\ Way[k] \in Messages => Way[i][2] < Way[k][2]
<1> DEFINE first == [i \in DOMAIN delivered |-> Message(delivered[i])]
           second == [i \in DOMAIN queue |-> Message(queue[i])]
           d == Len(delivered)
           q == Len(queue)
<1>1. /\ delivered \in Seq(1..MaxMessages) /\ queue \in Seq(0..MaxMessages)
      /\ pipe \in Seq(Frames) /\ d \in Nat /\ q \in Nat /\ emitted \in 0..MaxMessages
      /\ MaxMessages \in Nat
  BY Types, BoundsAssumption
<1>2. /\ \A i \in 1..d : Way[i] = Message(delivered[i])
      /\ \A i \in 1..q : Way[d + i] = Message(queue[i])
      /\ \A i \in DOMAIN pipe : Way[d + q + i] = pipe[i]
      /\ DOMAIN Way = 1..(d + q + Len(pipe)) /\ Len(pipe) \in Nat
  <2> DEFINE F == {Message(n) : n \in 0..MaxMessages} \cup Frames
  <2>1. first \in Seq(F) /\ Len(first) = d /\ \A i \in 1..d : first[i] = Message(delivered[i])
    <3>1. DOMAIN delivered = 1..d /\ \A i \in 1..d : delivered[i] \in 0..MaxMessages
      BY <1>1
    <3>2. \A i \in 1..d : Message(delivered[i]) \in F
      BY <3>1
    <3>3. first \in [1..d -> F]
      BY <3>1, <3>2
    <3> QED BY <1>1, <3>1, <3>3, Mapped
  <2>2. second \in Seq(F) /\ Len(second) = q /\ \A i \in 1..q : second[i] = Message(queue[i])
    <3>1. DOMAIN queue = 1..q /\ \A i \in 1..q : queue[i] \in 0..MaxMessages
      BY <1>1
    <3>2. \A i \in 1..q : Message(queue[i]) \in F
      BY <3>1
    <3>3. second \in [1..q -> F]
      BY <3>1, <3>2
    <3> QED BY <1>1, <3>1, <3>3, Mapped
  <2>3. pipe \in Seq(F)
    BY <1>1
  <2> HIDE DEF F, first, second, d, q
  <2>4. /\ first \o second \in Seq(F)
        /\ Len(first \o second) = d + q
        /\ \A i \in 1..d : (first \o second)[i] = first[i]
        /\ \A i \in 1..q : (first \o second)[d + i] = second[i]
    <3>1. first \in Seq(F) /\ second \in Seq(F)
      BY <2>1, <2>2
    <3>2. d \in Nat /\ Len(first) = d
      BY <1>1, <2>1
    <3>3. q \in Nat /\ Len(second) = q
      BY <1>1, <2>2
    <3>4. PICK a, b \in Seq(F) : a = first /\ b = second
      BY <3>1
    <3>5. PICK m, n \in Nat : m = d /\ n = q
      BY <3>2, <3>3
    <3>6. Len(a) = m /\ Len(b) = n
      BY <3>2, <3>3, <3>4, <3>5
    <3>7. /\ a \o b \in Seq(F) /\ Len(a \o b) = m + n
          /\ \A i \in 1..m : (a \o b)[i] = a[i]
          /\ \A i \in 1..n : (a \o b)[m + i] = b[i]
      BY <3>6, Joined
    <3> QED BY <3>4, <3>5, <3>7
  <2> DEFINE both == first \o second
  <2>5. both \in Seq(F) /\ Len(both) = d + q
    BY <2>4
  <2>6. /\ \A i \in 1..d : both[i] = Message(delivered[i])
        /\ \A i \in 1..q : both[d + i] = Message(queue[i])
    BY <2>1, <2>2, <2>4
  <2>7. Way = both \o pipe
    BY DEF Way, first, second
  <2> HIDE DEF both
  <2>8. /\ DOMAIN (both \o pipe) = 1..(d + q + Len(pipe))
        /\ \A i \in 1..(d + q) : (both \o pipe)[i] = both[i]
        /\ \A i \in DOMAIN pipe : (both \o pipe)[d + q + i] = pipe[i]
    <3>1. DOMAIN pipe = 1..Len(pipe)
      BY <1>1
    <3>2. d + q \in Nat
      BY <1>1
    <3> QED BY <1>1, <2>3, <2>5, <3>1, <3>2, Joined, SMTT(30)
  <2>9. \A i \in 1..d : i \in 1..(d + q)
    BY <1>1
  <2>10. \A i \in 1..q : d + i \in 1..(d + q)
    BY <1>1
  <2> QED BY <1>1, <2>6, <2>7, <2>8, <2>9, <2>10, SMTT(30)
<1>3. \A n : Message(n) \in Messages <=> n \in 1..MaxMessages
  BY DEF Message, Messages
<1>4. \A f \in Frames : f \in Messages <=> IsMessage(f)
  BY DEF Frames, Messages, IsMessage
<1>5. \A n : Message(n)[2] = n
  BY DEF Message
<1>6. Handed \in {d + q, d + q - 1} /\ (Ended => Handed = d + q - 1) /\ (~Ended => Handed = d + q)
  BY <1>1 DEF Handed
<1>7. \A i \in 1..(d + q) : Way[i] \in Messages => i <= Handed /\ Way[i] = Message(i)
  <2> SUFFICES ASSUME NEW i \in 1..(d + q), Way[i] \in Messages
               PROVE  i <= Handed /\ Way[i] = Message(i)
    OBVIOUS
  <2>1. CASE i <= d
    <3>1. i \in 1..d /\ i \in DOMAIN delivered
      BY <1>1, <2>1
    <3>2. i <= Handed
      <4>1. Ended => 1 <= q
        BY <1>1 DEF Ended
      <4> QED BY <1>1, <1>6, <2>1, <4>1
    <3> QED BY <1>2, <3>1, <3>2 DEF Placed
  <2>2. CASE d < i
    <3>1. PICK k \in 1..q : i = d + k
      <4>1. i - d \in 1..q /\ i = d + (i - d)
        BY <1>1, <2>2
      <4> QED BY <4>1
    <3>2. Way[i] = Message(queue[k]) /\ k \in DOMAIN queue
      BY <1>1, <1>2, <3>1
    <3>3. queue[k] \in 1..MaxMessages
      BY <1>3, <3>2
    <3>4. queue[k] = d + k
      BY <3>2, <3>3 DEF Placed, End
    <3>5. k = q => ~Ended
      BY <3>3 DEF Ended, End
    <3>6. i <= Handed
      BY <1>1, <1>6, <3>1, <3>5
    <3> QED BY <3>1, <3>2, <3>4, <3>6
  <2> QED BY <1>1, <2>1, <2>2
<1>8. \A i \in 1..Handed : i \in DOMAIN Way /\ Way[i] = Message(i)
  <2> SUFFICES ASSUME NEW i \in 1..Handed PROVE i \in DOMAIN Way /\ Way[i] = Message(i)
    OBVIOUS
  <2>1. CASE i <= d
    BY <1>1, <1>2, <2>1 DEF Placed
  <2>2. CASE d < i
    <3>1. i - d \in 1..q /\ i = d + (i - d)
      BY <1>1, <1>6, <2>2
    <3>2. PICK k \in 1..q : i = d + k
      BY <3>1
    <3>3. k \in DOMAIN queue /\ Way[i] = Message(queue[k])
      BY <1>1, <1>2, <3>2
    <3>4. queue[k] = d + k \/ (k = q /\ queue[k] = End)
      BY <3>3 DEF Placed
    <3>5. ~(k = q /\ queue[k] = End)
      <4> SUFFICES ASSUME k = q, queue[k] = End PROVE FALSE
        OBVIOUS
      <4>1. Ended
        BY <1>1, <3>3 DEF Ended
      <4> QED BY <1>1, <1>6, <3>2, <4>1
    <3> QED BY <1>1, <1>2, <3>2, <3>3, <3>4, <3>5
  <2> QED BY <1>1, <1>6, <2>1, <2>2
<1>9. \A i \in DOMAIN Way : i \notin 1..(d + q) => i - (d + q) \in DOMAIN pipe
                                /\ Way[i] = pipe[i - (d + q)]
  <2> SUFFICES ASSUME NEW i \in DOMAIN Way, i \notin 1..(d + q)
               PROVE  i - (d + q) \in DOMAIN pipe /\ Way[i] = pipe[i - (d + q)]
    OBVIOUS
  <2>1. i - (d + q) \in 1..Len(pipe) /\ i = d + q + (i - (d + q))
    BY <1>1, <1>2
  <2>2. PICK k \in 1..Len(pipe) : k = i - (d + q) /\ i = d + q + k
    BY <2>1
  <2>3. k \in DOMAIN pipe
    BY <1>1
  <2> QED BY <1>2, <2>2, <2>3
<1>10. \A i \in DOMAIN pipe : pipe[i] \in Messages =>
           /\ pipe[i][2] \in (Handed + 1)..emitted /\ pipe[i] = Message(pipe[i][2])
  <2> SUFFICES ASSUME NEW i \in DOMAIN pipe, pipe[i] \in Messages
               PROVE  pipe[i][2] \in (Handed + 1)..emitted /\ pipe[i] = Message(pipe[i][2])
    OBVIOUS
  <2>1. pipe[i] \in Frames
    BY <1>1
  <2>2. IsMessage(pipe[i])
    BY <1>4, <2>1
  <2> QED BY <2>1, <2>2, FrameIs DEF Placed
<1>11. {Way[i] : i \in DOMAIN Way} \cap Messages = {Message(n) : n \in 1..emitted}
  <2>1. ASSUME NEW i \in DOMAIN Way, Way[i] \in Messages
        PROVE  \E n \in 1..emitted : Way[i] = Message(n)
    <3>1. CASE i \in 1..(d + q)
      <4>1. i \in 1..emitted
        BY <1>1, <1>6, <1>7, <2>1, <3>1 DEF Placed
      <4> QED BY <1>7, <2>1, <3>1, <4>1
    <3>2. CASE i \notin 1..(d + q)
      <4>1. PICK k \in DOMAIN pipe : Way[i] = pipe[k]
        BY <1>9, <3>2
      <4>2. pipe[k][2] \in (Handed + 1)..emitted /\ pipe[k] = Message(pipe[k][2])
        BY <1>10, <2>1, <4>1
      <4>3. 0 <= Handed
        BY <1>1, <1>6 DEF Ended
      <4>4. pipe[k][2] \in 1..emitted
        BY <1>1, <1>6, <4>2, <4>3
      <4> QED BY <4>1, <4>2, <4>4
    <3> QED BY <3>1, <3>2
  <2>2. ASSUME NEW n \in 1..emitted
        PROVE  Message(n) \in Messages /\ \E i \in DOMAIN Way : Way[i] = Message(n)
    <3>1. Message(n) \in Messages
      <4>1. n \in 1..MaxMessages
        BY <1>1, <2>2
      <4> QED BY <1>3, <4>1
    <3>2. CASE n <= Handed
      <4>1. n \in 1..Handed
        BY <1>1, <1>6, <3>2
      <4> QED BY <1>8, <3>1, <4>1
    <3>3. CASE ~(n <= Handed)
      <4>1. n \in (Handed + 1)..emitted
        BY <1>1, <1>6, <3>3
      <4>2. PICK k \in DOMAIN pipe : pipe[k] = Message(n)
        BY <4>1 DEF Placed
      <4>3. d + q + k \in DOMAIN Way
        BY <1>1, <1>2
      <4> QED BY <1>2, <3>1, <4>2, <4>3
    <3> QED BY <3>2, <3>3
  <2> QED BY <2>1, <2>2
<1>12. ASSUME NEW i \in DOMAIN Way, NEW k \in DOMAIN Way, i < k,
              Way[i] \in Messages, Way[k] \in Messages
       PROVE  Way[i][2] < Way[k][2]
  <2>1. i \in Nat /\ k \in Nat /\ 1 <= i
    BY <1>1, <1>2
  <2>2. CASE k \in 1..(d + q)
    <3>1. i \in 1..(d + q)
      BY <1>1, <1>12, <2>1, <2>2
    <3> QED BY <1>5, <1>7, <1>12, <2>2, <3>1
  <2>3. CASE k \notin 1..(d + q)
    <3>1. k - (d + q) \in DOMAIN pipe /\ Way[k] = pipe[k - (d + q)]
      BY <1>9, <2>3
    <3>2. PICK m \in DOMAIN pipe : m = k - (d + q) /\ Way[k] = pipe[m]
      BY <3>1
    <3>3. Way[k][2] \in (Handed + 1)..emitted
      BY <1>10, <1>12, <3>2
    <3>4. CASE i \in 1..(d + q)
      <4>1. Way[i][2] = i /\ i <= Handed
        BY <1>5, <1>7, <1>12, <3>4
      <4> QED BY <1>1, <1>6, <2>1, <3>3, <4>1
    <3>5. CASE i \notin 1..(d + q)
      <4>1. PICK j \in DOMAIN pipe : j = i - (d + q) /\ Way[i] = pipe[j]
        BY <1>9, <3>5
      <4>2. j < m
        BY <1>1, <1>12, <2>1, <3>2, <4>1
      <4>3. IsMessage(pipe[j]) /\ IsMessage(pipe[m])
        BY <1>1, <1>4, <1>12, <3>2, <4>1
      <4> QED BY <3>2, <4>1, <4>2, <4>3 DEF Placed
    <3> QED BY <3>4, <3>5
  <2> QED BY <2>2, <2>3
<1> QED BY <1>11, <1>12

\* Every variable has its type, whatever the server, the client, the consumer
\* and the session do.
THEOREM GatewayTypeCorrect == Spec => []TypeOK
<1>1. GatewayInv => TypeOK
  BY DEF GatewayInv
<1> QED BY <1>1, GatewayAlways, PTL

\* Until disconnect() no message is lost, repeated or overtaken between TDLib
\* and the consumer of updates() (_dispatch, _offer and _wait_for_room of
\* gateway.py).
THEOREM StreamStaysWhole == Spec => []StreamIsWhole
<1>1. GatewayInv => StreamIsWhole
  <2> SUFFICES ASSUME GatewayInv, ~closing PROVE StreamIsWhole
    BY DEF StreamIsWhole
  <2>1. TypeOK /\ Placed
    BY DEF GatewayInv, Flowing
  <2> QED BY <2>1, PlacedIsWhole DEF StreamIsWhole
<1> QED BY <1>1, GatewayAlways, PTL

\* A credential TDLib has accepted is not asked for again: the login waits for
\* the report of what it led to, and a report is never earlier than the view
\* (_await_change and start_authorization of gateway.py).
THEOREM AskedOnlyOnce == Spec => []AcceptedOnce
<1>1. GatewayInv => AcceptedOnce
  <2> SUFFICES ASSUME GatewayInv, session = "asking", reply = "ok", from = asked PROVE FALSE
    BY DEF AcceptedOnce
  <2>1. /\ asked \in Prompted \cup {"none", "parameters", "logout"} /\ 2 <= Rank(from)
        /\ asked \in Prompted => Rank(asked) < Rank(from)
    BY DEF GatewayInv, Asked
  <2>2. from \in Raw
    BY Types DEF GatewayInv
  <2>3. from \notin {"none", "parameters"} /\ Rank(from) \in Int
    BY <2>1, <2>2, RankOfRaw
  <2>4. from # "logout"
    BY <2>2 DEF Raw, Reported, Prompted, Dead
  <2>5. from \in Prompted
    BY <2>1, <2>3, <2>4
  <2> QED BY <2>1, <2>3, <2>5
<1> QED BY <1>1, GatewayAlways, PTL

\* A wait that gives up has missed nothing that was reported and read: TDLib
\* is where the session left it, or its report is still on the way.
THEOREM TimeoutsMissNothing == Spec => TimeoutMeansSilence
<1>1. GatewayInv /\ [Next]_vars =>
          [session # "timed_out" /\ session' = "timed_out"
              => Unheard \/ server = IF asked = "none" THEN from ELSE asked]_vars
  <2> SUFFICES ASSUME GatewayInv, Next, session # "timed_out", session' = "timed_out"
               PROVE  Unheard \/ server = IF asked = "none" THEN from ELSE asked
    OBVIOUS
  <2>1. Reports /\ Viewed /\ Asked /\ server \in Raw
    BY Types DEF GatewayInv
  <2>2. WaitTimesOut
    <3>1. ~Tdlib
      BY DEF Tdlib, Accept, Refuse, ServerCloses, EmitMessage, ClientFails, flow
    <3>2. ~Dispatch
      BY DEF Dispatch, AwaitRoom, HandleFrame, ClientEnded, DispatchStops, flow
    <3>3. ~Consumer
      BY DEF Consumer, Subscribe, TakeUpdate, NextUpdate, CancelConsumer, flow
    <3>4. ASSUME Connect \/ Known \/ ParametersAnswered \/ Settle \/ StartLogin \/ LoginEnds
          PROVE  FALSE
      BY <3>4 DEF Connect, Known, ParametersAnswered, Settle, StartLogin, LoginEnds, OrRaise, Go
    <3>5. ASSUME LoginStep \/ Submit \/ Submitted \/ Change
          PROVE  FALSE
      BY <3>5 DEF LoginStep, Submit, Submitted, Change, OrRaise, Go
    <3>6. ASSUME LogOut \/ LogOutAnswered \/ Part \/ Interrupt \/ Disconnect \/ Disconnected
          PROVE  FALSE
      BY <3>6 DEF LogOut, LogOutAnswered, Part, Interrupt, Disconnect, Disconnected, Go
    <3> QED BY <3>1, <3>2, <3>3, <3>4, <3>5, <3>6 DEF Next, Session
  <2>3. CASE session = "starting"
    <3>1. ~view.known
      BY <2>2, <2>3 DEF WaitTimesOut
    <3> QED BY <2>1, <2>3, <3>1 DEF Viewed, Unheard, IsAuth
  <2>4. CASE session \in {"settling", "changing"}
    <3>1. view.raw = from /\ session # "new"
      BY <2>2, <2>4 DEF WaitTimesOut, Changed
    <3>2. asked \in {"none", from}
      BY <2>1, <2>4 DEF Asked
    <3>3. CASE view.raw = server
      BY <3>1, <3>2, <3>3
    <3>4. CASE \E i \in DOMAIN pipe : pipe[i] = Auth(server)
      BY <3>4 DEF Unheard, Auth
    <3> QED BY <2>1, <3>1, <3>3, <3>4 DEF Reports
  <2> QED BY <2>2, <2>3, <2>4 DEF WaitTimesOut
<1> QED BY <1>1, GatewayAlways, PTL DEF Spec, TimeoutMeansSilence
=============================================================================
