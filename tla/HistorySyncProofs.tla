------------------------- MODULE HistorySyncProofs -------------------------
(***************************************************************************)
(* Theorems of HistorySync, for any number of chats and messages, any page *)
(* size and any horizons.                                                  *)
(*                                                                         *)
(* Bookkeeping is the first inductive invariant: where a command is, that  *)
(* the bookmark a backfill carries across its awaits is the one on record, *)
(* and that the ends of every bookmark are stored.  RangesHold adds what   *)
(* the pages, the stream and the catch-up of each chat must satisfy for    *)
(* everything between and beyond those ends to be accounted for.           *)
(***************************************************************************)
EXTENDS HistorySync, TLAPS, WellFoundedInduction, SequenceTheorems

-----------------------------------------------------------------------------
(***************************************************************************)
(* The least and the greatest message of a batch.                          *)
(***************************************************************************)
LEMMA LeastExists ==
    ASSUME NEW S \in SUBSET Nat, S # {}
    PROVE  \E x \in S : \A y \in S : x <= y
<1> DEFINE L == OpToRel(<, Nat)
<1>1. \A x, y \in S : <<y, x>> \in L <=> y < x
  BY DEF OpToRel
<1>2. IsWellFoundedOn(L, Nat)
  BY NatLessThanWellFounded, Zenon
<1> HIDE DEF L
<1>3. PICK x \in S : \A y \in S : ~ (<<y, x>> \in L)
  BY <1>2, WFMin, Zenon
<1>4. \A y \in S : ~ (y < x)
  BY <1>1, <1>3, Zenon
<1> QED BY <1>4

LEMMA GreatestExists ==
    ASSUME NEW N \in Nat, NEW S \in SUBSET (0..N), S # {}
    PROVE  \E x \in S : \A y \in S : x >= y
<1> DEFINE R == {N - x : x \in S}
<1>1. R \in SUBSET Nat /\ R # {}
  <2>1. \A x \in S : N - x \in Nat
    OBVIOUS
  <2>2. PICK x \in S : TRUE
    OBVIOUS
  <2>3. N - x \in R
    BY <2>2, Zenon
  <2> QED BY <2>1, <2>3, Zenon
<1>2. PICK r \in R : \A s \in R : r <= s
  <2> HIDE DEF R
  <2> QED BY <1>1, LeastExists
<1>3. PICK x \in S : r = N - x
  BY <1>2
<1>4. \A y \in S : x >= y
  BY <1>2, <1>3
<1> QED BY <1>4

\* A batch that is not empty has a least and a greatest message, and min() and
\* max() return them (_commit_batch and _store).
LEMMA BatchEnds ==
    ASSUME NEW S \in SUBSET Msg, S # {}
    PROVE  /\ Min(S) \in S /\ Max(S) \in S
           /\ \A m \in S : Min(S) <= m /\ m <= Max(S)
<1>1. S \in SUBSET Nat /\ S \in SUBSET (0..MaxMsg) /\ MaxMsg \in Nat
  BY BoundsAssumption DEF Msg
<1>2. \E x \in S : \A y \in S : x <= y
  BY <1>1, LeastExists
<1>3. \E x \in S : \A y \in S : x >= y
  BY <1>1, GreatestExists
<1>4. Min(S) \in S /\ \A y \in S : Min(S) <= y
  BY <1>2 DEF Min
<1>5. Max(S) \in S /\ \A y \in S : Max(S) >= y
  BY <1>3 DEF Max
<1> QED BY <1>1, <1>4, <1>5

-----------------------------------------------------------------------------
(***************************************************************************)
(* The bookmark's operations yield bookmarks.                              *)
(***************************************************************************)
LEMMA StartType ==
    ASSUME NEW h \in Horizons
    PROVE  Start(h) \in Cursors /\ ~HasSynced(Start(h))
  BY BoundsAssumption DEF Start, Cursors, Cursor, Msg, NoId, HasSynced

LEMMA WithBatchType ==
    ASSUME NEW k \in Cursors, NEW lo \in Msg, NEW hi \in Msg, lo <= hi
    PROVE  /\ WithBatch(k, lo, hi) \in Cursors
           /\ HasSynced(WithBatch(k, lo, hi))
           /\ WithBatch(k, lo, hi).oldest \in {k.oldest, lo}
           /\ WithBatch(k, lo, hi).newest \in {k.newest, hi}
           /\ WithBatch(k, lo, hi).oldest <= lo
           /\ WithBatch(k, lo, hi).newest >= hi
           /\ HasSynced(k) =>
                /\ WithBatch(k, lo, hi).oldest = Lesser(k.oldest, lo)
                /\ WithBatch(k, lo, hi).newest = Greater(k.newest, hi)
           /\ ~HasSynced(k) =>
                /\ WithBatch(k, lo, hi).oldest = lo
                /\ WithBatch(k, lo, hi).newest = hi
           /\ WithBatch(k, lo, hi).complete = k.complete
           /\ WithBatch(k, lo, hi).horizon = k.horizon
<1> DEFINE w == WithBatch(k, lo, hi)
<1>1. /\ k \in [oldest : Msg \cup {NoId}, newest : Msg \cup {NoId},
                 complete : BOOLEAN, horizon : Horizons]
      /\ k.oldest = NoId <=> k.newest = NoId
      /\ k.oldest <= k.newest
  BY DEF Cursors, Cursor
<1>2. /\ w.oldest = IF k.oldest = NoId THEN lo ELSE Lesser(k.oldest, lo)
      /\ w.newest = IF k.newest = NoId THEN hi ELSE Greater(k.newest, hi)
      /\ w.complete = k.complete /\ w.horizon = k.horizon
  BY <1>1 DEF WithBatch
<1>3. /\ w.oldest \in Msg /\ w.newest \in Msg /\ w.oldest <= w.newest
      /\ w.oldest \in {k.oldest, lo} /\ w.newest \in {k.newest, hi}
      /\ w.oldest <= lo /\ w.newest >= hi
  BY <1>1, <1>2, BoundsAssumption DEF Lesser, Greater, Msg, NoId
<1>4. w \in [oldest : Msg \cup {NoId}, newest : Msg \cup {NoId},
             complete : BOOLEAN, horizon : Horizons]
  BY <1>1, <1>3 DEF WithBatch
<1>5. w \in Cursors /\ w.oldest # NoId
  BY <1>3, <1>4, BoundsAssumption DEF Cursors, Cursor, NoId, Msg
<1> QED BY <1>1, <1>2, <1>3, <1>5 DEF HasSynced

LEMMA CompletedType ==
    ASSUME NEW k \in Cursors, NEW h \in Horizons
    PROVE  /\ Completed(k, h) \in Cursors
           /\ Completed(k, h).oldest = k.oldest
           /\ Completed(k, h).newest = k.newest
           /\ Completed(k, h).complete
           /\ Completed(k, h).horizon = h
  BY DEF Completed, Cursors, Cursor

LEMMA ReopenedType ==
    ASSUME NEW k \in Cursors, NEW h \in Horizons
    PROVE  /\ Reopened(k, h) \in Cursors
           /\ Reopened(k, h).oldest = k.oldest
           /\ Reopened(k, h).newest = k.newest
           /\ ~Reopened(k, h).complete
  BY DEF Reopened, Cursors, Cursor

LEMMA CursorFields ==
    ASSUME NEW k \in Cursors
    PROVE  /\ k.oldest \in 0..MaxMsg /\ k.newest \in 0..MaxMsg
           /\ k.horizon \in Horizons /\ k.complete \in BOOLEAN
           /\ HasSynced(k) => k.oldest \in Msg /\ k.newest \in Msg /\ k.oldest <= k.newest
           /\ ~HasSynced(k) => k.oldest = 0 /\ k.newest = 0
  BY BoundsAssumption DEF Cursors, Cursor, Msg, NoId, HasSynced

-----------------------------------------------------------------------------
(***************************************************************************)
(* The inductive invariant.                                                *)
(***************************************************************************)
\* Where each command may be, and that it has a page left to ask for.
Control ==
    /\ mode = "none" <=> pc = "idle"
    /\ pc \in {"begin", "next", "drain", "store"} => mode = "live"
    /\ pc = "reopen" => mode = "backfill"
    /\ pc \in {"reopen", "fetch", "commit"} => left # 0

\* The bookmark a backfill carries across its awaits is the one on record.
HeldIsCurrent == mode = "backfill" => cursors[chat] = cursor

Bookkeeping == TypeOK /\ Control /\ HeldIsCurrent /\ CursorNamesStored

LEMMA SkipType ==
    ASSUME TypeOK, NEW c \in Chats, NEW S, NEW why \in Reasons
    PROVE  /\ Skip(c, S, why) \in [Chats -> [Msg -> Reasons \cup {"no"}]]
           /\ \A d \in Chats : d # c => Skip(c, S, why)[d] = missed[d]
           /\ \A m \in Msg : Skip(c, S, why)[c][m] =
                  IF m \in S \ messages[c] THEN why ELSE missed[c][m]
  BY DEF TypeOK, Skip

LEMMA StoredType ==
    ASSUME NEW accounts \in [Chats -> [Msg -> Reasons \cup {"no"}]],
           NEW c \in Chats, NEW S
    PROVE  /\ Stored(accounts, c, S) \in [Chats -> [Msg -> Reasons \cup {"no"}]]
           /\ \A d \in Chats : d # c => Stored(accounts, c, S)[d] = accounts[d]
           /\ \A m \in Msg : Stored(accounts, c, S)[c][m] =
                  IF m \in S THEN "no" ELSE accounts[c][m]
  BY DEF Stored

\* The page Telegram returns is a run of messages that ends at the newest one
\* below the position asked for, and is empty only when there is none.
LEMMA PageIsRun ==
    ASSUME TypeOK, NEW c \in Chats, NEW m \in 0..MaxMsg,
           NEW P \in PagesBelow(c, m)
    PROVE  /\ P \in SUBSET Msg
           /\ NewestBelow(c, m) \in 0..MaxMsg
           /\ P = {} => NewestBelow(c, m) = 0
           /\ P # {} => \E lo \in Msg : lo <= NewestBelow(c, m)
                                       /\ P = lo..NewestBelow(c, m)
<1>1. NewestBelow(c, m) \in 0..MaxMsg
  BY BoundsAssumption DEF TypeOK, NewestBelow, Lesser, NoId
<1>2. CASE NewestBelow(c, m) = 0
  BY <1>1, <1>2 DEF PagesBelow
<1>3. CASE NewestBelow(c, m) # 0
  <2>1. PICK lo \in Greater(1, NewestBelow(c, m) - BatchSize + 1)..NewestBelow(c, m) :
            P = lo..NewestBelow(c, m)
    BY <1>3 DEF PagesBelow
  <2>2. lo \in Msg /\ lo <= NewestBelow(c, m) /\ P \subseteq Msg /\ lo \in P
    BY <1>1, <2>1, BoundsAssumption DEF Greater, Msg
  <2> QED BY <1>1, <2>1, <2>2
<1> QED BY <1>2, <1>3

LEMMA CurrentType ==
    ASSUME TypeOK, NEW c \in Chats
    PROVE  /\ Current(c) \in Cursors
           /\ Ranged(c) <=> HasSynced(Current(c))
           /\ Ranged(c) => cursors[c] = Current(c) /\ cursors[c] \in Cursors
           /\ cursors[c] # NoCursor => cursors[c] = Current(c)
  BY StartType, HorizonsAssumption DEF TypeOK, Current, Ranged

\* What a backfill keeps of a page, and the bookmark it takes down.
LEMMA AdvanceType ==
    ASSUME TypeOK, Within(page) # {}
    PROVE  /\ Advance(Within(page)) \in Cursors
           /\ HasSynced(Advance(Within(page)))
           /\ {Min(Within(page)), Max(Within(page))} \subseteq Within(page)
           /\ Advance(Within(page)).oldest \in {cursor.oldest, Min(Within(page))}
           /\ Advance(Within(page)).newest \in {cursor.newest, Max(Within(page))}
<1>1. Within(page) \in SUBSET Msg
  BY DEF TypeOK, Within
<1>2. /\ Min(Within(page)) \in Within(page) /\ Max(Within(page)) \in Within(page)
      /\ Min(Within(page)) <= Max(Within(page))
  BY <1>1, BatchEnds, Zenon
<1>3. cursor \in Cursors
  BY DEF TypeOK
<1> QED BY <1>1, <1>2, <1>3, WithBatchType DEF Advance

-----------------------------------------------------------------------------
LEMMA BookkeepingInit == Init => Bookkeeping
<1> SUFFICES ASSUME Init PROVE Bookkeeping
  OBVIOUS
<1>1. TypeOK
  <2>1. Start(Unlimited) \in Cursors
    BY StartType, HorizonsAssumption
  <2> QED BY <2>1, BoundsAssumption, HorizonsAssumption
          DEF Init, TypeOK, Modes, Steps, Nothing, NoId
<1>2. Control /\ HeldIsCurrent /\ CursorNamesStored
  BY DEF Init, Control, HeldIsCurrent, CursorNamesStored, Ranged
<1> QED BY <1>1, <1>2 DEF Bookkeeping

\* The bookmark of c becomes k, and the messages of c grow by S: that the ends
\* of every bookmark are stored survives when those of k are.
LEMMA SavedNamesStored ==
    ASSUME TypeOK, CursorNamesStored, NEW c \in Chats, NEW k \in Cursors, NEW S,
           Save(c, k), messages' = [messages EXCEPT ![c] = @ \cup S],
           HasSynced(k) => {k.oldest, k.newest} \subseteq messages[c] \cup S
    PROVE  CursorNamesStored'
<1> SUFFICES ASSUME NEW d \in Chats, Ranged(d)'
             PROVE  {cursors'[d].oldest, cursors'[d].newest} \subseteq messages'[d]
  BY DEF CursorNamesStored
<1>1. CASE d = c
  <2>1. cursors'[c] = k /\ messages'[c] = messages[c] \cup S
    BY DEF TypeOK, Save
  <2> QED BY <1>1, <2>1 DEF Ranged
<1>2. CASE d # c
  <2>1. cursors'[d] = cursors[d] /\ messages'[d] = messages[d]
    BY <1>2 DEF TypeOK, Save
  <2> QED BY <2>1 DEF Ranged, CursorNamesStored
<1> QED BY <1>1, <1>2

LEMMA SavedType ==
    ASSUME TypeOK, NEW c \in Chats, NEW k \in Cursors, Save(c, k)
    PROVE  /\ cursors' \in [Chats -> Cursors \cup {NoCursor}]
           /\ cursors'[c] = k
           /\ \A d \in Chats : d # c => cursors'[d] = cursors[d]
  BY DEF TypeOK, Save

LEMMA IngestedType ==
    ASSUME TypeOK, NEW c \in Chats, NEW S \in SUBSET Msg, Ingest(c, S)
    PROVE  /\ messages' \in [Chats -> SUBSET Msg]
           /\ messages'[c] = messages[c] \cup S
           /\ \A d \in Chats : d # c => messages'[d] = messages[d]
  BY DEF TypeOK, Ingest

\* What ending a run leaves in the variables of the run.
LEMMA RestType ==
    ASSUME TypeOK, Rest
    PROVE  /\ mode' = "none" /\ pc' = "idle" /\ chat' \in Chats
           /\ cursor' \in Cursors /\ horizon' \in Horizons
           /\ left' = 0 /\ page' = {} /\ target' \in [Chats -> 0..MaxMsg]
           /\ before' \in 0..MaxMsg /\ catchUp' \in BOOLEAN
  BY StartType, HorizonsAssumption, BoundsAssumption DEF TypeOK, Rest, Nothing, NoId

LEMMA BookkeepingStep == Bookkeeping /\ [Next]_vars => Bookkeeping'
<1> SUFFICES ASSUME Bookkeeping, [Next]_vars PROVE Bookkeeping'
  OBVIOUS
<1> USE DEF Bookkeeping
<1>k. ASSUME UNCHANGED store PROVE CursorNamesStored'
  BY <1>k DEF store, CursorNamesStored, Ranged
<1>1. ASSUME NEW c \in Chats, Arrive(c) PROVE Bookkeeping'
  <2>1. TypeOK'
    BY <1>1, BoundsAssumption, SMTT(30) DEF TypeOK, Arrive, store, run, Msg
  <2> QED BY <2>1, <1>1, <1>k DEF Arrive, run, store, Control, HeldIsCurrent
<1>2. ASSUME NEW c \in Chats, Redeliver(c) PROVE Bookkeeping'
  <2>1. TypeOK'
    BY <1>2 DEF TypeOK, Redeliver, store, run
  <2> QED BY <2>1, <1>2, <1>k DEF Redeliver, run, store, Control, HeldIsCurrent
<1>3. ASSUME NEW c \in Chats, SetPolicy(c) PROVE Bookkeeping'
  <2>1. TypeOK'
    BY <1>3 DEF TypeOK, SetPolicy, store, run
  <2> QED BY <2>1, <1>3, <1>k DEF SetPolicy, run, store, Control, HeldIsCurrent
<1>4. ASSUME NEW c \in Chats, NEW h \in Horizons, NEW reset \in BOOLEAN,
             NEW n \in 1..MaxBatches, BeginBackfill(c, h, reset, n)
      PROVE  Bookkeeping'
  <2> DEFINE held == IF reset \/ cursors[c] = NoCursor THEN Start(h) ELSE cursors[c]
  <2>1. /\ held \in Cursors
        /\ HasSynced(held) => Ranged(c) /\ held = cursors[c]
    BY StartType DEF TypeOK, Ranged
  <2>2. /\ Save(c, held)
        /\ mode' = "backfill" /\ pc' = IF held.complete THEN "reopen" ELSE "fetch"
        /\ chat' = c /\ cursor' = held /\ horizon' = h /\ left' = n
        /\ UNCHANGED <<top, syncEnabled, messages, page, target, before,
                       catchUp, queue, missed>>
    BY <1>4 DEF BeginBackfill
  <2>h. HIDE DEF held
  <2>3. TypeOK'
    <3>1. cursors' \in [Chats -> Cursors \cup {NoCursor}]
      BY <2>1, <2>2, SavedType
    <3> QED BY <2>1, <2>2, <3>1, BoundsAssumption DEF TypeOK, Modes, Steps
  <2>4. Control'
    BY <2>2, BoundsAssumption DEF Control
  <2>5. HeldIsCurrent'
    BY <2>1, <2>2, SavedType DEF HeldIsCurrent
  <2>6. CursorNamesStored'
    <3>1. messages' = [messages EXCEPT ![c] = @ \cup {}]
      BY <2>2 DEF TypeOK
    <3>2. HasSynced(held) => {held.oldest, held.newest} \subseteq messages[c] \cup {}
      BY <2>1 DEF CursorNamesStored
    <3> QED BY <2>1, <2>2, <3>1, <3>2, SavedNamesStored
  <2> QED BY <2>3, <2>4, <2>5, <2>6
<1>5. ASSUME Reopen PROVE Bookkeeping'
  <2> DEFINE k == Reopened(cursor, horizon)
  <2>1. k \in Cursors /\ k.oldest = cursor.oldest /\ k.newest = cursor.newest
    BY ReopenedType DEF TypeOK
  <2>2. /\ Save(chat, k) /\ cursor' = k /\ pc' = "fetch" /\ pc = "reopen"
        /\ UNCHANGED <<top, syncEnabled, messages, mode, chat, horizon, left,
                       page, target, before, catchUp, queue, missed>>
    BY <1>5 DEF Reopen
  <2>h. HIDE DEF k
  <2>3. TypeOK'
    <3>1. cursors' \in [Chats -> Cursors \cup {NoCursor}]
      BY <2>1, <2>2, SavedType DEF TypeOK
    <3> QED BY <2>1, <2>2, <3>1 DEF TypeOK, Steps
  <2>4. Control'
    BY <2>2 DEF Control
  <2>5. HeldIsCurrent'
    BY <2>1, <2>2, SavedType DEF HeldIsCurrent, TypeOK
  <2>6. CursorNamesStored'
    <3>1. messages' = [messages EXCEPT ![chat] = @ \cup {}]
      BY <2>2 DEF TypeOK
    <3>2. HasSynced(k) => {k.oldest, k.newest} \subseteq messages[chat] \cup {}
      BY <2>1, <2>2, NoCursorAssumption
      DEF CursorNamesStored, Control, HeldIsCurrent, Ranged, HasSynced, TypeOK
    <3> QED BY <2>1, <2>2, <3>1, <3>2, SavedNamesStored DEF TypeOK
  <2> QED BY <2>3, <2>4, <2>5, <2>6
<1>6. ASSUME CompleteBackfill PROVE Bookkeeping'
  <2> DEFINE k == Completed(cursor, horizon)
  <2>1. k \in Cursors /\ k.oldest = cursor.oldest /\ k.newest = cursor.newest
    BY CompletedType DEF TypeOK
  <2>2. /\ Save(chat, k) /\ Rest /\ mode = "backfill"
        /\ UNCHANGED <<top, syncEnabled, messages, queue, missed>>
    BY <1>6 DEF CompleteBackfill
  <2>h. HIDE DEF k
  <2>3. TypeOK'
    <3>1. cursors' \in [Chats -> Cursors \cup {NoCursor}]
      BY <2>1, <2>2, SavedType DEF TypeOK
    <3> QED BY <2>2, <3>1, RestType DEF TypeOK, Modes, Steps
  <2>4. Control' /\ HeldIsCurrent'
    BY <2>2, RestType DEF Control, HeldIsCurrent
  <2>5. CursorNamesStored'
    <3>1. messages' = [messages EXCEPT ![chat] = @ \cup {}]
      BY <2>2 DEF TypeOK
    <3>2. HasSynced(k) => {k.oldest, k.newest} \subseteq messages[chat] \cup {}
      BY <2>1, <2>2, NoCursorAssumption
      DEF CursorNamesStored, HeldIsCurrent, Ranged, HasSynced, TypeOK
    <3> QED BY <2>1, <2>2, <3>1, <3>2, SavedNamesStored DEF TypeOK
  <2> QED BY <2>3, <2>4, <2>5
<1>7. ASSUME CommitBatch PROVE Bookkeeping'
  <2> DEFINE keep == Within(page)
             reached == keep # page
             k == IF reached THEN Completed(Advance(keep), horizon) ELSE Advance(keep)
             stuck == ResumeFrom(k) = ResumeFrom(cursor)
             ends == reached \/ stuck \/ left = 1
  <2>1. /\ mode = "backfill" /\ pc = "commit" /\ keep # {}
        /\ Ingest(chat, keep)
        /\ missed' = Stored(missed, chat, keep)
        /\ Save(chat, k)
        /\ \/ Rest
           \/ /\ cursor' = k
              /\ left' = IF ends THEN 0 ELSE left - 1
              /\ \/ ~ends /\ pc' = "fetch" /\ page' = {}
                 \/ pc' = "publish" /\ page' = keep
              /\ UNCHANGED <<mode, chat, horizon, target, before, catchUp>>
        /\ UNCHANGED <<top, syncEnabled, queue>>
    BY <1>7 DEF CommitBatch
  <2>2. /\ k \in Cursors /\ HasSynced(k)
        /\ {Min(keep), Max(keep)} \subseteq keep
        /\ k.oldest \in {cursor.oldest, Min(keep)} /\ k.newest \in {cursor.newest, Max(keep)}
    BY <2>1, AdvanceType, CompletedType DEF TypeOK, HasSynced
  <2>3. keep \in SUBSET Msg
    BY DEF TypeOK, Within
  <2>4. left # 0 /\ left \in Nat
    BY <2>1 DEF TypeOK, Control
  <2>h. HIDE DEF keep, k, ends
  <2>5. TypeOK'
    <3>1. cursors' \in [Chats -> Cursors \cup {NoCursor}]
      BY <2>1, <2>2, SavedType DEF TypeOK
    <3>2. messages' \in [Chats -> SUBSET Msg]
      BY <2>1, <2>3, IngestedType DEF TypeOK
    <3>3. missed' \in [Chats -> [Msg -> Reasons \cup {"no"}]]
      BY <2>1, StoredType DEF TypeOK
    <3>4. CASE Rest
      <4>1. /\ mode' \in Modes /\ pc' \in Steps /\ chat' \in Chats
            /\ cursor' \in Cursors /\ horizon' \in Horizons
            /\ left' \in Nat /\ page' \in SUBSET Msg
            /\ target' \in [Chats -> 0..MaxMsg]
            /\ before' \in 0..MaxMsg /\ catchUp' \in BOOLEAN
        BY <3>4, RestType DEF Modes, Steps
      <4> QED BY <2>1, <3>1, <3>2, <3>3, <4>1 DEF TypeOK
    <3>5. CASE ~Rest
      BY <2>1, <2>2, <2>3, <2>4, <3>1, <3>2, <3>3, <3>5 DEF TypeOK, Modes, Steps
    <3> QED BY <3>4, <3>5
  <2>6. Control'
    <3>1. CASE Rest
      BY <3>1, RestType DEF Control
    <3>2. CASE ~Rest
      <4>1. ~ends => left # 1
        BY DEF ends
      <4> QED BY <2>1, <2>4, <3>2, <4>1 DEF Control
    <3> QED BY <3>1, <3>2
  <2>7. HeldIsCurrent'
    BY <2>1, <2>2, SavedType, RestType DEF HeldIsCurrent, TypeOK
  <2>8. CursorNamesStored'
    <3>1. {k.oldest, k.newest} \subseteq messages[chat] \cup keep
      <4>1. CASE HasSynced(cursor)
        <5>1. {cursor.oldest, cursor.newest} \subseteq messages[chat]
          BY <2>1, <4>1, NoCursorAssumption
          DEF CursorNamesStored, HeldIsCurrent, Ranged, TypeOK
        <5> QED BY <2>2, <5>1
      <4>2. CASE ~HasSynced(cursor)
        <5>1. cursor.oldest = 0 /\ cursor.newest = 0 /\ k.oldest \in Msg /\ k.newest \in Msg
          BY <2>2, <4>2, CursorFields DEF TypeOK
        <5> QED BY <2>2, <5>1, BoundsAssumption DEF Msg
      <4> QED BY <4>1, <4>2
    <3> QED BY <2>1, <2>2, <3>1, SavedNamesStored DEF TypeOK, Ingest
  <2> QED BY <2>5, <2>6, <2>7, <2>8
<1>8. ASSUME NEW withCatchUp \in BOOLEAN, StartLive(withCatchUp) PROVE Bookkeeping'
  <2>1. TypeOK'
    BY <1>8 DEF TypeOK, StartLive, store, Modes, Steps
  <2> QED BY <2>1, <1>8, <1>k DEF StartLive, store, Control, HeldIsCurrent
<1>9. ASSUME BeginLive PROVE Bookkeeping'
  <2>1. /\ target' \in [Chats -> 0..MaxMsg]
        /\ missed' \in [Chats -> [Msg -> Reasons \cup {"no"}]]
    <3>1. \A c \in Chats : Followable(c) => cursors[c].newest \in 0..MaxMsg
      BY CurrentType, CursorFields DEF Followable
    <3>2. \A c \in Chats : PassedOver(c) \in [Msg -> Reasons \cup {"no"}]
      <4> SUFFICES ASSUME NEW c \in Chats
                   PROVE  PassedOver(c) \in [Msg -> Reasons \cup {"no"}]
        OBVIOUS
      <4>1. missed[c] \in [Msg -> Reasons \cup {"no"}]
        BY DEF TypeOK
      <4> DEFINE S == cursors[c].newest + 1..top[c]
                 why == IF syncEnabled[c] THEN "nocatchup" ELSE "off"
      <4>2. why \in Reasons
        BY DEF Reasons, Decided
      <4> HIDE DEF S, why
      <4>3. Skip(c, S, why)[c] \in [Msg -> Reasons \cup {"no"}]
        BY <4>2, SkipType
      <4> QED BY <4>1, <4>3 DEF PassedOver, S, why
    <3>3. 0 \in 0..MaxMsg
      BY BoundsAssumption
    <3> QED BY <1>9, <3>1, <3>2, <3>3 DEF BeginLive
  <2>2. /\ pc' \in {"drain", "next"} /\ pc = "begin"
        /\ UNCHANGED <<top, syncEnabled, messages, cursors, mode, chat, cursor, horizon,
                       left, page, before, catchUp, queue>>
    BY <1>9 DEF BeginLive, store
  <2>3. TypeOK'
    BY <2>1, <2>2 DEF TypeOK, Steps
  <2> QED BY <2>2, <2>3, <1>k DEF store, Control, HeldIsCurrent
<1>10. ASSUME NextChat PROVE Bookkeeping'
  <2>1. TypeOK'
    BY <1>10, BoundsAssumption DEF TypeOK, NextChat, NoId, store, Steps
  <2> QED BY <2>1, <1>10, <1>k, BoundsAssumption
          DEF NextChat, store, Control, HeldIsCurrent
<1>11. ASSUME CommitCatchUp PROVE Bookkeeping'
  <2> DEFINE fresh == Fresh
             ends == page = {} \/ fresh # page \/ left = 1
             cut == IF page # {} /\ fresh = page /\ left = 1
                    THEN target[chat] + 1..Min(page) - 1 ELSE {}
             rest == IF ends THEN [target EXCEPT ![chat] = 0] ELSE target
             known == fresh \subseteq messages[chat]
             k == WithBatch(Current(chat), Min(fresh), Max(fresh))
             back == IF page = {} THEN before ELSE Min(page)
  <2>1. /\ mode = "live" /\ pc = "commit"
        /\ \/ known /\ UNCHANGED <<messages, cursors>>
           \/ ~known /\ Ingest(chat, fresh) /\ Save(chat, k)
        /\ target' = rest
        /\ left' = IF ends THEN 0 ELSE left - 1
        /\ before' = back
        /\ page' = IF known THEN {} ELSE fresh
        /\ \/ ends /\ pc' \in {"publish", "drain", "next"}
           \/ ~ends /\ pc' \in {"publish", "fetch"}
        /\ missed' = Stored(Skip(chat, cut, "limit"), chat, fresh)
        /\ UNCHANGED <<top, syncEnabled, mode, chat, cursor, horizon, catchUp, queue>>
    BY <1>11 DEF CommitCatchUp
  <2>2. fresh \in SUBSET Msg
    BY DEF TypeOK, Fresh
  <2>3. ~known => /\ k \in Cursors
                  /\ {k.oldest, k.newest}
                        \subseteq {Current(chat).oldest, Current(chat).newest} \cup fresh
                  /\ k.oldest \in Msg /\ k.newest \in Msg
    <3> SUFFICES ASSUME ~known
                 PROVE  /\ k \in Cursors
                        /\ {k.oldest, k.newest}
                              \subseteq {Current(chat).oldest, Current(chat).newest} \cup fresh
                        /\ k.oldest \in Msg /\ k.newest \in Msg
      OBVIOUS
    <3>1. fresh # {}
      OBVIOUS
    <3> HIDE DEF fresh
    <3>2. Min(fresh) \in fresh /\ Max(fresh) \in fresh /\ Min(fresh) <= Max(fresh)
      BY <2>2, <3>1, BatchEnds
    <3>3. Current(chat) \in Cursors
      BY CurrentType DEF TypeOK
    <3>4. /\ k \in Cursors /\ HasSynced(k)
          /\ k.oldest \in {Current(chat).oldest, Min(fresh)}
          /\ k.newest \in {Current(chat).newest, Max(fresh)}
      BY <2>2, <3>2, <3>3, WithBatchType
    <3> HIDE DEF k
    <3> QED BY <3>2, <3>4, CursorFields
  <2>4. left # 0 /\ left \in Nat
    BY <2>1 DEF TypeOK, Control
  <2>5. back \in 0..MaxMsg
    <3>1. page # {} => Min(page) \in Msg
      BY BatchEnds DEF TypeOK
    <3> QED BY <3>1, BoundsAssumption DEF TypeOK, Msg
  <2>6. rest \in [Chats -> 0..MaxMsg]
    BY BoundsAssumption DEF TypeOK
  <2>7. missed' \in [Chats -> [Msg -> Reasons \cup {"no"}]]
    <3>1. "limit" \in Reasons
      BY DEF Reasons, Decided
    <3> HIDE DEF cut, fresh
    <3>2. Skip(chat, cut, "limit") \in [Chats -> [Msg -> Reasons \cup {"no"}]]
      BY <3>1, SkipType DEF TypeOK
    <3> QED BY <2>1, <3>2, StoredType DEF TypeOK
  <2>8. ends \/ left # 1
    OBVIOUS
  <2>h. HIDE DEF fresh, ends, cut, rest, known, k, back
  <2>9. TypeOK'
    <3>1. cursors' \in [Chats -> Cursors \cup {NoCursor}]
      BY <2>1, <2>3, SavedType DEF TypeOK
    <3>2. messages' \in [Chats -> SUBSET Msg]
      BY <2>1, <2>2, IngestedType DEF TypeOK
    <3>3. left' \in Nat /\ pc' \in Steps /\ page' \in SUBSET Msg
      BY <2>1, <2>2, <2>4 DEF Steps
    <3> QED BY <2>1, <2>5, <2>6, <2>7, <3>1, <3>2, <3>3 DEF TypeOK
  <2>10. Control' /\ HeldIsCurrent'
    BY <2>1, <2>4, <2>8 DEF Control, HeldIsCurrent
  <2>11. CursorNamesStored'
    <3>1. CASE UNCHANGED <<messages, cursors>>
      BY <3>1, <1>k DEF store
    <3>2. CASE ~known /\ Ingest(chat, fresh) /\ Save(chat, k)
      <4>1. {k.oldest, k.newest} \subseteq messages[chat] \cup fresh
        <5>1. CASE Ranged(chat)
          <6>1. {Current(chat).oldest, Current(chat).newest} \subseteq messages[chat]
            BY <5>1, CurrentType DEF CursorNamesStored, TypeOK
          <6> QED BY <2>3, <3>2, <6>1
        <5>2. CASE ~Ranged(chat)
          <6>1. Current(chat).oldest = 0 /\ Current(chat).newest = 0
            BY <5>2, CurrentType, CursorFields DEF TypeOK
          <6> QED BY <2>3, <3>2, <6>1, BoundsAssumption DEF Msg
        <5> QED BY <5>1, <5>2
      <4> QED BY <2>3, <3>2, <4>1, SavedNamesStored DEF TypeOK, Ingest
    <3> QED BY <2>1, <3>1, <3>2
  <2> QED BY <2>9, <2>10, <2>11
<1>12. ASSUME Take PROVE Bookkeeping'
  <2> DEFINE c == Head(queue)[1]
             m == Head(queue)[2]
  <2>1. c \in Chats /\ m \in Msg /\ Tail(queue) \in Seq(Chats \X Msg)
    BY <1>12 DEF Take, TypeOK
  <2>2. /\ \/ /\ missed' = Skip(c, {m}, "off")
              /\ UNCHANGED <<pc, chat, page>>
           \/ /\ pc' = "store" /\ chat' = c /\ page' = {m}
              /\ UNCHANGED missed
        /\ pc = "drain" /\ queue' = Tail(queue)
        /\ UNCHANGED <<top, syncEnabled, messages, cursors, mode, cursor, horizon, left,
                       target, before, catchUp>>
    BY <1>12 DEF Take, store
  <2>h. HIDE DEF c, m
  <2>3. TypeOK'
    <3>1. missed' \in [Chats -> [Msg -> Reasons \cup {"no"}]]
      <4>1. "off" \in Reasons
        BY DEF Reasons, Decided
      <4>2. Skip(c, {m}, "off") \in [Chats -> [Msg -> Reasons \cup {"no"}]]
        BY <2>1, <4>1, SkipType
      <4> QED BY <2>2, <4>2 DEF TypeOK
    <3> QED BY <2>1, <2>2, <3>1 DEF TypeOK, Steps
  <2> QED BY <2>2, <2>3, <1>k DEF store, Control, HeldIsCurrent
<1>13. ASSUME StoreUpdate PROVE Bookkeeping'
  <2>1. CASE page \subseteq messages[chat]
    <3>1. /\ pc = "store" /\ pc' = "drain" /\ page' = {}
          /\ UNCHANGED <<top, syncEnabled, messages, cursors, mode, chat, cursor, horizon,
                         left, target, before, catchUp, queue, missed>>
      BY <1>13, <2>1 DEF StoreUpdate
    <3>2. TypeOK'
      BY <3>1 DEF TypeOK, Steps
    <3> QED BY <3>1, <3>2, <1>k DEF store, Control, HeldIsCurrent
  <2>2. CASE ~(page \subseteq messages[chat])
    <3>1. PICK m \in page \ messages[chat] :
             /\ Ingest(chat, {m})
             /\ Save(chat, WithBatch(Current(chat), m, m))
             /\ missed' = Stored(Unfilled(chat, m), chat, {m})
             /\ pc' = "publish" /\ UNCHANGED page
      BY <1>13, <2>2 DEF StoreUpdate
    <3> DEFINE k == WithBatch(Current(chat), m, m)
    <3>2. /\ pc = "store"
          /\ UNCHANGED <<top, syncEnabled, mode, chat, cursor, horizon, left,
                         target, before, catchUp, queue>>
      BY <1>13 DEF StoreUpdate
    <3>3. m \in Msg /\ m <= m /\ Current(chat) \in Cursors
      BY CurrentType, BoundsAssumption DEF TypeOK, Msg
    <3>4. /\ k \in Cursors /\ HasSynced(k)
          /\ k.oldest \in {Current(chat).oldest, m} /\ k.newest \in {Current(chat).newest, m}
      BY <3>3, WithBatchType
    <3>h. HIDE DEF k
    <3>5. k.oldest \in Msg /\ k.newest \in Msg
      BY <3>4, CursorFields
    <3>6. TypeOK'
      <4>1. cursors' \in [Chats -> Cursors \cup {NoCursor}]
        BY <3>1, <3>4, SavedType DEF TypeOK, k
      <4>2. messages' \in [Chats -> SUBSET Msg]
        BY <3>1, <3>3, IngestedType DEF TypeOK
      <4>3. Unfilled(chat, m) \in [Chats -> [Msg -> Reasons \cup {"no"}]]
        <5>1. "unfilled" \in Reasons
          BY DEF Reasons, Undecided
        <5> DEFINE S == {n \in 1..m - 1 : SentAt[n] >= Current(chat).horizon}
        <5>2. Unfilled(chat, m) \in {Skip(chat, S, "unfilled"), missed}
          BY DEF Unfilled
        <5> HIDE DEF S
        <5>3. Skip(chat, S, "unfilled") \in [Chats -> [Msg -> Reasons \cup {"no"}]]
          BY <5>1, SkipType DEF TypeOK
        <5>4. missed \in [Chats -> [Msg -> Reasons \cup {"no"}]]
          BY DEF TypeOK
        <5> HIDE DEF S
        <5> QED BY <5>2, <5>3, <5>4, Zenon
      <4>4. missed' \in [Chats -> [Msg -> Reasons \cup {"no"}]]
        <5>1. chat \in Chats
          BY DEF TypeOK
        <5>2. Stored(Unfilled(chat, m), chat, {m}) \in [Chats -> [Msg -> Reasons \cup {"no"}]]
          BY <4>3, <5>1, StoredType, Zenon
        <5> QED BY <3>1, <5>2, Zenon
      <4> QED BY <3>1, <3>2, <4>1, <4>2, <4>4 DEF TypeOK, Steps
    <3>7. Control' /\ HeldIsCurrent'
      BY <3>1, <3>2 DEF Control, HeldIsCurrent
    <3>8. CursorNamesStored'
      <4>1. {k.oldest, k.newest} \subseteq messages[chat] \cup {m}
        <5>1. CASE Ranged(chat)
          <6>1. {Current(chat).oldest, Current(chat).newest} \subseteq messages[chat]
            BY <5>1, CurrentType DEF CursorNamesStored, TypeOK
          <6> QED BY <3>4, <6>1
        <5>2. CASE ~Ranged(chat)
          <6>1. Current(chat).oldest = 0 /\ Current(chat).newest = 0
            BY <5>2, CurrentType, CursorFields DEF TypeOK
          <6> QED BY <3>4, <3>5, <6>1, BoundsAssumption DEF Msg
        <5> QED BY <5>1, <5>2
      <4> QED BY <3>1, <3>4, <4>1, SavedNamesStored DEF TypeOK, Ingest, k
    <3> QED BY <3>6, <3>7, <3>8
  <2> QED BY <2>1, <2>2
<1>14. ASSUME FailUpdate PROVE Bookkeeping'
  <2>1. /\ pc = "store" /\ missed' = Skip(chat, page, "failed")
        /\ pc' = "drain" /\ page' = {}
        /\ UNCHANGED <<top, syncEnabled, messages, cursors, mode, chat, cursor, horizon,
                       left, target, before, catchUp, queue>>
    BY <1>14 DEF FailUpdate, store
  <2>2. "failed" \in Reasons
    BY DEF Reasons, Decided
  <2>3. missed' \in [Chats -> [Msg -> Reasons \cup {"no"}]]
    BY <2>1, <2>2, SkipType DEF TypeOK
  <2>4. TypeOK'
    BY <2>1, <2>3 DEF TypeOK, Steps
  <2> QED BY <2>1, <2>4, <1>k DEF store, Control, HeldIsCurrent
<1>15. ASSUME Fetch PROVE Bookkeeping'
  <2> DEFINE from == IF mode = "backfill" THEN ResumeFrom(cursor) ELSE before
  <2>1. /\ pc = "fetch" /\ pc' = "commit" /\ page' \in PagesBelow(chat, from)
        /\ UNCHANGED <<top, syncEnabled, messages, cursors, mode, chat, cursor, horizon,
                       left, target, before, catchUp, queue, missed>>
    BY <1>15 DEF Fetch, store
  <2>2. from \in 0..MaxMsg
    BY CursorFields DEF TypeOK, ResumeFrom
  <2>h. HIDE DEF from
  <2>3. page' \in SUBSET Msg
    BY <2>1, <2>2, PageIsRun DEF TypeOK
  <2>4. TypeOK'
    BY <2>1, <2>3 DEF TypeOK, Steps
  <2> QED BY <2>1, <2>4, <1>k DEF store, Control, HeldIsCurrent
<1>16. ASSUME Publish PROVE Bookkeeping'
  <2>1. CASE Rest
    <3>1. TypeOK'
      <4>1. /\ mode' \in Modes /\ pc' \in Steps /\ chat' \in Chats
            /\ cursor' \in Cursors /\ horizon' \in Horizons
            /\ left' \in Nat /\ page' \in SUBSET Msg
            /\ target' \in [Chats -> 0..MaxMsg]
            /\ before' \in 0..MaxMsg /\ catchUp' \in BOOLEAN
        BY <2>1, RestType DEF Modes, Steps
      <4> QED BY <1>16, <4>1 DEF Publish, TypeOK
    <3>2. Control' /\ HeldIsCurrent'
      BY <2>1, RestType DEF Control, HeldIsCurrent
    <3> QED BY <1>16, <1>k, <3>1, <3>2 DEF Publish, store
  <2>2. CASE ~Rest
    <3>1. TypeOK'
      BY <1>16, <2>2 DEF Publish, TypeOK, Steps
    <3>2. Control' /\ HeldIsCurrent'
      BY <1>16, <2>2 DEF Publish, Control, HeldIsCurrent
    <3> QED BY <1>16, <1>k, <3>1, <3>2 DEF Publish, store
  <2> QED BY <2>1, <2>2
<1>t. ASSUME Torn PROVE missed' \in [Chats -> [Msg -> Reasons \cup {"no"}]]
  <2>1. "torn" \in Reasons
    BY DEF Reasons, Undecided
  <2> QED BY <1>t, <2>1, SkipType DEF Torn, TypeOK
<1>17. ASSUME Stop PROVE Bookkeeping'
  <2>1. Rest /\ queue' = <<>> /\ UNCHANGED <<top, syncEnabled, messages, cursors>>
    BY <1>17 DEF Stop, store
  <2>2. missed' \in [Chats -> [Msg -> Reasons \cup {"no"}]]
    BY <1>17, <1>t DEF Stop
  <2>3. TypeOK'
    <3>1. /\ mode' \in Modes /\ pc' \in Steps /\ chat' \in Chats
          /\ cursor' \in Cursors /\ horizon' \in Horizons
          /\ left' \in Nat /\ page' \in SUBSET Msg
          /\ target' \in [Chats -> 0..MaxMsg]
          /\ before' \in 0..MaxMsg /\ catchUp' \in BOOLEAN
      BY <2>1, RestType DEF Modes, Steps
    <3> QED BY <2>1, <2>2, <3>1 DEF TypeOK
  <2>4. Control' /\ HeldIsCurrent'
    BY <2>1, RestType DEF Control, HeldIsCurrent
  <2> QED BY <2>1, <2>3, <2>4, <1>k DEF store
<1>18. ASSUME Restart PROVE Bookkeeping'
  <2>1. missed' \in [Chats -> [Msg -> Reasons \cup {"no"}]]
    BY <1>18, <1>t DEF Restart
  <2>2. TypeOK'
    BY <1>18, <2>1, BoundsAssumption DEF Restart, TypeOK, Steps, Nothing, NoId, store
  <2> QED BY <1>18, <2>2, <1>k DEF Restart, store, Control, HeldIsCurrent
<1>19. ASSUME UNCHANGED vars PROVE Bookkeeping'
  <2>1. TypeOK'
    BY <1>19 DEF vars, store, run, TypeOK
  <2> QED BY <1>19, <2>1, <1>k DEF vars, store, run, Control, HeldIsCurrent
<1> QED
  BY <1>1, <1>2, <1>3, <1>4, <1>5, <1>6, <1>7, <1>8, <1>9, <1>10, <1>11, <1>12,
     <1>13, <1>14, <1>15, <1>16, <1>17, <1>18, <1>19
  DEF Next, Environment, Backfill, Live

-----------------------------------------------------------------------------
(***************************************************************************)
(* The theorems.                                                           *)
(***************************************************************************)
LEMMA BookkeepingHolds == Spec => []Bookkeeping
<1> QED BY BookkeepingInit, BookkeepingStep, PTL DEF Spec

\* Every variable keeps its type: in particular no sequence of batches, resets
\* and restarts makes a bookmark __post_init__ would refuse.
THEOREM TypeCorrect == Spec => []TypeOK
<1>1. Bookkeeping => TypeOK
  BY DEF Bookkeeping
<1> QED BY <1>1, BookkeepingHolds, PTL

\* A bookmark only ever names messages that are stored.
THEOREM BookmarksNameStored == Spec => []CursorNamesStored
<1>1. Bookkeeping => CursorNamesStored
  BY DEF Bookkeeping
<1> QED BY <1>1, BookkeepingHolds, PTL

-----------------------------------------------------------------------------
(***************************************************************************)
(* HistorySync implements MessageArchive.                                  *)
(***************************************************************************)
\* What each chat claims after its bookmark becomes k.
LEMMA SavedClaim ==
    ASSUME TypeOK, NEW c \in Chats, NEW k \in Cursors, Save(c, k)
    PROVE  /\ \A d \in Chats : d # c => Claimed(d)' = Claimed(d)
           /\ Claimed(c)' = IF HasSynced(k) THEN k.oldest..k.newest ELSE {}
<1>1. cursors'[c] = k /\ \A d \in Chats : d # c => cursors'[d] = cursors[d]
  BY SavedType
<1>2. k # NoCursor
  BY NoCursorAssumption
<1> QED BY <1>1, <1>2 DEF Claimed, Ranged

\* A bookmark that keeps its two ends claims what it claimed: a stutter of the
\* archive.
LEMMA SameClaim ==
    ASSUME TypeOK, NEW c \in Chats, NEW k \in Cursors, Save(c, k),
           UNCHANGED messages,
           k.oldest = Current(c).oldest, k.newest = Current(c).newest
    PROVE  UNCHANGED <<messages, [d \in Chats |-> Claimed(d)]>>
<1>1. Claimed(c)' = Claimed(c)
  BY SavedClaim, CurrentType DEF Claimed, HasSynced
<1> QED BY <1>1, SavedClaim

\* A batch stored together with the bookmark moved over it is one Grow.
LEMMA BatchGrows ==
    ASSUME TypeOK, NEW c \in Chats, NEW S \in SUBSET Msg, NEW lo \in S, NEW hi \in S,
           \A m \in S : lo <= m /\ m <= hi,
           NEW k \in Cursors, HasSynced(k),
           k.oldest = WithBatch(Current(c), lo, hi).oldest,
           k.newest = WithBatch(Current(c), lo, hi).newest,
           Save(c, k), Ingest(c, S)
    PROVE  Archive!Grow(c, S)
<1> DEFINE held == Current(c)
<1>1. /\ held \in Cursors /\ lo \in Msg /\ hi \in Msg /\ lo <= hi
      /\ Ranged(c) <=> HasSynced(held)
      /\ Ranged(c) => cursors[c] = held
  BY CurrentType
<1>2. /\ HasSynced(held) => /\ held.oldest \in Msg /\ held.newest \in Msg
                            /\ held.oldest <= held.newest
      /\ k.oldest \in Msg /\ k.newest \in Msg
  BY <1>1, CursorFields
<1>3. /\ HasSynced(held) => /\ k.oldest = Lesser(held.oldest, lo)
                            /\ k.newest = Greater(held.newest, hi)
      /\ ~HasSynced(held) => k.oldest = lo /\ k.newest = hi
  BY <1>1, WithBatchType
<1> HIDE DEF held
<1>4. Claimed(c) = IF HasSynced(held) THEN held.oldest..held.newest ELSE {}
  BY <1>1 DEF Claimed
<1>5. Archive!Span(Claimed(c) \cup S) = k.oldest..k.newest
  <2> DEFINE T == Claimed(c) \cup S
  <2>0. S \subseteq Int /\ Claimed(c) \subseteq Int
    BY <1>4, BoundsAssumption DEF Msg
  <2>1. \A m \in T : k.oldest <= m /\ m <= k.newest
    <3>1. ASSUME NEW m \in S PROVE k.oldest <= m /\ m <= k.newest
      BY <1>1, <1>2, <1>3, <2>0, BoundsAssumption DEF Lesser, Greater, Msg
    <3>2. ASSUME NEW m \in Claimed(c) PROVE k.oldest <= m /\ m <= k.newest
      <4>1. HasSynced(held) /\ held.oldest <= m /\ m <= held.newest
        BY <1>2, <1>4, BoundsAssumption DEF Msg
      <4> QED BY <1>1, <1>2, <1>3, <2>0, <4>1, BoundsAssumption DEF Lesser, Greater, Msg
    <3> QED BY <3>1, <3>2
  <2>2. k.oldest \in T /\ k.newest \in T
    BY <1>1, <1>2, <1>3, <1>4, BoundsAssumption DEF Lesser, Greater, Msg
  <2> HIDE DEF T
  <2>3. k.oldest..k.newest \subseteq Msg
    BY <1>2, BoundsAssumption DEF Msg
  <2>4. T \subseteq Msg
    <3>1. Claimed(c) \subseteq Msg
      BY <1>2, <1>4, BoundsAssumption DEF Msg
    <3> QED BY <3>1 DEF T
  <2>5. ASSUME NEW m \in Msg
        PROVE  (\E a, b \in T : a <= m /\ m <= b) <=> m \in k.oldest..k.newest
    BY <1>2, <2>1, <2>2, <2>4, BoundsAssumption DEF Msg
  <2> QED BY <2>3, <2>5 DEF Archive!Span, T
<1>6. Claimed(c)' = k.oldest..k.newest
  BY SavedClaim
<1>7. \A d \in Chats : d # c => Claimed(d)' = Claimed(d)
  BY SavedClaim
<1> QED BY <1>5, <1>6, <1>7 DEF Archive!Grow, Ingest

LEMMA ArchiveInit == Init => Archive!Init
  BY DEF Init, Archive!Init, Claimed, Ranged

LEMMA ArchiveStep ==
    Bookkeeping /\ [Next]_vars => [Archive!Next]_<<messages, [c \in Chats |-> Claimed(c)]>>
<1> SUFFICES ASSUME Bookkeeping, [Next]_vars
             PROVE  [Archive!Next]_<<messages, [c \in Chats |-> Claimed(c)]>>
  OBVIOUS
<1> USE DEF Bookkeeping
<1> DEFINE Stutter == UNCHANGED <<messages, [c \in Chats |-> Claimed(c)]>>
<1>k. UNCHANGED store => Stutter
  BY DEF store, Claimed, Ranged
<1>1. ASSUME NEW c \in Chats, NEW h \in Horizons, NEW reset \in BOOLEAN,
             NEW n \in 1..MaxBatches, BeginBackfill(c, h, reset, n)
      PROVE  Archive!Reset(c) \/ Stutter
  <2> DEFINE held == IF reset \/ cursors[c] = NoCursor THEN Start(h) ELSE cursors[c]
  <2>1. Save(c, held) /\ UNCHANGED messages
    BY <1>1 DEF BeginBackfill
  <2>2. CASE held = Start(h)
    <3>1. Start(h) \in Cursors /\ ~HasSynced(Start(h))
      BY StartType
    <3>2. Claimed(c)' = {} /\ \A d \in Chats : d # c => Claimed(d)' = Claimed(d)
      BY <2>1, <2>2, <3>1, SavedClaim
    <3> QED BY <2>1, <3>2 DEF Archive!Reset
  <2>3. CASE held # Start(h)
    <3>1. cursors' = cursors
      BY <2>1, <2>3 DEF Save, TypeOK
    <3> QED BY <2>1, <3>1, <1>k DEF store
  <2> QED BY <2>2, <2>3
<1>2. ASSUME Reopen PROVE Stutter
  <2>1. /\ Save(chat, Reopened(cursor, horizon)) /\ UNCHANGED messages
        /\ cursors[chat] = cursor
    BY <1>2 DEF Reopen, Control, HeldIsCurrent
  <2>2. Current(chat) = cursor
    BY <2>1, NoCursorAssumption DEF Current, TypeOK
  <2> QED BY <2>1, <2>2, ReopenedType, SameClaim DEF TypeOK
<1>3. ASSUME CompleteBackfill PROVE Stutter
  <2>1. /\ Save(chat, Completed(cursor, horizon)) /\ UNCHANGED messages
        /\ cursors[chat] = cursor
    BY <1>3 DEF CompleteBackfill, HeldIsCurrent
  <2>2. Current(chat) = cursor
    BY <2>1, NoCursorAssumption DEF Current, TypeOK
  <2>3. /\ Completed(cursor, horizon) \in Cursors
        /\ Completed(cursor, horizon).oldest = Current(chat).oldest
        /\ Completed(cursor, horizon).newest = Current(chat).newest
    BY <2>2, CompletedType DEF TypeOK
  <2>4. chat \in Chats
    BY DEF TypeOK
  <2> QED BY <2>1, <2>3, <2>4, SameClaim
<1>4. ASSUME CommitBatch PROVE Archive!Grow(chat, Within(page))
  <2> DEFINE S == Within(page)
             k == IF S # page THEN Completed(Advance(S), horizon) ELSE Advance(S)
  <2>1. S # {} /\ Ingest(chat, S) /\ Save(chat, k) /\ cursors[chat] = cursor
    BY <1>4 DEF CommitBatch, HeldIsCurrent
  <2>2. Current(chat) = cursor
    BY <2>1, NoCursorAssumption DEF Current, TypeOK
  <2>3. S \in SUBSET Msg
    BY DEF TypeOK, Within
  <2>4. /\ Min(S) \in S /\ Max(S) \in S /\ \A m \in S : Min(S) <= m /\ m <= Max(S)
    BY <2>1, <2>3, BatchEnds
  <2>5. /\ k \in Cursors /\ HasSynced(k)
        /\ k.oldest = WithBatch(Current(chat), Min(S), Max(S)).oldest
        /\ k.newest = WithBatch(Current(chat), Min(S), Max(S)).newest
    <3>1. Advance(S) \in Cursors /\ HasSynced(Advance(S))
      BY <2>1, AdvanceType
    <3>2. Advance(S) = WithBatch(Current(chat), Min(S), Max(S))
      BY <2>2 DEF Advance
    <3> QED BY <3>1, <3>2, CompletedType DEF TypeOK, HasSynced
  <2> HIDE DEF S, k
  <2>6. Archive!Grow(chat, S)
    BY <2>1, <2>3, <2>4, <2>5, BatchGrows DEF TypeOK
  <2> QED BY <2>6 DEF S
<1>5. ASSUME CommitCatchUp PROVE Archive!Grow(chat, Fresh) \/ Stutter
  <2> DEFINE k == WithBatch(Current(chat), Min(Fresh), Max(Fresh))
  <2>1. CASE Fresh \subseteq messages[chat]
    BY <1>5, <2>1, <1>k DEF CommitCatchUp, store
  <2>2. CASE ~(Fresh \subseteq messages[chat])
    <3>1. Ingest(chat, Fresh) /\ Save(chat, k) /\ Fresh # {}
      BY <1>5, <2>2 DEF CommitCatchUp
    <3>2. Fresh \in SUBSET Msg
      BY DEF TypeOK, Fresh
    <3>3. /\ Min(Fresh) \in Fresh /\ Max(Fresh) \in Fresh
          /\ \A m \in Fresh : Min(Fresh) <= m /\ m <= Max(Fresh)
      BY <3>1, <3>2, BatchEnds
    <3>4. k \in Cursors /\ HasSynced(k)
      BY <3>2, <3>3, CurrentType, WithBatchType DEF TypeOK
    <3> HIDE DEF k
    <3> QED BY <3>1, <3>2, <3>3, <3>4, BatchGrows DEF TypeOK, k
  <2> QED BY <2>1, <2>2
<1>6. ASSUME StoreUpdate PROVE (\E m \in Msg : Archive!Grow(chat, {m})) \/ Stutter
  <2>1. CASE page \subseteq messages[chat]
    BY <1>6, <2>1, <1>k DEF StoreUpdate, store
  <2>2. CASE ~(page \subseteq messages[chat])
    <3>1. PICK m \in page \ messages[chat] :
             Ingest(chat, {m}) /\ Save(chat, WithBatch(Current(chat), m, m))
      BY <1>6, <2>2 DEF StoreUpdate
    <3> DEFINE k == WithBatch(Current(chat), m, m)
    <3>2. m \in Msg /\ m <= m /\ {m} \in SUBSET Msg
      BY BoundsAssumption DEF TypeOK, Msg
    <3>3. k \in Cursors /\ HasSynced(k)
      BY <3>2, CurrentType, WithBatchType DEF TypeOK
    <3> HIDE DEF k
    <3>4. Archive!Grow(chat, {m})
      BY <3>1, <3>2, <3>3, BatchGrows DEF TypeOK, k
    <3> QED BY <3>2, <3>4
  <2> QED BY <2>1, <2>2
<1>7. ASSUME UNCHANGED store PROVE Stutter
  BY <1>7, <1>k
<1>8. \/ \E c \in Chats, h \in Horizons, reset \in BOOLEAN, n \in 1..MaxBatches :
            BeginBackfill(c, h, reset, n)
      \/ Reopen \/ CompleteBackfill \/ CommitBatch \/ CommitCatchUp \/ StoreUpdate
      \/ UNCHANGED store
  BY DEF Next, Environment, Backfill, Live, Arrive, Redeliver, SetPolicy, StartLive,
         BeginLive, NextChat, Take, FailUpdate, Fetch, Publish, Stop, Restart, vars, store
<1>9. chat \in Chats /\ Within(page) \in SUBSET Msg /\ Fresh \in SUBSET Msg
      /\ \A m \in Msg : {m} \in SUBSET Msg
  BY DEF TypeOK, Within, Fresh
<1> HIDE DEF Stutter
<1>10. Archive!Next \/ Stutter
  BY <1>1, <1>2, <1>3, <1>4, <1>5, <1>6, <1>7, <1>8, <1>9 DEF Archive!Next
<1> QED BY <1>10 DEF Stutter

\* Storing a batch and claiming its range are one step of the archive, and only
\* a reset gives a range up.
THEOREM Implements == Spec => ImplementsArchive
<1> QED
  BY ArchiveInit, ArchiveStep, BookkeepingHolds, PTL
  DEF Spec, ImplementsArchive, Archive!Spec

-----------------------------------------------------------------------------
(***************************************************************************)
(* Ranges, their ends and the stream.                                      *)
(*                                                                         *)
(* What the invariants of ranges rest on: where each command may be        *)
(* (Course), what is known of the messages it handles (Reported, Fetched), *)
(* the order of the stream (InOrder, Above), and what a catch-up has       *)
(* reached (CatchingUp, Followed).                                         *)
(***************************************************************************)
\* A message that is stored, or that was passed over on record.
Accounted(c) == messages[c] \cup Missed(c, Reasons)

\* A message in the stream, or taken from it and not yet stored.
Waits(c, m) == \E i \in DOMAIN queue : queue[i] = <<c, m>>
InHand(c, m) == pc = "store" /\ chat = c /\ m \in page

Covered(c, m) == m \in Accounted(c) \/ Waits(c, m) \/ InHand(c, m)

\* What a step of a command finds in the variables of the run.
Course ==
    /\ mode # "live" => queue = <<>> /\ target = Nothing /\ before = NoId
    /\ pc = "begin" => target = Nothing /\ before = NoId
    /\ pc \in {"idle", "begin", "next", "drain", "store"} => left = 0
    /\ pc \in {"drain", "store"} => target = Nothing
    /\ mode = "live" /\ pc \in {"fetch", "commit"} => target[chat] # 0
    /\ mode = "live" /\ pc = "publish" => (left # 0 <=> target[chat] # 0)
    /\ pc = "next" => target[chat] = 0 \/ before = NoId
    /\ pc \notin {"commit", "store", "publish"} => page = {}
    /\ pc = "store" => \E m \in Msg : page = {m}
    /\ mode = "backfill" /\ (pc \in {"fetch", "commit"} \/ (pc = "publish" /\ left # 0))
         => ~cursor.complete

\* Everything stored, fetched or streamed is a message Telegram holds.
Reported ==
    /\ \A c \in Chats : messages[c] \subseteq 1..top[c]
    /\ page \subseteq 1..top[chat]
    /\ \A c \in Chats, m \in Msg : Waits(c, m) => m <= top[c]

LEMMA NothingIsZero == \A c \in Chats : Nothing[c] = 0
  BY DEF Nothing

LEMMA CourseInit == Init => Course
  BY DEF Init, Course

LEMMA CourseOfBackfill ==
    ASSUME Bookkeeping, Course, Backfill
    PROVE  Course'
<1> USE DEF Bookkeeping
<1>1. ASSUME NEW c \in Chats, NEW h \in Horizons, NEW reset \in BOOLEAN,
             NEW n \in 1..MaxBatches, BeginBackfill(c, h, reset, n)
      PROVE  Course'
  <2> DEFINE held == IF reset \/ cursors[c] = NoCursor THEN Start(h) ELSE cursors[c]
  <2>1. /\ mode = "none" /\ mode' = "backfill"
        /\ pc' = IF held.complete THEN "reopen" ELSE "fetch"
        /\ chat' = c /\ cursor' = held
        /\ UNCHANGED <<page, target, before, queue>>
    BY <1>1 DEF BeginBackfill
  <2> HIDE DEF held
  <2> QED BY <2>1 DEF Course, Control
<1>2. CASE Reopen
  <2>1. ~cursor'.complete
    BY <1>2, ReopenedType DEF Reopen, TypeOK
  <2> QED BY <1>2, <2>1 DEF Reopen, Course, Control
<1>3. CASE CompleteBackfill
  BY <1>3 DEF CompleteBackfill, Rest, Course, Control, Nothing
<1>4. CASE CommitBatch
  <2> DEFINE keep == Within(page)
             reached == keep # page
             k == IF reached THEN Completed(Advance(keep), horizon) ELSE Advance(keep)
             stuck == ResumeFrom(k) = ResumeFrom(cursor)
             ends == reached \/ stuck \/ left = 1
  <2>1. /\ mode = "backfill" /\ pc = "commit" /\ keep # {}
        /\ \/ Rest
           \/ /\ cursor' = k
              /\ left' = IF ends THEN 0 ELSE left - 1
              /\ \/ ~ends /\ pc' = "fetch" /\ page' = {}
                 \/ pc' = "publish" /\ page' = keep
              /\ UNCHANGED <<mode, chat, horizon, target, before, catchUp>>
        /\ UNCHANGED <<top, syncEnabled, queue>>
    BY <1>4 DEF CommitBatch
  <2>2. ~reached => ~k.complete
    <3>1. keep \in SUBSET Msg
      BY DEF TypeOK, Within
    <3> HIDE DEF keep
    <3>2. Min(keep) \in keep /\ Max(keep) \in keep /\ Min(keep) <= Max(keep)
      BY <2>1, <3>1, BatchEnds
    <3>3. Advance(keep).complete = cursor.complete
      BY <3>1, <3>2, WithBatchType DEF Advance, TypeOK
    <3> QED BY <2>1, <3>3 DEF Course
  <2>3. ends \/ ~reached
    OBVIOUS
  <2> HIDE DEF keep, reached, k, ends
  <2>4. CASE Rest
    BY <2>1, <2>4 DEF Rest, Course, Nothing
  <2>5. CASE ~Rest
    BY <2>1, <2>2, <2>3, <2>5 DEF Course, Control
  <2> QED BY <2>4, <2>5
<1> QED BY <1>1, <1>2, <1>3, <1>4 DEF Backfill

LEMMA CourseOfLive ==
    ASSUME Bookkeeping, Course, Live
    PROVE  Course'
<1> USE DEF Bookkeeping
<1>1. ASSUME NEW withCatchUp \in BOOLEAN, StartLive(withCatchUp) PROVE Course'
  BY <1>1, NothingIsZero DEF StartLive, Course, Control, TypeOK
<1>2. CASE BeginLive
  <2>1. /\ pc = "begin" /\ pc' = IF target' = Nothing THEN "drain" ELSE "next"
        /\ UNCHANGED <<mode, chat, cursor, horizon, left, page, before, queue>>
    BY <1>2 DEF BeginLive
  <2> QED BY <2>1 DEF Course, Control
<1>3. CASE NextChat
  <2>1. target[chat'] # 0
    BY <1>3 DEF NextChat
  <2> QED BY <1>3, <2>1 DEF NextChat, Course, Control, TypeOK
<1>4. CASE CommitCatchUp
  <2> DEFINE fresh == Fresh
             ends == page = {} \/ fresh # page \/ left = 1
             rest == IF ends THEN [target EXCEPT ![chat] = 0] ELSE target
             known == fresh \subseteq messages[chat]
  <2>1. /\ mode = "live" /\ pc = "commit"
        /\ target' = rest
        /\ left' = IF ends THEN 0 ELSE left - 1
        /\ page' = IF known THEN {} ELSE fresh
        /\ pc' = IF ~known THEN "publish"
                 ELSE IF ~ends THEN "fetch"
                 ELSE IF rest = Nothing THEN "drain" ELSE "next"
        /\ UNCHANGED <<mode, chat, cursor, queue>>
    BY <1>4 DEF CommitCatchUp
  <2>2. /\ target[chat] # 0 /\ left # 0 /\ left \in Nat
        /\ rest[chat] = IF ends THEN 0 ELSE target[chat]
        /\ ~ends => left # 1
    BY <2>1 DEF Course, Control, TypeOK
  <2> HIDE DEF fresh, ends, rest, known
  <2> QED BY <2>1, <2>2 DEF Course, Control
<1>5. CASE Take
  <2> DEFINE c == Head(queue)[1]
             m == Head(queue)[2]
  <2>1. c \in Chats /\ m \in Msg
    BY <1>5 DEF Take, TypeOK
  <2>2. /\ pc = "drain"
        /\ \/ UNCHANGED <<pc, chat, page>>
           \/ pc' = "store" /\ chat' = c /\ page' = {m}
        /\ UNCHANGED <<mode, cursor, left, target, before>>
    BY <1>5 DEF Take
  <2> HIDE DEF c, m
  <2> QED BY <2>1, <2>2 DEF Course, Control
<1>6. CASE StoreUpdate \/ FailUpdate
  <2>1. /\ pc = "store"
        /\ \/ pc' = "drain" /\ page' = {}
           \/ pc' = "publish" /\ UNCHANGED page
        /\ UNCHANGED <<mode, chat, cursor, left, target, before, queue>>
    <3>1. CASE StoreUpdate
      BY <3>1 DEF StoreUpdate
    <3>2. CASE FailUpdate
      BY <3>2 DEF FailUpdate
    <3> QED BY <1>6, <3>1, <3>2
  <2> QED BY <2>1, NothingIsZero DEF Course, Control, TypeOK
<1> QED BY <1>1, <1>2, <1>3, <1>4, <1>5, <1>6 DEF Live

LEMMA CourseStep ==
    ASSUME Bookkeeping, Course, [Next]_vars
    PROVE  Course'
<1> USE DEF Bookkeeping
<1>1. ASSUME NEW c \in Chats, Arrive(c) \/ Redeliver(c) \/ SetPolicy(c) PROVE Course'
  BY <1>1 DEF Arrive, Redeliver, SetPolicy, run, store, Course
<1>2. CASE Fetch
  BY <1>2 DEF Fetch, Course, Control
<1>3. CASE Publish
  <2>1. CASE Rest
    BY <1>3, <2>1 DEF Publish, Rest, Course, Control, Nothing
  <2>2. CASE ~Rest
    BY <1>3, <2>2 DEF Publish, Course, Control
  <2> QED BY <2>1, <2>2
<1>4. CASE Stop
  BY <1>4 DEF Stop, Rest, Course, Nothing
<1>5. CASE Restart
  BY <1>5 DEF Restart, Course, Control
<1>6. CASE UNCHANGED vars
  BY <1>6 DEF vars, run, store, Course
<1> QED BY <1>1, <1>2, <1>3, <1>4, <1>5, <1>6, CourseOfBackfill, CourseOfLive
        DEF Next, Environment

-----------------------------------------------------------------------------
(***************************************************************************)
(* What each step does to the accounts and to the stream.                  *)
(***************************************************************************)
Grown == \A c \in Chats : /\ messages[c] \subseteq messages'[c]
                          /\ Accounted(c) \subseteq Accounted(c)'
                          /\ top[c] <= top'[c]

LEMMA SkipAccounts ==
    ASSUME TypeOK, NEW c \in Chats, NEW S, NEW why \in Reasons
    PROVE  /\ \A d \in Chats, m \in Msg :
                 missed[d][m] \in Reasons => Skip(c, S, why)[d][m] \in Reasons
           /\ \A m \in Msg : m \in S => m \in messages[c] \/ Skip(c, S, why)[c][m] \in Reasons
  BY SkipType

LEMMA StoredAccounts ==
    ASSUME NEW accounts \in [Chats -> [Msg -> Reasons \cup {"no"}]], NEW c \in Chats, NEW S
    PROVE  \A d \in Chats, m \in Msg :
               accounts[d][m] \in Reasons
                   => Stored(accounts, c, S)[d][m] \in Reasons \/ (d = c /\ m \in S)
<1> SUFFICES ASSUME NEW d \in Chats, NEW m \in Msg, accounts[d][m] \in Reasons
             PROVE  Stored(accounts, c, S)[d][m] \in Reasons \/ (d = c /\ m \in S)
  OBVIOUS
<1>1. CASE d = c
  BY <1>1, StoredType
<1>2. CASE d # c
  BY <1>2, StoredType
<1> QED BY <1>1, <1>2

\* What a transaction that stores batch, after passing over S, leaves accounted.
LEMMA StoringAccounts ==
    ASSUME TypeOK, TypeOK', NEW c \in Chats, NEW batch \in SUBSET Msg,
           NEW accounts \in [Chats -> [Msg -> Reasons \cup {"no"}]],
           \A d \in Chats, m \in Msg :
               missed[d][m] \in Reasons => accounts[d][m] \in Reasons,
           batch \subseteq messages'[c],
           \A d \in Chats : messages[d] \subseteq messages'[d],
           missed' = Stored(accounts, c, batch)
    PROVE  /\ \A d \in Chats : Accounted(d) \subseteq Accounted(d)'
           /\ \A d \in Chats, m \in Msg : accounts[d][m] \in Reasons => m \in Accounted(d)'
<1>1. \A d \in Chats, m \in Msg : accounts[d][m] \in Reasons => m \in Accounted(d)'
  BY StoredAccounts DEF Accounted, Missed
<1>2. \A d \in Chats : messages[d] \subseteq Msg
  BY DEF TypeOK
<1> QED BY <1>1, <1>2 DEF Accounted, Missed

LEMMA SkippingAccounts ==
    ASSUME TypeOK, NEW c \in Chats, NEW S \in SUBSET Msg, NEW why \in Reasons,
           missed' = Skip(c, S, why), UNCHANGED messages
    PROVE  /\ \A d \in Chats : Accounted(d) \subseteq Accounted(d)'
           /\ S \subseteq Accounted(c)'
<1>1. /\ \A d \in Chats, m \in Msg : missed[d][m] \in Reasons => missed'[d][m] \in Reasons
      /\ \A m \in Msg : m \in S => m \in messages[c] \/ missed'[c][m] \in Reasons
  BY SkipAccounts
<1> QED BY <1>1 DEF Accounted, Missed

LEMMA UnfilledAccounts ==
    ASSUME TypeOK, NEW c \in Chats, NEW m \in Msg
    PROVE  /\ Unfilled(c, m) \in [Chats -> [Msg -> Reasons \cup {"no"}]]
           /\ \A d \in Chats, n \in Msg :
                 missed[d][n] \in Reasons => Unfilled(c, m)[d][n] \in Reasons
           /\ Current(c).complete /\ ~Ranged(c) =>
                 \A n \in 1..m - 1 : SentAt[n] >= Current(c).horizon =>
                     n \in messages[c] \/ Unfilled(c, m)[c][n] \in Reasons
<1>1. "unfilled" \in Reasons
  BY DEF Reasons, Undecided
<1>2. CASE Current(c).complete /\ ~Ranged(c)
  <2> DEFINE S == {n \in 1..m - 1 : SentAt[n] >= Current(c).horizon}
  <2>1. Unfilled(c, m) = Skip(c, S, "unfilled")
    BY <1>2 DEF Unfilled
  <2>2. \A n \in 1..m - 1 : n \in Msg /\ (SentAt[n] >= Current(c).horizon => n \in S)
    BY BoundsAssumption DEF Msg
  <2> HIDE DEF S
  <2>3. /\ Skip(c, S, "unfilled") \in [Chats -> [Msg -> Reasons \cup {"no"}]]
        /\ \A d \in Chats, n \in Msg :
              missed[d][n] \in Reasons => Skip(c, S, "unfilled")[d][n] \in Reasons
        /\ \A n \in Msg : n \in S => n \in messages[c] \/ Skip(c, S, "unfilled")[c][n] \in Reasons
    BY <1>1, SkipType, SkipAccounts
  <2> QED BY <2>1, <2>2, <2>3
<1>3. CASE ~(Current(c).complete /\ ~Ranged(c))
  BY <1>3 DEF Unfilled, TypeOK
<1> QED BY <1>2, <1>3

LEMMA PassedOverAccounts ==
    ASSUME TypeOK, TypeOK', missed' = [c \in Chats |-> PassedOver(c)], UNCHANGED messages
    PROVE  /\ \A c \in Chats : Accounted(c) \subseteq Accounted(c)'
           /\ \A c \in Chats : Ranged(c) /\ ~(syncEnabled[c] /\ catchUp) =>
                 cursors[c].newest + 1..top[c] \subseteq Accounted(c)'
<1> SUFFICES ASSUME NEW c \in Chats
             PROVE  /\ Accounted(c) \subseteq Accounted(c)'
                    /\ Ranged(c) /\ ~(syncEnabled[c] /\ catchUp) =>
                          cursors[c].newest + 1..top[c] \subseteq Accounted(c)'
  OBVIOUS
<1>1. CASE ~Ranged(c) \/ (syncEnabled[c] /\ catchUp)
  BY <1>1 DEF PassedOver, Accounted, Missed
<1>2. CASE ~(~Ranged(c) \/ (syncEnabled[c] /\ catchUp))
  <2> DEFINE why == IF syncEnabled[c] THEN "nocatchup" ELSE "off"
             S == cursors[c].newest + 1..top[c]
  <2>1. why \in Reasons
    BY DEF Reasons, Decided
  <2>2. missed'[c] = Skip(c, S, why)[c]
    BY <1>2 DEF PassedOver
  <2>3. S \subseteq Msg
    <3>1. cursors[c] \in Cursors
      BY <1>2, CurrentType
    <3>2. cursors[c].newest \in Nat /\ top[c] \in 0..MaxMsg
      BY <3>1, CursorFields, BoundsAssumption, SMTT(30) DEF TypeOK
    <3> QED BY <3>2, BoundsAssumption DEF Msg
  <2> HIDE DEF why, S
  <2>4. /\ \A m \in Msg : missed[c][m] \in Reasons => missed'[c][m] \in Reasons
        /\ \A m \in Msg : m \in S => m \in messages[c] \/ missed'[c][m] \in Reasons
    BY <2>1, <2>2, SkipAccounts
  <2> QED BY <2>3, <2>4 DEF Accounted, Missed, S
<1> QED BY <1>1, <1>2

\* Messages are never deleted, accounts never withdrawn, and Telegram's newest
\* never falls.
LEMMA GrownStep ==
    ASSUME TypeOK, TypeOK', [Next]_vars
    PROVE  Grown
<1>k. ASSUME UNCHANGED messages, UNCHANGED missed PROVE \A c \in Chats :
          messages[c] \subseteq messages'[c] /\ Accounted(c) \subseteq Accounted(c)'
  BY <1>k DEF Accounted, Missed
<1>t. ASSUME UNCHANGED top PROVE \A c \in Chats : top[c] <= top'[c]
  BY <1>t, BoundsAssumption DEF TypeOK
<1>r. {"torn", "off", "failed", "limit"} \subseteq Reasons
  BY DEF Reasons, Decided, Undecided
<1>1. ASSUME NEW c \in Chats, Arrive(c) PROVE Grown
  <2>1. \A d \in Chats : top[d] \in Nat /\ top'[d] \in {top[d], top[d] + 1}
    BY <1>1, BoundsAssumption DEF Arrive, TypeOK
  <2> QED BY <1>1, <2>1, <1>k DEF Grown, Arrive, store
<1>2. CASE CommitBatch
  <2>1. /\ Ingest(chat, Within(page)) /\ missed' = Stored(missed, chat, Within(page))
        /\ UNCHANGED top
    BY <1>2 DEF CommitBatch
  <2>2. Within(page) \in SUBSET Msg /\ chat \in Chats
    BY DEF Within, TypeOK
  <2>3. /\ \A d \in Chats : messages[d] \subseteq messages'[d]
        /\ Within(page) \subseteq messages'[chat]
    BY <2>1, <2>2, IngestedType
  <2>4. missed \in [Chats -> [Msg -> Reasons \cup {"no"}]]
    BY DEF TypeOK
  <2>5. \A d \in Chats : Accounted(d) \subseteq Accounted(d)'
    BY <2>1, <2>2, <2>3, <2>4, StoringAccounts
  <2> QED BY <2>1, <2>3, <2>5, <1>t DEF Grown
<1>3. CASE CommitCatchUp
  <2> DEFINE cut == IF page # {} /\ Fresh = page /\ left = 1
                    THEN target[chat] + 1..Min(page) - 1 ELSE {}
  <2>1. /\ missed' = Stored(Skip(chat, cut, "limit"), chat, Fresh)
        /\ UNCHANGED top
        /\ \/ Ingest(chat, Fresh)
           \/ UNCHANGED messages /\ Fresh \subseteq messages[chat]
    BY <1>3 DEF CommitCatchUp
  <2> HIDE DEF cut
  <2>2. Fresh \in SUBSET Msg /\ chat \in Chats
    BY DEF Fresh, TypeOK
  <2>3. /\ \A d \in Chats : messages[d] \subseteq messages'[d]
        /\ Fresh \subseteq messages'[chat]
    BY <2>1, <2>2, IngestedType
  <2>4. /\ Skip(chat, cut, "limit") \in [Chats -> [Msg -> Reasons \cup {"no"}]]
        /\ \A d \in Chats, m \in Msg :
              missed[d][m] \in Reasons => Skip(chat, cut, "limit")[d][m] \in Reasons
    BY <1>r, <2>2, SkipType, SkipAccounts
  <2>5. \A d \in Chats : Accounted(d) \subseteq Accounted(d)'
    BY <2>1, <2>2, <2>3, <2>4, StoringAccounts
  <2> QED BY <2>1, <2>3, <2>5, <1>t DEF Grown
<1>4. CASE StoreUpdate
  <2>1. CASE UNCHANGED <<messages, missed>>
    BY <1>4, <2>1, <1>k, <1>t DEF StoreUpdate, Grown
  <2>2. CASE ~UNCHANGED <<messages, missed>>
    <3>1. PICK m \in page : /\ Ingest(chat, {m})
                            /\ missed' = Stored(Unfilled(chat, m), chat, {m})
      BY <1>4, <2>2 DEF StoreUpdate
    <3>2. UNCHANGED top
      BY <1>4 DEF StoreUpdate
    <3>3. m \in Msg /\ {m} \in SUBSET Msg /\ chat \in Chats
      BY DEF TypeOK
    <3>4. /\ \A d \in Chats : messages[d] \subseteq messages'[d]
          /\ {m} \subseteq messages'[chat]
      BY <3>1, <3>3, IngestedType
    <3>5. /\ Unfilled(chat, m) \in [Chats -> [Msg -> Reasons \cup {"no"}]]
          /\ \A d \in Chats, n \in Msg :
                missed[d][n] \in Reasons => Unfilled(chat, m)[d][n] \in Reasons
      BY <3>3, UnfilledAccounts
    <3>6. \A d \in Chats : Accounted(d) \subseteq Accounted(d)'
      BY <3>1, <3>3, <3>4, <3>5, StoringAccounts
    <3> QED BY <3>2, <3>4, <3>6, <1>t DEF Grown
  <2> QED BY <2>1, <2>2
<1>5. CASE Take
  <2>1. UNCHANGED <<top, messages>>
    BY <1>5 DEF Take, store
  <2>2. \A d \in Chats : Accounted(d) \subseteq Accounted(d)'
    <3>1. CASE UNCHANGED missed
      BY <2>1, <3>1, <1>k
    <3>2. CASE ~UNCHANGED missed
      <4>1. /\ missed' = Skip(Head(queue)[1], {Head(queue)[2]}, "off")
            /\ queue # <<>>
        BY <1>5, <3>2 DEF Take
      <4>2. Head(queue) \in Chats \X Msg
        BY <4>1, HeadTailProperties DEF TypeOK
      <4>3. Head(queue)[1] \in Chats /\ {Head(queue)[2]} \in SUBSET Msg
        BY <4>2
      <4> QED BY <1>r, <2>1, <4>1, <4>3, SkippingAccounts
    <3> QED BY <3>1, <3>2
  <2> QED BY <2>1, <2>2, <1>t DEF Grown
<1>6. CASE FailUpdate
  <2>1. UNCHANGED <<top, messages>> /\ missed' = Skip(chat, page, "failed")
    BY <1>6 DEF FailUpdate, store
  <2>2. chat \in Chats /\ page \in SUBSET Msg
    BY DEF TypeOK
  <2>3. \A d \in Chats : Accounted(d) \subseteq Accounted(d)'
    BY <1>r, <2>1, <2>2, SkippingAccounts
  <2> QED BY <2>1, <2>3, <1>t DEF Grown
<1>7. CASE Stop \/ Restart
  <2>1. UNCHANGED <<top, messages>> /\ missed' = Skip(chat, OpenGap(chat), "torn")
    <3>1. CASE Stop
      BY <3>1 DEF Stop, Torn, store
    <3>2. CASE Restart
      BY <3>2 DEF Restart, Torn, store
    <3> QED BY <1>7, <3>1, <3>2
  <2>2. chat \in Chats /\ OpenGap(chat) \in SUBSET Msg
    BY BoundsAssumption, SMTT(30) DEF TypeOK, OpenGap, Msg
  <2>3. \A d \in Chats : Accounted(d) \subseteq Accounted(d)'
    BY <1>r, <2>1, <2>2, SkippingAccounts
  <2> QED BY <2>1, <2>3, <1>t DEF Grown
<1>8. CASE BeginLive
  <2>1. UNCHANGED <<top, messages>> /\ missed' = [c \in Chats |-> PassedOver(c)]
    BY <1>8 DEF BeginLive, store
  <2>2. \A d \in Chats : Accounted(d) \subseteq Accounted(d)'
    BY <2>1, PassedOverAccounts
  <2> QED BY <2>1, <2>2, <1>t DEF Grown
<1>9. CASE UNCHANGED <<top, messages, missed>>
  BY <1>9, <1>k, <1>t DEF Grown
<1>10. \/ \E c \in Chats : Arrive(c)
       \/ CommitBatch \/ CommitCatchUp \/ StoreUpdate \/ Take \/ FailUpdate
       \/ Stop \/ Restart \/ BeginLive \/ UNCHANGED <<top, messages, missed>>
  BY DEF Next, Environment, Backfill, Live, Redeliver, SetPolicy, BeginBackfill, Reopen,
         CompleteBackfill, StartLive, NextChat, Fetch, Publish, vars, store
<1> QED BY <1>1, <1>2, <1>3, <1>4, <1>5, <1>6, <1>7, <1>8, <1>9, <1>10

-----------------------------------------------------------------------------
\* The update at position i of the stream is followed by one for n of c.
After(i, c, n) == \E j \in DOMAIN queue : j > i /\ queue[j] = <<c, n>>

LEMMA StreamGrows ==
    ASSUME TypeOK, NEW e \in Chats \X Msg, queue' = Append(queue, e)
    PROVE  /\ \A c \in Chats, m \in Msg : Waits(c, m)' <=> Waits(c, m) \/ e = <<c, m>>
           /\ \A i \in DOMAIN queue, c \in Chats, n \in Msg :
                 After(i, c, n)' <=> After(i, c, n) \/ e = <<c, n>>
           /\ \A i, c, n : i = Len(queue) + 1 => ~After(i, c, n)'
           /\ DOMAIN queue' = DOMAIN queue \cup {Len(queue) + 1}
           /\ \A i \in DOMAIN queue : queue'[i] = queue[i]
           /\ queue'[Len(queue) + 1] = e
<1>1. /\ queue \in Seq(Chats \X Msg) /\ Len(queue) \in Nat
      /\ DOMAIN queue = 1..Len(queue) /\ DOMAIN queue' = 1..Len(queue) + 1
      /\ \A i \in 1..Len(queue) : queue'[i] = queue[i]
      /\ queue'[Len(queue) + 1] = e
  BY DEF TypeOK
<1>2. /\ DOMAIN queue' = DOMAIN queue \cup {Len(queue) + 1}
      /\ \A i \in DOMAIN queue : queue'[i] = queue[i] /\ Len(queue) + 1 > i
  BY <1>1
<1>3. ASSUME NEW c \in Chats, NEW m \in Msg
      PROVE  Waits(c, m)' <=> Waits(c, m) \/ e = <<c, m>>
  BY <1>1, <1>2 DEF Waits
<1>4. ASSUME NEW i \in DOMAIN queue, NEW c \in Chats, NEW n \in Msg
      PROVE  After(i, c, n)' <=> After(i, c, n) \/ e = <<c, n>>
  BY <1>1, <1>2 DEF After
<1>5. ASSUME NEW i, NEW c, NEW n, i = Len(queue) + 1 PROVE ~After(i, c, n)'
  BY <1>1, <1>5 DEF After
<1> QED BY <1>1, <1>2, <1>3, <1>4, <1>5

LEMMA StreamShrinks ==
    ASSUME TypeOK, queue # <<>>, queue' = Tail(queue)
    PROVE  /\ \A c \in Chats, m \in Msg : Waits(c, m)' <=> After(1, c, m)
           /\ \A c \in Chats, m \in Msg : Waits(c, m) => Waits(c, m)' \/ Head(queue) = <<c, m>>
           /\ \A i \in DOMAIN queue' : /\ i + 1 \in DOMAIN queue /\ queue'[i] = queue[i + 1]
                                       /\ \A c \in Chats, n \in Msg :
                                             After(i, c, n)' <=> After(i + 1, c, n)
           /\ 1 \in DOMAIN queue /\ queue[1] = Head(queue)
<1>1. /\ queue \in Seq(Chats \X Msg) /\ Len(queue) \in Nat /\ Len(queue) >= 1
      /\ DOMAIN queue = 1..Len(queue) /\ DOMAIN queue' = 1..Len(queue) - 1
      /\ \A i \in 1..Len(queue) - 1 : queue'[i] = queue[i + 1]
      /\ queue[1] = Head(queue)
  BY DEF TypeOK
<1>2. \A i \in DOMAIN queue' : i + 1 \in DOMAIN queue /\ queue'[i] = queue[i + 1]
  BY <1>1
<1>3. \A j \in DOMAIN queue : j = 1 \/ (j - 1 \in DOMAIN queue' /\ queue'[j - 1] = queue[j])
  BY <1>1
<1>4. ASSUME NEW c \in Chats, NEW m \in Msg
      PROVE  /\ Waits(c, m)' <=> After(1, c, m)
             /\ Waits(c, m) => Waits(c, m)' \/ Head(queue) = <<c, m>>
  <2>1. Waits(c, m)' => After(1, c, m)
    <3>1. \A i \in DOMAIN queue' : i + 1 > 1
      BY <1>1
    <3> QED BY <1>2, <3>1 DEF Waits, After
  <2>2. After(1, c, m) => Waits(c, m)'
    <3>1. \A i \in DOMAIN queue : i > 1 => i # 1
      OBVIOUS
    <3> QED BY <1>3, <3>1 DEF Waits, After
  <2>3. Waits(c, m) => Waits(c, m)' \/ Head(queue) = <<c, m>>
    BY <1>1, <1>3 DEF Waits
  <2> QED BY <2>1, <2>2, <2>3
<1>5. ASSUME NEW i \in DOMAIN queue', NEW c \in Chats, NEW n \in Msg
      PROVE  After(i, c, n)' <=> After(i + 1, c, n)
  <2>1. ASSUME NEW j \in DOMAIN queue', j > i, queue'[j] = <<c, n>> PROVE After(i + 1, c, n)
    BY <1>1, <1>2, <2>1 DEF After
  <2>2. ASSUME NEW j \in DOMAIN queue, j > i + 1, queue[j] = <<c, n>> PROVE After(i, c, n)'
    <3>1. j - 1 \in DOMAIN queue' /\ queue'[j - 1] = queue[j] /\ j - 1 > i
      BY <1>1, <2>2
    <3> QED BY <2>2, <3>1 DEF After
  <2> QED BY <2>1, <2>2 DEF After
<1> QED BY <1>1, <1>2, <1>4, <1>5

-----------------------------------------------------------------------------
LEMMA ReportedStep ==
    ASSUME Bookkeeping, Bookkeeping', Course, Reported, [Next]_vars
    PROVE  Reported'
<1> USE DEF Bookkeeping
<1>g. \A c \in Chats : top[c] <= top'[c] /\ top[c] \in Nat /\ top'[c] \in Nat
  <2>1. Grown
    BY GrownStep
  <2> QED BY <2>1, BoundsAssumption DEF Grown, TypeOK
<1>m. ASSUME UNCHANGED messages PROVE \A c \in Chats : messages'[c] \subseteq 1..top'[c]
  BY <1>m, <1>g DEF Reported
<1>p. ASSUME page' = {} \/ (UNCHANGED chat /\ page' \subseteq page)
      PROVE  page' \subseteq 1..top'[chat']
  BY <1>p, <1>g DEF Reported, TypeOK
<1>q. ASSUME UNCHANGED queue \/ queue' = <<>>
      PROVE  \A c \in Chats, m \in Msg : Waits(c, m)' => m <= top'[c]
  BY <1>q, <1>g, BoundsAssumption DEF Reported, Waits, Msg
<1>s. ASSUME NEW S \in SUBSET page, messages' = [messages EXCEPT ![chat] = @ \cup S]
      PROVE  \A c \in Chats : messages'[c] \subseteq 1..top'[c]
  <2> TAKE c \in Chats
  <2>1. CASE c = chat
    <3>1. messages'[c] \subseteq messages[c] \cup page
      BY <1>s, <2>1 DEF TypeOK
    <3>2. messages[c] \subseteq 1..top[c] /\ page \subseteq 1..top[c]
      BY <2>1 DEF Reported
    <3>3. 1..top[c] \subseteq 1..top'[c]
      BY <1>g
    <3> QED BY <3>1, <3>2, <3>3
  <2>2. CASE c # chat
    <3>1. messages'[c] = messages[c]
      BY <1>s, <2>2 DEF TypeOK
    <3> QED BY <3>1, <1>g DEF Reported
  <2> QED BY <2>1, <2>2
<1>1. ASSUME NEW c \in Chats, Arrive(c) PROVE Reported'
  <2>1. UNCHANGED <<messages, chat, page>>
    BY <1>1 DEF Arrive, store, run
  <2>2. \A d \in Chats, m \in Msg : Waits(d, m)' => m <= top'[d]
    <3>1. CASE queue' = queue
      BY <3>1, <1>q
    <3>2. CASE queue' = Append(queue, <<c, top[c] + 1>>)
      <4>1. /\ <<c, top[c] + 1>> \in Chats \X Msg
            /\ top'[c] = top[c] + 1
        BY <1>1, BoundsAssumption DEF Arrive, TypeOK, Msg
      <4>2. \A d \in Chats, m \in Msg : Waits(d, m)' => Waits(d, m) \/ <<c, top[c] + 1>> = <<d, m>>
        BY <3>2, <4>1, StreamGrows
      <4> QED BY <4>1, <4>2, <1>g, BoundsAssumption DEF Reported, Msg
    <3> QED BY <1>1, <3>1, <3>2 DEF Arrive
  <2> QED BY <2>1, <2>2, <1>m, <1>p DEF Reported
<1>2. ASSUME NEW c \in Chats, Redeliver(c) PROVE Reported'
  <2>1. UNCHANGED <<messages, chat, page, top>>
    BY <1>2 DEF Redeliver, store, run
  <2>2. PICK m \in messages[c] : queue' = Append(queue, <<c, m>>)
    BY <1>2 DEF Redeliver
  <2>3. \A d \in Chats, n \in Msg : Waits(d, n)' => n <= top'[d]
    <3>1. <<c, m>> \in Chats \X Msg /\ m \in 1..top[c]
      BY DEF Reported, TypeOK
    <3>2. \A d \in Chats, n \in Msg : Waits(d, n)' => Waits(d, n) \/ <<c, m>> = <<d, n>>
      BY <2>2, <3>1, StreamGrows
    <3> QED BY <2>1, <3>1, <3>2 DEF Reported
  <2> QED BY <2>1, <2>3, <1>m, <1>p DEF Reported
<1>3. CASE CommitBatch
  <2>1. /\ Ingest(chat, Within(page)) /\ UNCHANGED queue
        /\ page' = {} \/ (UNCHANGED chat /\ page' \subseteq page)
    BY <1>3 DEF CommitBatch, Rest, Within
  <2>2. Within(page) \in SUBSET page
    BY DEF Within
  <2> QED BY <2>1, <2>2, <1>s, <1>p, <1>q DEF Ingest, Reported
<1>4. CASE CommitCatchUp
  <2>1. /\ UNCHANGED messages \/ Ingest(chat, Fresh)
        /\ UNCHANGED queue
        /\ page' = {} \/ (UNCHANGED chat /\ page' \subseteq page)
    BY <1>4 DEF CommitCatchUp, Fresh
  <2>2. Fresh \in SUBSET page
    BY DEF Fresh
  <2> QED BY <2>1, <2>2, <1>s, <1>m, <1>p, <1>q DEF Ingest, Reported
<1>5. CASE StoreUpdate
  <2>1. /\ UNCHANGED messages \/ \E m \in page : Ingest(chat, {m})
        /\ UNCHANGED queue
        /\ page' = {} \/ (UNCHANGED chat /\ page' \subseteq page)
    BY <1>5 DEF StoreUpdate
  <2>2. \A m \in page : {m} \in SUBSET page
    OBVIOUS
  <2> QED BY <2>1, <2>2, <1>s, <1>m, <1>p, <1>q DEF Ingest, Reported
<1>6. CASE Take
  <2>1. /\ queue # <<>> /\ queue' = Tail(queue) /\ UNCHANGED <<top, messages>>
        /\ \/ UNCHANGED <<chat, page>>
           \/ chat' = Head(queue)[1] /\ page' = {Head(queue)[2]}
    BY <1>6 DEF Take, store
  <2>2. \A c \in Chats, m \in Msg : Waits(c, m)' => Waits(c, m)
    BY <2>1, StreamShrinks DEF After, Waits
  <2>3. page' \subseteq 1..top'[chat']
    <3>1. CASE UNCHANGED <<chat, page>>
      BY <3>1, <1>p
    <3>2. CASE chat' = Head(queue)[1] /\ page' = {Head(queue)[2]}
      <4>1. Head(queue) \in Chats \X Msg /\ 1 \in DOMAIN queue /\ queue[1] = Head(queue)
        BY <2>1, HeadTailProperties, StreamShrinks DEF TypeOK
      <4>2. Waits(Head(queue)[1], Head(queue)[2])
        BY <4>1 DEF Waits
      <4> QED BY <2>1, <3>2, <4>1, <4>2, BoundsAssumption DEF Reported, Msg
    <3> QED BY <2>1, <3>1, <3>2
  <2> QED BY <2>1, <2>2, <2>3, <1>m DEF Reported
<1>7. CASE Fetch
  <2> DEFINE from == IF mode = "backfill" THEN ResumeFrom(cursor) ELSE before
  <2>1. page' \in PagesBelow(chat, from) /\ UNCHANGED <<top, messages, chat, queue>>
    BY <1>7 DEF Fetch, store
  <2>2. from \in 0..MaxMsg
    BY CursorFields DEF TypeOK, ResumeFrom
  <2> HIDE DEF from
  <2>3. /\ NewestBelow(chat, from) <= top[chat]
        /\ NewestBelow(chat, from) \in 0..MaxMsg
        /\ page' \in SUBSET Msg
        /\ page' # {} => \E lo \in Msg : page' = lo..NewestBelow(chat, from)
    <3>1. chat \in Chats /\ top[chat] \in Nat
      BY BoundsAssumption DEF TypeOK
    <3>2. NewestBelow(chat, from) <= top[chat]
      BY <2>2, <3>1, BoundsAssumption DEF NewestBelow, Lesser
    <3> QED BY <2>1, <2>2, <3>1, <3>2, PageIsRun
  <2>4. page' \subseteq 1..top'[chat']
    BY <2>1, <2>3, <1>g, BoundsAssumption DEF TypeOK, Msg
  <2> QED BY <2>1, <2>4, <1>m, <1>q DEF Reported
<1>8. ASSUME UNCHANGED messages, page' = {} \/ (UNCHANGED chat /\ page' \subseteq page),
             UNCHANGED queue \/ queue' = <<>>
      PROVE  Reported'
  BY <1>8, <1>m, <1>p, <1>q DEF Reported
<1>9. \/ \E c \in Chats : Arrive(c) \/ Redeliver(c)
      \/ CommitBatch \/ CommitCatchUp \/ StoreUpdate \/ Take \/ Fetch
      \/ /\ UNCHANGED messages
         /\ page' = {} \/ (UNCHANGED chat /\ page' \subseteq page)
         /\ UNCHANGED queue \/ queue' = <<>>
  <2>1. pc \in {"idle", "next"} => page = {}
    BY DEF Course
  <2>2. ASSUME NEW c \in Chats, SetPolicy(c) PROVE UNCHANGED <<messages, page, chat, queue>>
    BY <2>2 DEF SetPolicy, store, run
  <2>3. ASSUME NEW c \in Chats, NEW h \in Horizons, NEW reset \in BOOLEAN,
               NEW n \in 1..MaxBatches, BeginBackfill(c, h, reset, n)
        PROVE  UNCHANGED <<messages, page, queue>> /\ page = {}
    BY <2>1, <2>3 DEF BeginBackfill, Control
  <2>4. ASSUME Reopen \/ (\E w \in BOOLEAN : StartLive(w)) \/ BeginLive \/ UNCHANGED vars
        PROVE  UNCHANGED <<messages, page, chat, queue>>
    BY <2>4 DEF Reopen, StartLive, BeginLive, vars, store, run
  <2>5. ASSUME NextChat PROVE UNCHANGED <<messages, page, queue>> /\ page = {}
    BY <2>1, <2>5 DEF NextChat, store
  <2>6. ASSUME CompleteBackfill \/ FailUpdate \/ Stop \/ Restart
        PROVE  UNCHANGED messages /\ page' = {} /\ (UNCHANGED queue \/ queue' = <<>>)
    BY <2>6 DEF CompleteBackfill, FailUpdate, Stop, Restart, Rest, store
  <2>7. ASSUME Publish
        PROVE  UNCHANGED <<messages, queue>> /\ page' = {}
    BY <2>7 DEF Publish, Rest
  <2> QED BY <2>2, <2>3, <2>4, <2>5, <2>6, <2>7 DEF Next, Environment, Backfill, Live
<1> QED BY <1>1, <1>2, <1>3, <1>4, <1>5, <1>6, <1>7, <1>8, <1>9

-----------------------------------------------------------------------------
\* Where the page in hand was asked from, and what it tells: it ends just below
\* that position, and what is above the first page of a catch-up is in the stream.
From == IF mode = "backfill" THEN cursor.oldest ELSE before

Fetched ==
    pc = "commit" =>
        /\ \/ page = {} /\ From <= 1
           \/ \E lo, hi \in Msg : lo <= hi /\ page = lo..hi /\ (From # NoId => hi = From - 1)
        /\ mode = "live" /\ before = NoId =>
              \A m \in 1..top[chat] : (\A n \in page : n < m) => Waits(chat, m)

\* A chat being caught up: from the page reached upwards nothing is left behind.
CatchingUp ==
    mode = "live" /\ pc # "begin" =>
        \A c \in Chats : target[c] # 0 =>
            /\ Ranged(c) /\ cursors[c].oldest <= target[c] /\ target[c] <= cursors[c].newest
            /\ IF chat = c /\ before # NoId
               THEN before <= top[c] /\ \A m \in before..top[c] : Covered(c, m)
               ELSE cursors[c].newest = target[c]

\* A chat that is caught up: above its range nothing is left behind.
Followed ==
    mode = "live" /\ pc # "begin" =>
        \A c \in Chats : Ranged(c) /\ target[c] = 0 =>
            \A m \in cursors[c].newest + 1..top[c] : Covered(c, m)

\* Of the messages not stored yet, those behind an update in the stream are the
\* newer ones.
InOrder ==
    /\ \A i \in DOMAIN queue, c \in Chats, m \in Msg :
          queue[i] = <<c, m>> /\ m \notin messages[c] =>
              \A n \in 1..top[c] \ messages[c] : n # m => (After(i, c, n) <=> n > m)
    /\ \A c \in Chats, m \in Msg :
          InHand(c, m) /\ m \notin messages[c] =>
              \A n \in 1..top[c] \ messages[c] : n # m => (Waits(c, n) <=> n > m)

\* An update for a message not stored yet is above the oldest end of the range.
Above ==
    \A c \in Chats, m \in Msg :
        Ranged(c) /\ (Waits(c, m) \/ InHand(c, m)) /\ m \notin messages[c]
            => m > cursors[c].oldest

LEMMA OrderStep ==
    ASSUME Bookkeeping, Bookkeeping', Course, Course', Reported, InOrder, [Next]_vars
    PROVE  InOrder'
<1> USE DEF Bookkeeping
<1>g. /\ \A c \in Chats : messages[c] \subseteq messages'[c]
      /\ \A c \in Chats : top[c] \in Nat /\ top'[c] \in Nat
      /\ \A c \in Chats : 1..top[c] \subseteq Msg /\ 1..top'[c] \subseteq Msg
  <2>1. Grown
    BY GrownStep
  <2>2. \A c \in Chats : top[c] \in 0..MaxMsg /\ top'[c] \in 0..MaxMsg
    BY DEF TypeOK
  <2>3. \A c \in Chats : 1..top[c] \subseteq Msg /\ 1..top'[c] \subseteq Msg
    BY <2>2, BoundsAssumption DEF Msg
  <2> QED BY <2>1, <2>2, <2>3, BoundsAssumption DEF Grown
<1>1. ASSUME mode' # "live" PROVE InOrder'
  BY <1>1 DEF Course, Control, InOrder, InHand
<1>2. ASSUME UNCHANGED <<queue, top>>, \A c \in Chats, m \in Msg : InHand(c, m)' => InHand(c, m)
      PROVE  InOrder'
  BY <1>2, <1>g DEF InOrder, After, Waits
<1>3. ASSUME NEW c \in Chats, Arrive(c), mode' = "live" PROVE InOrder'
  <2> DEFINE e == <<c, top[c] + 1>>
  <2>1. /\ UNCHANGED <<messages, mode, pc, chat, page>> /\ queue' = Append(queue, e)
        /\ top[c] + 1 \in Msg /\ top'[c] = top[c] + 1
        /\ \A d \in Chats : d # c => top'[d] = top[d]
    BY <1>3, <1>g, BoundsAssumption DEF Arrive, store, run, TypeOK, Msg
  <2>2. e \in Chats \X Msg
    BY <2>1
  <2>3. \A d \in Chats : 1..top'[d] = 1..top[d] \cup (IF d = c THEN {top[c] + 1} ELSE {})
    BY <1>g, <2>1
  <2>4. \A d \in Chats, n \in Msg : e = <<d, n>> <=> d = c /\ n = top[c] + 1
    BY <2>1
  <2> HIDE DEF e
  <2>5. /\ \A d \in Chats, m \in Msg : Waits(d, m)' <=> Waits(d, m) \/ e = <<d, m>>
        /\ \A i \in DOMAIN queue, d \in Chats, n \in Msg :
              After(i, d, n)' <=> After(i, d, n) \/ e = <<d, n>>
        /\ \A i, d, n : i = Len(queue) + 1 => ~After(i, d, n)'
        /\ DOMAIN queue' = DOMAIN queue \cup {Len(queue) + 1}
        /\ \A i \in DOMAIN queue : queue'[i] = queue[i]
        /\ queue'[Len(queue) + 1] = e
    BY <2>1, <2>2, StreamGrows
  <2>6. \A d \in Chats, m \in Msg : Waits(d, m) \/ InHand(d, m) => m <= top[d]
    BY BoundsAssumption DEF Reported, InHand, Msg
  <2>7. ASSUME NEW i \in DOMAIN queue', NEW d \in Chats, NEW m \in Msg,
               queue'[i] = <<d, m>>, m \notin messages'[d],
               NEW n \in 1..top'[d] \ messages'[d], n # m
        PROVE  After(i, d, n)' <=> n > m
    <3>1. n \in Msg /\ top[d] \in Nat
      BY <1>g
    <3>2. CASE i \in DOMAIN queue
      <4>1. queue[i] = <<d, m>> /\ m <= top[d]
        BY <2>5, <2>6, <2>7, <3>2 DEF Waits
      <4>2. CASE n \in 1..top[d]
        <5>1. After(i, d, n) <=> n > m
          BY <2>1, <2>7, <3>2, <4>1, <4>2 DEF InOrder
        <5>2. ~(e = <<d, n>>)
          BY <2>4, <3>1, <4>2
        <5> QED BY <2>5, <3>1, <3>2, <5>1, <5>2
      <4>3. CASE n \notin 1..top[d]
        <5>1. d = c /\ n = top[c] + 1
          BY <2>3, <2>7, <4>3
        <5> QED BY <2>4, <2>5, <3>1, <3>2, <4>1, <5>1, BoundsAssumption DEF Msg
      <4> QED BY <4>2, <4>3
    <3>3. CASE i = Len(queue) + 1
      <4>1. d = c /\ m = top[c] + 1
        BY <2>4, <2>5, <2>7, <3>3
      <4>2. ~(n > m)
        BY <1>g, <2>1, <2>7, <4>1
      <4>3. ~After(i, d, n)'
        BY <2>5, <3>3
      <4> QED BY <4>2, <4>3
    <3> QED BY <2>5, <3>2, <3>3
  <2>8. ASSUME NEW d \in Chats, NEW m \in Msg, InHand(d, m)', m \notin messages'[d],
               NEW n \in 1..top'[d] \ messages'[d], n # m
        PROVE  Waits(d, n)' <=> n > m
    <3>1. n \in Msg /\ top[d] \in Nat
      BY <1>g
    <3>2. InHand(d, m) /\ m <= top[d]
      BY <2>1, <2>6, <2>8 DEF InHand
    <3>3. CASE n \in 1..top[d]
      <4>1. Waits(d, n) <=> n > m
        BY <2>1, <2>8, <3>2, <3>3 DEF InOrder
      <4>2. ~(e = <<d, n>>)
        BY <2>4, <3>1, <3>3
      <4> QED BY <2>5, <3>1, <4>1, <4>2
    <3>4. CASE n \notin 1..top[d]
      <4>1. d = c /\ n = top[c] + 1
        BY <2>3, <2>8, <3>4
      <4> QED BY <2>4, <2>5, <3>1, <3>2, <4>1, BoundsAssumption DEF Msg
    <3> QED BY <3>3, <3>4
  <2> QED BY <2>7, <2>8 DEF InOrder
<1>4. ASSUME NEW c \in Chats, Redeliver(c) PROVE InOrder'
  <2>1. PICK r \in messages[c] : queue' = Append(queue, <<c, r>>)
    BY <1>4 DEF Redeliver
  <2> DEFINE e == <<c, r>>
  <2>2. UNCHANGED <<messages, mode, pc, chat, page, top>>
    BY <1>4 DEF Redeliver, store, run
  <2>3. e \in Chats \X Msg
    BY DEF TypeOK
  <2>4. \A d \in Chats : \A n \in Msg \ messages[d] : ~(e = <<d, n>>)
    OBVIOUS
  <2> HIDE DEF e
  <2>5. /\ \A d \in Chats, m \in Msg : Waits(d, m)' <=> Waits(d, m) \/ e = <<d, m>>
        /\ \A i \in DOMAIN queue, d \in Chats, n \in Msg :
              After(i, d, n)' <=> After(i, d, n) \/ e = <<d, n>>
        /\ DOMAIN queue' = DOMAIN queue \cup {Len(queue) + 1}
        /\ \A i \in DOMAIN queue : queue'[i] = queue[i]
        /\ queue'[Len(queue) + 1] = e
    BY <2>1, <2>3, StreamGrows DEF e
  <2>6. \A d \in Chats : \A n \in 1..top[d] : n \in Msg
    BY <1>g
  <2>7. ASSUME NEW i \in DOMAIN queue', NEW d \in Chats, NEW m \in Msg,
               queue'[i] = <<d, m>>, m \notin messages[d],
               NEW n \in 1..top[d] \ messages[d], n # m
        PROVE  After(i, d, n)' <=> n > m
    <3>1. i \in DOMAIN queue /\ queue[i] = <<d, m>>
      BY <2>4, <2>5, <2>7
    <3> QED BY <2>4, <2>5, <2>6, <2>7, <3>1 DEF InOrder
  <2>8. ASSUME NEW d \in Chats, NEW m \in Msg, InHand(d, m), m \notin messages[d],
               NEW n \in 1..top[d] \ messages[d], n # m
        PROVE  Waits(d, n)' <=> n > m
    BY <2>4, <2>5, <2>6, <2>8 DEF InOrder
  <2>9. \A d \in Chats, m \in Msg : InHand(d, m)' <=> InHand(d, m)
    BY <2>2 DEF InHand
  <2> QED BY <2>2, <2>7, <2>8, <2>9 DEF InOrder
<1>5. CASE Take
  <2>1. /\ queue # <<>> /\ queue' = Tail(queue) /\ UNCHANGED <<top, messages>>
        /\ \/ UNCHANGED <<pc, chat, page>> /\ pc = "drain"
           \/ chat' = Head(queue)[1] /\ page' = {Head(queue)[2]}
    BY <1>5 DEF Take, store
  <2>2. /\ \A c \in Chats, m \in Msg : Waits(c, m)' <=> After(1, c, m)
        /\ \A i \in DOMAIN queue' : /\ i + 1 \in DOMAIN queue /\ queue'[i] = queue[i + 1]
                                    /\ \A c \in Chats, n \in Msg :
                                          After(i, c, n)' <=> After(i + 1, c, n)
        /\ 1 \in DOMAIN queue /\ queue[1] = Head(queue)
    BY <2>1, StreamShrinks
  <2>3. Head(queue) \in Chats \X Msg
    BY <2>1, HeadTailProperties DEF TypeOK
  <2>4. \A d \in Chats : \A n \in 1..top[d] : n \in Msg
    BY <1>g
  <2>5. ASSUME NEW i \in DOMAIN queue', NEW d \in Chats, NEW m \in Msg,
               queue'[i] = <<d, m>>, m \notin messages[d],
               NEW n \in 1..top[d] \ messages[d], n # m
        PROVE  After(i, d, n)' <=> n > m
    BY <2>2, <2>4, <2>5 DEF InOrder
  <2>6. ASSUME NEW d \in Chats, NEW m \in Msg, InHand(d, m)', m \notin messages[d],
               NEW n \in 1..top[d] \ messages[d], n # m
        PROVE  Waits(d, n)' <=> n > m
    <3>1. Head(queue) = <<d, m>>
      BY <2>1, <2>3, <2>6 DEF InHand
    <3> QED BY <2>2, <2>4, <2>6, <3>1 DEF InOrder
  <2> QED BY <2>1, <2>5, <2>6 DEF InOrder
<1>6. mode' # "live"
      \/ (\E c \in Chats : Arrive(c) \/ Redeliver(c)) \/ Take
      \/ (UNCHANGED <<queue, top>> /\ \A c \in Chats, m \in Msg : InHand(c, m)' => InHand(c, m))
  BY ZenonT(40) DEF Next, Environment, Backfill, Live, SetPolicy, BeginBackfill, Reopen,
         CompleteBackfill, CommitBatch, CommitCatchUp, StoreUpdate, FailUpdate, BeginLive,
         StartLive, NextChat, Fetch, Publish, Stop, Restart, Rest, vars, store, run, InHand
<1> QED BY <1>1, <1>2, <1>3, <1>4, <1>5, <1>6

-----------------------------------------------------------------------------
\* What a page of a catch-up does to the bookmarks.
LEMMA CatchUpSaves ==
    ASSUME Bookkeeping, Course, CatchingUp, CommitCatchUp
    PROVE  /\ \A d \in Chats : d # chat => cursors'[d] = cursors[d]
           /\ Ranged(chat) /\ Ranged(chat)'
           /\ cursors[chat] \in Cursors /\ cursors'[chat] \in Cursors
           /\ cursors[chat].oldest <= target[chat] /\ target[chat] <= cursors[chat].newest
           /\ cursors'[chat].oldest = cursors[chat].oldest
           /\ cursors'[chat].newest >= cursors[chat].newest
           /\ cursors'[chat].complete = cursors[chat].complete
           /\ cursors'[chat].horizon = cursors[chat].horizon
           /\ Fresh \subseteq messages'[chat]
           /\ cursors'[chat] # cursors[chat] =>
                \E m \in Fresh : cursors'[chat].newest \in {cursors[chat].newest, m}
           /\ Fresh \subseteq messages[chat] \/ \A m \in Fresh : cursors'[chat].newest >= m
<1> USE DEF Bookkeeping
<1>1. /\ mode = "live" /\ pc = "commit" /\ chat \in Chats /\ target[chat] # 0
      /\ target[chat] \in Nat
  BY BoundsAssumption DEF CommitCatchUp, Course, TypeOK
<1>2. /\ Ranged(chat) /\ cursors[chat] \in Cursors /\ Current(chat) = cursors[chat]
      /\ cursors[chat].oldest <= target[chat] /\ target[chat] <= cursors[chat].newest
  BY <1>1, CurrentType DEF CatchingUp
<1>3. cursors[chat].oldest \in Nat /\ cursors[chat].newest \in Nat /\ HasSynced(cursors[chat])
  BY <1>2, CursorFields, BoundsAssumption DEF Ranged
<1>4. CASE Fresh \subseteq messages[chat]
  <2>1. UNCHANGED <<messages, cursors, chat>>
    BY <1>4 DEF CommitCatchUp
  <2> QED BY <1>2, <1>3, <1>4, <2>1 DEF Ranged
<1>5. CASE ~(Fresh \subseteq messages[chat])
  <2> DEFINE k == WithBatch(Current(chat), Min(Fresh), Max(Fresh))
  <2>1. Ingest(chat, Fresh) /\ Save(chat, k) /\ Fresh # {}
    BY <1>5 DEF CommitCatchUp
  <2>2. Fresh \in SUBSET Msg
    BY DEF TypeOK, Fresh
  <2>3. /\ Min(Fresh) \in Fresh /\ Max(Fresh) \in Fresh
        /\ \A m \in Fresh : Min(Fresh) <= m /\ m <= Max(Fresh)
    BY <2>1, <2>2, BatchEnds
  <2>4. /\ k \in Cursors /\ HasSynced(k)
        /\ k.oldest = Lesser(cursors[chat].oldest, Min(Fresh))
        /\ k.newest = Greater(cursors[chat].newest, Max(Fresh))
        /\ k.complete = cursors[chat].complete /\ k.horizon = cursors[chat].horizon
    BY <1>2, <1>3, <2>2, <2>3, WithBatchType
  <2> HIDE DEF k
  <2>5. /\ cursors'[chat] = k /\ \A d \in Chats : d # chat => cursors'[d] = cursors[d]
    BY <1>1, <2>1, <2>4, SavedType
  <2>6. /\ \A m \in Fresh : m \in Nat /\ m > target[chat]
    BY <2>2, BoundsAssumption DEF Fresh, Msg
  <2>7. /\ k.oldest = cursors[chat].oldest
        /\ k.newest >= cursors[chat].newest /\ k.newest >= Max(Fresh)
        /\ k.newest \in {cursors[chat].newest, Max(Fresh)}
    BY <1>1, <1>2, <1>3, <2>3, <2>4, <2>6 DEF Lesser, Greater
  <2>8. k # NoCursor /\ k.newest \in Nat
    BY <2>4, NoCursorAssumption, CursorFields, BoundsAssumption
  <2>9. Fresh \subseteq messages'[chat]
    BY <1>1, <2>1, <2>2, IngestedType
  <2>10. \A m \in Fresh : k.newest >= m
    BY <2>3, <2>6, <2>7, <2>8
  <2>11. Ranged(chat)'
    BY <1>1, <2>4, <2>5, <2>8 DEF Ranged, CommitCatchUp
  <2> QED BY <1>2, <2>3, <2>4, <2>5, <2>7, <2>9, <2>10, <2>11
<1> QED BY <1>4, <1>5

\* The page and what it leaves open: nothing new in it, or just below it while
\* the catch-up goes on, is left without an account.
LEMMA CatchUpPage ==
    ASSUME Bookkeeping, Bookkeeping', Course, CatchingUp, Fetched, CommitCatchUp
    PROVE  /\ \A m \in Msg : m > target[chat] /\ (\E n \in page : m <= n)
                  => m \in Accounted(chat)' \cup OpenGap(chat)'
           /\ target'[chat] \in {0, target[chat]}
           /\ target'[chat] = 0 => OpenGap(chat)' = {}
           /\ target'[chat] # 0 =>
                /\ page # {} /\ before' = Min(page) /\ page \subseteq messages'[chat]
<1> USE DEF Bookkeeping
<1> DEFINE cut == IF page # {} /\ Fresh = page /\ left = 1
                  THEN target[chat] + 1..Min(page) - 1 ELSE {}
           ends == page = {} \/ Fresh # page \/ left = 1
<1>1. /\ mode = "live" /\ pc = "commit" /\ chat \in Chats
      /\ UNCHANGED <<mode, chat>>
      /\ target' = IF ends THEN [target EXCEPT ![chat] = 0] ELSE target
      /\ before' = IF page = {} THEN before ELSE Min(page)
      /\ missed' = Stored(Skip(chat, cut, "limit"), chat, Fresh)
  BY DEF CommitCatchUp, TypeOK
<1>2. target'[chat] = IF ends THEN 0 ELSE target[chat]
  BY <1>1 DEF TypeOK
<1>3. Fresh \subseteq messages'[chat] /\ Fresh \in SUBSET Msg
  BY CatchUpSaves DEF Fresh, TypeOK
<1>4. target[chat] # 0 /\ target[chat] \in Nat
  BY <1>1, BoundsAssumption DEF Course, TypeOK
<1>5. \A m \in Msg : m \in cut => m \in Accounted(chat)'
  <2>1. "limit" \in Reasons
    BY DEF Reasons, Decided
  <2> HIDE DEF cut
  <2>2. /\ Skip(chat, cut, "limit") \in [Chats -> [Msg -> Reasons \cup {"no"}]]
        /\ \A m \in Msg : m \in cut =>
              m \in messages[chat] \/ Skip(chat, cut, "limit")[chat][m] \in Reasons
    BY <1>1, <2>1, SkipType, SkipAccounts
  <2>3. \A m \in Msg : Skip(chat, cut, "limit")[chat][m] \in Reasons
                          => missed'[chat][m] \in Reasons \/ m \in Fresh
    BY <1>1, <2>2, StoredAccounts
  <2>4. messages[chat] \subseteq messages'[chat]
    BY <1>1, GrownStep DEF Grown, Next, Live
  <2> QED BY <1>1, <1>3, <2>2, <2>3, <2>4 DEF Accounted, Missed
<1> HIDE DEF cut, ends
<1>6. ASSUME NEW m \in Msg, m > target[chat], NEW n \in page, m <= n
      PROVE  m \in Accounted(chat)' \cup OpenGap(chat)'
  <2>1. CASE m \in page
    BY <1>1, <1>3, <1>6, <2>1 DEF Fresh, Accounted
  <2>2. CASE m \notin page
    <3>1. PICK lo \in Msg, hi \in Msg : lo <= hi /\ page = lo..hi
      BY <1>1, <1>6 DEF Fetched
    <3>2. m < lo /\ lo \in page /\ \A x \in page : x >= lo /\ x \in Nat
      BY <1>6, <2>2, <3>1, BoundsAssumption DEF Msg
    <3>3. Fresh = page
      BY <1>4, <1>6, <3>1, <3>2, BoundsAssumption DEF Fresh, Msg
    <3>4. Min(page) = lo
      <4>1. Min(page) \in page /\ \A x \in page : Min(page) <= x
        BY <1>6, BatchEnds DEF TypeOK
      <4> QED BY <3>2, <4>1
    <3>5. m \in target[chat] + 1..Min(page) - 1
      BY <1>4, <1>6, <3>2, <3>4, BoundsAssumption DEF Msg
    <3>6. CASE left = 1
      BY <1>5, <3>2, <3>3, <3>5, <3>6 DEF cut
    <3>7. CASE left # 1
      <4>1. ~ends /\ before' = Min(page)
        BY <1>1, <3>2, <3>3, <3>7 DEF ends
      <4>2. before' # NoId
        BY <3>4, <4>1, BoundsAssumption DEF NoId, Msg
      <4>3. m \in target'[chat] + 1..before' - 1 /\ target'[chat] # 0
        BY <1>2, <1>4, <3>5, <4>1
      <4> QED BY <1>1, <4>2, <4>3 DEF OpenGap
    <3> QED BY <3>6, <3>7
  <2> QED BY <2>1, <2>2
<1>7. target'[chat] = 0 => OpenGap(chat)' = {}
  BY <1>1 DEF OpenGap
<1>8. target'[chat] # 0 => page # {} /\ before' = Min(page) /\ page \subseteq messages'[chat]
  BY <1>1, <1>2, <1>3 DEF ends
<1> QED BY <1>2, <1>6, <1>7, <1>8

\* What an update that is stored does to the bookmarks.
LEMMA UpdateSaves ==
    ASSUME Bookkeeping, Course, StoreUpdate, ~UNCHANGED <<messages, cursors, missed>>
    PROVE  \E m \in Msg :
             /\ page = {m} /\ m \notin messages[chat] /\ m \in messages'[chat]
             /\ missed' = Stored(Unfilled(chat, m), chat, {m})
             /\ \A d \in Chats : d # chat => cursors'[d] = cursors[d]
             /\ Ranged(chat)' /\ cursors'[chat] \in Cursors
             /\ Ranged(chat) => /\ cursors'[chat].oldest = Lesser(cursors[chat].oldest, m)
                                /\ cursors'[chat].newest = Greater(cursors[chat].newest, m)
             /\ ~Ranged(chat) => cursors'[chat].oldest = m /\ cursors'[chat].newest = m
             /\ cursors'[chat].complete = Current(chat).complete
             /\ cursors'[chat].horizon = Current(chat).horizon
<1> USE DEF Bookkeeping
<1>1. PICK m \in page \ messages[chat] :
          /\ Ingest(chat, {m}) /\ Save(chat, WithBatch(Current(chat), m, m))
          /\ missed' = Stored(Unfilled(chat, m), chat, {m})
  BY DEF StoreUpdate
<1>2. m \in Msg /\ m <= m /\ {m} \in SUBSET Msg /\ chat \in Chats /\ page = {m}
  BY BoundsAssumption DEF TypeOK, Msg, StoreUpdate, Course
<1> DEFINE k == WithBatch(Current(chat), m, m)
<1>3. /\ k \in Cursors /\ HasSynced(k) /\ k # NoCursor
      /\ Ranged(chat) => /\ k.oldest = Lesser(cursors[chat].oldest, m)
                         /\ k.newest = Greater(cursors[chat].newest, m)
      /\ ~Ranged(chat) => k.oldest = m /\ k.newest = m
      /\ k.complete = Current(chat).complete /\ k.horizon = Current(chat).horizon
  <2>1. /\ Current(chat) \in Cursors /\ (Ranged(chat) <=> HasSynced(Current(chat)))
        /\ Ranged(chat) => cursors[chat] = Current(chat)
    BY <1>2, CurrentType
  <2> QED BY <1>2, <2>1, WithBatchType, NoCursorAssumption
<1> HIDE DEF k
<1>4. cursors'[chat] = k /\ \A d \in Chats : d # chat => cursors'[d] = cursors[d]
  BY <1>1, <1>2, <1>3, SavedType DEF k
<1>5. m \in messages'[chat]
  BY <1>1, <1>2, IngestedType
<1>6. Ranged(chat)'
  BY <1>3, <1>4 DEF StoreUpdate, Ranged
<1> QED BY <1>1, <1>2, <1>3, <1>4, <1>5, <1>6

-----------------------------------------------------------------------------
\* While a live run goes on, a message that is not left behind is never left
\* behind later, and one that arrives is in the stream.
LEMMA CoveredStays ==
    ASSUME Bookkeeping, Bookkeeping', Course, [Next]_vars,
           mode = "live", mode' = "live", pc' # "begin"
    PROVE  /\ \A c \in Chats, m \in Msg : Covered(c, m) => Covered(c, m)'
           /\ \A c \in Chats : \A m \in Msg : m <= top'[c] => m <= top[c] \/ Waits(c, m)'
<1> USE DEF Bookkeeping
<1>g. /\ \A c \in Chats : Accounted(c) \subseteq Accounted(c)'
      /\ \A c \in Chats : messages'[c] \subseteq Accounted(c)'
  <2>1. Grown
    BY GrownStep
  <2> QED BY <2>1 DEF Grown, Accounted
<1>1. ASSUME UNCHANGED <<queue, top>>, pc # "store" PROVE
          /\ \A c \in Chats, m \in Msg : Covered(c, m) => Covered(c, m)'
          /\ \A c \in Chats : \A m \in Msg : m <= top'[c] => m <= top[c] \/ Waits(c, m)'
  BY <1>1, <1>g DEF Covered, Waits, InHand
<1>2. ASSUME UNCHANGED <<queue, top, pc, chat, page>> PROVE
          /\ \A c \in Chats, m \in Msg : Covered(c, m) => Covered(c, m)'
          /\ \A c \in Chats : \A m \in Msg : m <= top'[c] => m <= top[c] \/ Waits(c, m)'
  BY <1>2, <1>g DEF Covered, Waits, InHand
<1>3. ASSUME NEW c \in Chats, Arrive(c) PROVE
          /\ \A d \in Chats, m \in Msg : Covered(d, m) => Covered(d, m)'
          /\ \A d \in Chats : \A m \in Msg : m <= top'[d] => m <= top[d] \/ Waits(d, m)'
  <2> DEFINE e == <<c, top[c] + 1>>
  <2>1. /\ UNCHANGED <<pc, chat, page>> /\ queue' = Append(queue, e)
        /\ top[c] + 1 \in Msg /\ top'[c] = top[c] + 1 /\ top[c] \in Nat
        /\ \A d \in Chats : d # c => top'[d] = top[d]
    BY <1>3, BoundsAssumption DEF Arrive, run, TypeOK, Msg
  <2>2. e \in Chats \X Msg
    BY <2>1
  <2>3. \A d \in Chats, m \in Msg : Waits(d, m)' <=> Waits(d, m) \/ e = <<d, m>>
    BY <2>1, <2>2, StreamGrows
  <2>4. ASSUME NEW d \in Chats, NEW m \in Msg, m <= top'[d]
        PROVE  m <= top[d] \/ Waits(d, m)'
    <3>1. CASE d = c
      BY <2>1, <2>3, <2>4, <3>1, BoundsAssumption DEF Msg
    <3>2. CASE d # c
      BY <2>1, <2>4, <3>2
    <3> QED BY <3>1, <3>2
  <2>5. \A d \in Chats, m \in Msg : InHand(d, m)' <=> InHand(d, m)
    BY <2>1 DEF InHand
  <2> QED BY <2>3, <2>4, <2>5, <1>g DEF Covered
<1>4. ASSUME NEW c \in Chats, Redeliver(c) PROVE
          /\ \A d \in Chats, m \in Msg : Covered(d, m) => Covered(d, m)'
          /\ \A d \in Chats : \A m \in Msg : m <= top'[d] => m <= top[d] \/ Waits(d, m)'
  <2>1. PICK r \in messages[c] : queue' = Append(queue, <<c, r>>)
    BY <1>4 DEF Redeliver
  <2>2. UNCHANGED <<pc, chat, page, top>> /\ <<c, r>> \in Chats \X Msg
    BY <1>4 DEF Redeliver, run, TypeOK
  <2>3. \A d \in Chats, m \in Msg : Waits(d, m) => Waits(d, m)'
    BY <2>1, <2>2, StreamGrows
  <2>4. \A d \in Chats, m \in Msg : InHand(d, m)' <=> InHand(d, m)
    BY <2>2 DEF InHand
  <2> QED BY <2>2, <2>3, <2>4, <1>g DEF Covered
<1>5. ASSUME Take PROVE
          /\ \A d \in Chats, m \in Msg : Covered(d, m) => Covered(d, m)'
          /\ \A d \in Chats : \A m \in Msg : m <= top'[d] => m <= top[d] \/ Waits(d, m)'
  <2>1. /\ queue # <<>> /\ queue' = Tail(queue) /\ UNCHANGED <<top, messages>>
        /\ pc = "drain"
        /\ \/ missed' = Skip(Head(queue)[1], {Head(queue)[2]}, "off")
           \/ pc' = "store" /\ chat' = Head(queue)[1] /\ page' = {Head(queue)[2]}
    BY <1>5 DEF Take, store
  <2>2. \A c \in Chats, m \in Msg : Waits(c, m) => Waits(c, m)' \/ Head(queue) = <<c, m>>
    BY <2>1, StreamShrinks
  <2>3. Head(queue) \in Chats \X Msg
    BY <2>1, HeadTailProperties DEF TypeOK
  <2>4. PICK c \in Chats, m \in Msg : Head(queue) = <<c, m>>
    BY <2>3
  <2>5. m \in Accounted(c)' \/ InHand(c, m)'
    <3>1. c \in Chats /\ {m} \in SUBSET Msg
      OBVIOUS
    <3>2. CASE missed' = Skip(c, {m}, "off")
      <4>1. "off" \in Reasons
        BY DEF Reasons, Decided
      <4>2. {m} \subseteq Accounted(c)'
        BY <2>1, <3>1, <3>2, <4>1, SkippingAccounts
      <4> QED BY <4>2
    <3>3. CASE pc' = "store" /\ chat' = c /\ page' = {m}
      BY <3>3 DEF InHand
    <3>4. Head(queue)[1] = c /\ Head(queue)[2] = m
      BY <2>4
    <3> QED BY <2>1, <3>2, <3>3, <3>4, Zenon
  <2>6. \A d \in Chats, n \in Msg : ~InHand(d, n)
    BY <2>1 DEF InHand
  <2> QED BY <2>4, <2>1, <2>2, <2>5, <2>6, <1>g DEF Covered
<1>6. ASSUME StoreUpdate \/ FailUpdate PROVE
          /\ \A d \in Chats, m \in Msg : Covered(d, m) => Covered(d, m)'
          /\ \A d \in Chats : \A m \in Msg : m <= top'[d] => m <= top[d] \/ Waits(d, m)'
  <2>1. UNCHANGED <<queue, top>> /\ pc = "store"
    BY <1>6 DEF StoreUpdate, FailUpdate
  <2>2. page \subseteq Accounted(chat)' /\ chat' = chat
    <3>1. CASE StoreUpdate
      <4>1. CASE UNCHANGED <<messages, cursors, missed>>
        <5>1. page \subseteq messages[chat]
          <6>1. ASSUME NEW m \in page \ messages[chat], Ingest(chat, {m}) PROVE FALSE
            <7>1. m \in messages'[chat]
              BY <6>1 DEF Ingest, TypeOK
            <7> QED BY <4>1, <7>1
          <6> QED BY <3>1, <6>1 DEF StoreUpdate
        <5> QED BY <3>1, <4>1, <5>1, <1>g DEF StoreUpdate, TypeOK, Accounted
      <4>2. CASE ~UNCHANGED <<messages, cursors, missed>>
        <5>1. \E m \in Msg : page = {m} /\ m \in messages'[chat]
          BY <3>1, <4>2, UpdateSaves
        <5>2. chat' = chat
          BY <3>1 DEF StoreUpdate
        <5> QED BY <5>1, <5>2, <1>g DEF TypeOK
      <4> QED BY <4>1, <4>2
    <3>2. CASE FailUpdate
      <4>1. missed' = Skip(chat, page, "failed") /\ UNCHANGED <<messages, chat>>
        BY <3>2 DEF FailUpdate, store
      <4>2. "failed" \in Reasons /\ chat \in Chats /\ page \in SUBSET Msg
        BY DEF Reasons, Decided, TypeOK
      <4>3. page \subseteq Accounted(chat)'
        BY <4>1, <4>2, SkippingAccounts
      <4> QED BY <4>1, <4>3
    <3> QED BY <1>6, <3>1, <3>2
  <2> QED BY <2>1, <2>2, <1>g DEF Covered, Waits, InHand
<1>7. \/ \E c \in Chats : Arrive(c) \/ Redeliver(c)
      \/ Take \/ StoreUpdate \/ FailUpdate
      \/ UNCHANGED <<queue, top>> /\ pc # "store"
      \/ UNCHANGED <<queue, top, pc, chat, page>>
  BY DEF Next, Environment, Backfill, Live, SetPolicy, BeginBackfill, Reopen,
         CompleteBackfill, CommitBatch, CommitCatchUp, BeginLive, StartLive, NextChat,
         Fetch, Publish, Stop, Restart, Rest, vars, run
<1> QED BY <1>1, <1>2, <1>3, <1>4, <1>5, <1>6, <1>7

-----------------------------------------------------------------------------
LEMMA FetchedStep ==
    ASSUME Bookkeeping, Bookkeeping', Course, Course', Reported, CatchingUp, Fetched,
           [Next]_vars
    PROVE  Fetched'
<1> USE DEF Bookkeeping
<1>1. CASE Fetch
  <2>1. /\ pc = "fetch" /\ page' \in PagesBelow(chat, IF mode = "backfill"
                                                     THEN ResumeFrom(cursor) ELSE before)
        /\ UNCHANGED <<top, messages, cursors, mode, chat, cursor, target, before, queue>>
    BY <1>1 DEF Fetch, store
  <2>2. mode \in {"backfill", "live"}
    BY <2>1 DEF TypeOK, Control, Modes
  <2>3. /\ page' \in PagesBelow(chat, From) /\ From \in 0..MaxMsg /\ From' = From
        /\ chat \in Chats /\ top[chat] \in Nat
    BY <2>1, CursorFields, BoundsAssumption DEF From, ResumeFrom, TypeOK
  <2>4. From # 0 => From <= top[chat]
    <3>1. CASE mode = "backfill"
      <4>1. cursor = cursors[chat] /\ cursor \in Cursors
        BY <3>1 DEF HeldIsCurrent, TypeOK
      <4>2. From # 0 => From \in messages[chat]
        BY <2>3, <3>1, <4>1, NoCursorAssumption
        DEF From, CursorNamesStored, Ranged, HasSynced, NoId
      <4> QED BY <2>3, <4>2 DEF Reported
    <3>2. CASE mode = "live"
      <4>1. target[chat] # 0 /\ From = before
        BY <2>1, <3>2 DEF Course, From
      <4> QED BY <2>1, <2>3, <3>2, <4>1 DEF CatchingUp, NoId
    <3> QED BY <2>2, <3>1, <3>2
  <2>5. /\ page' \in SUBSET Msg
        /\ NewestBelow(chat, From) \in 0..MaxMsg
        /\ page' = {} => NewestBelow(chat, From) = 0
        /\ page' # {} => \E lo \in Msg : lo <= NewestBelow(chat, From)
                                         /\ page' = lo..NewestBelow(chat, From)
    BY <2>3, PageIsRun
  <2>6. NewestBelow(chat, From) = IF From = 0 THEN top[chat] ELSE From - 1
    BY <2>3, <2>4, BoundsAssumption DEF NewestBelow, Lesser, NoId
  <2>7. CASE page' = {}
    <3>1. From <= 1 /\ (From = 0 => top[chat] = 0)
      BY <2>3, <2>5, <2>6, <2>7
    <3>2. mode = "live" /\ before = NoId => 1..top[chat] = {}
      BY <2>3, <3>1 DEF From, NoId
    <3> QED BY <2>1, <2>3, <2>7, <3>1, <3>2 DEF Fetched
  <2>8. CASE page' # {}
    <3>1. PICK lo \in Msg : /\ lo <= NewestBelow(chat, From)
                            /\ page' = lo..NewestBelow(chat, From)
      BY <2>5, <2>8
    <3>2. NewestBelow(chat, From) \in Msg
      BY <2>5, <3>1, BoundsAssumption DEF Msg
    <3>3. PICK hi \in Msg : hi = NewestBelow(chat, From)
      BY <3>2
    <3>4. From # NoId => hi = From - 1
      BY <2>6, <3>3 DEF NoId
    <3>5. mode = "live" /\ before = NoId =>
              \A m \in 1..top[chat] : ~(\A n \in page' : n < m)
      <4>1. hi \in page'
        BY <3>1, <3>3, BoundsAssumption DEF Msg
      <4>2. mode = "live" /\ before = NoId => hi = top[chat]
        BY <2>6, <3>3 DEF From, NoId
      <4> QED BY <4>1, <4>2, <2>3
    <3> QED BY <2>1, <2>3, <3>1, <3>3, <3>4, <3>5 DEF Fetched
  <2> QED BY <2>7, <2>8
<1>2. ASSUME UNCHANGED <<mode, pc, chat, cursor, page, before>>,
             mode = "live" => mode' = "live" /\ pc' # "begin", pc = "commit"
      PROVE  Fetched'
  <2>1. From' = From
    BY <1>2 DEF From
  <2>2. ASSUME mode = "live", before = NoId, NEW m \in 1..top'[chat], \A n \in page : n < m
        PROVE  Waits(chat, m)'
    <3>1. /\ \A c \in Chats, n \in Msg : Covered(c, n) => Covered(c, n)'
          /\ \A c \in Chats : \A n \in Msg : n <= top'[c] => n <= top[c] \/ Waits(c, n)'
      BY <1>2, <2>2, CoveredStays
    <3>2. chat \in Chats /\ chat' = chat /\ m \in Msg /\ top[chat] \in Nat
      BY <1>2, BoundsAssumption DEF TypeOK, Msg
    <3>3. CASE m <= top[chat]
      <4>1. Waits(chat, m)
        BY <1>2, <2>2, <3>2, <3>3, BoundsAssumption DEF Fetched, Msg
      <4>2. queue' = queue \/ \E c \in Chats, r \in Msg : queue' = Append(queue, <<c, r>>)
        <5>1. ASSUME NEW c \in Chats, Arrive(c)
              PROVE  queue' = queue \/ \E r \in Msg : queue' = Append(queue, <<c, r>>)
          <6>1. top[c] + 1 \in Msg
            BY <5>1, BoundsAssumption DEF Arrive, TypeOK, Msg
          <6> QED BY <5>1, <6>1 DEF Arrive
        <5>2. ASSUME NEW c \in Chats, Redeliver(c)
              PROVE  \E r \in Msg : queue' = Append(queue, <<c, r>>)
          BY <5>2 DEF Redeliver, TypeOK
        <5>3. queue' = queue \/ \E c \in Chats : Arrive(c) \/ Redeliver(c)
          BY <1>2 DEF Next, Environment, Backfill, Live, SetPolicy, BeginBackfill, Reopen,
             CompleteBackfill, CommitBatch, CommitCatchUp, BeginLive, StartLive, NextChat,
             Take, StoreUpdate, FailUpdate, Fetch, Publish, Stop, Restart, Rest, vars, Control
        <5> QED BY <5>1, <5>2, <5>3
      <4>3. \A c \in Chats, n \in Msg : Waits(c, n) => Waits(c, n)'
        <5>1. ASSUME NEW c \in Chats, NEW r \in Msg, queue' = Append(queue, <<c, r>>)
              PROVE  \A d \in Chats, n \in Msg : Waits(d, n) => Waits(d, n)'
          BY <5>1, StreamGrows
        <5> QED BY <4>2, <5>1 DEF Waits
      <4> QED BY <3>2, <4>1, <4>3
    <3>4. CASE ~(m <= top[chat])
      <4>1. m <= top'[chat]
        BY <3>2, BoundsAssumption DEF TypeOK
      <4> QED BY <3>1, <3>2, <3>4, <4>1
    <3> QED BY <3>3, <3>4
  <2> QED BY <1>2, <2>1, <2>2 DEF Fetched
<1>3. ASSUME pc' # "commit" PROVE Fetched'
  BY <1>3 DEF Fetched
<1>4. Fetch \/ pc' # "commit"
      \/ (UNCHANGED <<mode, pc, chat, cursor, page, before>> /\ pc = "commit")
  BY ZenonT(40) DEF Next, Environment, Backfill, Live, Arrive, Redeliver, SetPolicy, BeginBackfill,
         Reopen, CompleteBackfill, CommitBatch, CommitCatchUp, BeginLive, StartLive,
         NextChat, Take, StoreUpdate, FailUpdate, Publish, Stop, Restart, Rest, vars, run
<1> QED BY <1>1, <1>2, <1>3, <1>4

-----------------------------------------------------------------------------
\* One page of a catch-up leaves nothing behind: what is above the page reached
\* is covered, and when the catch-up ends so is what is above the range.
LEMMA CatchUpCovers ==
    ASSUME Bookkeeping, Bookkeeping', Course, Course', Reported, CatchingUp, Fetched,
           CommitCatchUp
    PROVE  /\ target'[chat] # 0 =>
                before' # NoId /\ before' <= top[chat]
                /\ \A m \in before'..top[chat] : Covered(chat, m)'
           /\ target'[chat] = 0 =>
                \A m \in cursors'[chat].newest + 1..top[chat] : Covered(chat, m)'
<1> USE DEF Bookkeeping
<1>1. /\ mode = "live" /\ pc = "commit" /\ chat \in Chats /\ target[chat] # 0
      /\ UNCHANGED <<mode, chat, top, queue>> /\ pc' # "begin"
      /\ top[chat] \in 0..MaxMsg /\ before \in Nat /\ target[chat] \in Nat
  BY BoundsAssumption DEF CommitCatchUp, Course, TypeOK
<1>2. \A m \in Msg : Covered(chat, m) => Covered(chat, m)'
  BY <1>1, CoveredStays DEF Next, Live
<1>3. /\ \A m \in Msg : m > target[chat] /\ (\E n \in page : m <= n)
             => m \in Accounted(chat)' \cup OpenGap(chat)'
      /\ target'[chat] \in {0, target[chat]}
      /\ target'[chat] = 0 => OpenGap(chat)' = {}
      /\ target'[chat] # 0 =>
           /\ page # {} /\ before' = Min(page) /\ page \subseteq messages'[chat]
  BY CatchUpPage
<1>4. /\ target[chat] <= cursors[chat].newest /\ cursors[chat].newest <= cursors'[chat].newest
      /\ cursors[chat].newest \in Nat /\ cursors'[chat].newest \in Nat
  BY CatchUpSaves, CursorFields, BoundsAssumption
\* What the page and the bookmark before it say of a message above the page.
<1>5. ASSUME NEW m \in Msg, m <= top[chat], \A n \in page : n < m, page # {} \/ From <= 1
      PROVE  Covered(chat, m)
  <2>1. CASE before = NoId
    <3>1. Waits(chat, m)
      BY <1>1, <1>5, <2>1, BoundsAssumption DEF Fetched, Msg
    <3> QED BY <3>1 DEF Covered
  <2>2. CASE before # NoId
    <3>1. before <= m
      <4>1. CASE page = {} /\ From <= 1
        BY <1>1, <1>5, <4>1, BoundsAssumption DEF From, Msg
      <4>2. CASE page # {}
        <5>1. PICK lo \in Msg, hi \in Msg : lo <= hi /\ page = lo..hi /\ hi = before - 1
          BY <1>1, <2>2, <4>2 DEF Fetched, From
        <5>2. hi \in page
          BY <5>1, BoundsAssumption DEF Msg
        <5>3. hi < m
          BY <1>5, <5>2
        <5> QED BY <1>1, <5>1, <5>3, BoundsAssumption DEF Msg
      <4> QED BY <1>5, <4>1, <4>2
    <3>2. m \in before..top[chat]
      BY <1>1, <1>5, <3>1, BoundsAssumption DEF Msg
    <3> QED BY <1>1, <2>2, <3>2 DEF CatchingUp
  <2> QED BY <2>1, <2>2
<1>6. page # {} \/ From <= 1
  <2>1. CASE page = {} /\ From <= 1
    BY <2>1
  <2>2. ASSUME NEW lo \in Msg, NEW hi \in Msg, lo <= hi, page = lo..hi PROVE page # {}
    <3>1. lo \in page
      BY <2>2, BoundsAssumption DEF Msg
    <3> QED BY <3>1
  <2> QED BY <1>1, <2>1, <2>2 DEF Fetched
<1>7. ASSUME target'[chat] # 0
      PROVE  before' # NoId /\ before' <= top[chat]
             /\ \A m \in before'..top[chat] : Covered(chat, m)'
  <2>1. /\ before' = Min(page) /\ page # {} /\ Min(page) \in page
        /\ before' \in 1..top[chat]
    <3>1. page # {} /\ before' = Min(page) /\ page \in SUBSET Msg
      BY <1>3, <1>7 DEF TypeOK
    <3>2. Min(page) \in page
      BY <3>1, BatchEnds
    <3> QED BY <3>1, <3>2 DEF Reported
  <2>2. before' # NoId /\ before' <= top[chat]
    BY <1>1, <2>1 DEF NoId
  <2>3. ASSUME NEW m \in before'..top[chat] PROVE Covered(chat, m)'
    <3>1. m \in Msg /\ m <= top[chat] /\ m >= before'
      BY <1>1, <2>1, BoundsAssumption DEF Msg
    <3>2. CASE m \in page
      BY <1>1, <1>3, <1>7, <3>2 DEF Covered, Accounted
    <3>3. CASE m \notin page
      <4>1. PICK lo \in Msg, hi \in Msg : lo <= hi /\ page = lo..hi
        BY <1>1, <2>1 DEF Fetched
      <4>2. lo <= Min(page)
        BY <2>1, <4>1
      <4>3. \A n \in page : n < m
        BY <1>3, <1>7, <2>1, <3>1, <3>3, <4>1, <4>2, BoundsAssumption DEF Msg
      <4> QED BY <1>2, <1>5, <2>1, <3>1, <4>3
    <3> QED BY <3>2, <3>3
  <2> QED BY <2>2, <2>3
<1>8. ASSUME target'[chat] = 0, NEW m \in cursors'[chat].newest + 1..top[chat]
      PROVE  Covered(chat, m)'
  <2>1. m \in Msg /\ m <= top[chat] /\ m > target[chat]
    BY <1>1, <1>4, <1>8, BoundsAssumption DEF Msg
  <2>2. CASE \E n \in page : m <= n
    BY <1>1, <1>3, <1>8, <2>1, <2>2 DEF Covered
  <2>3. CASE ~(\E n \in page : m <= n)
    <3>1. \A n \in page : n < m
      BY <2>1, <2>3, BoundsAssumption DEF TypeOK, Msg
    <3> QED BY <1>2, <1>5, <1>6, <2>1, <3>1
  <2> QED BY <2>2, <2>3
<1> QED BY <1>7, <1>8

\* A live step that moves no bookmark and goes on with the same catch-up.
LEMMA SameReach ==
    ASSUME Bookkeeping, Bookkeeping', Course, Course', CatchingUp, Followed, [Next]_vars,
           mode = "live", mode' = "live", pc # "begin", pc' # "begin",
           UNCHANGED <<cursors, target>>,
           UNCHANGED <<chat, before>> \/ target = Nothing
    PROVE  CatchingUp' /\ Followed'
<1> USE DEF Bookkeeping
<1>1. /\ \A c \in Chats, m \in Msg : Covered(c, m) => Covered(c, m)'
      /\ \A c \in Chats : \A m \in Msg : m <= top'[c] => m <= top[c] \/ Waits(c, m)'
  BY CoveredStays
<1>2. \A c \in Chats : top[c] \in 0..MaxMsg /\ top'[c] \in 0..MaxMsg /\ top[c] <= top'[c]
  <2>1. Grown
    BY GrownStep
  <2> QED BY <2>1 DEF Grown, TypeOK
<1>3. ASSUME NEW c \in Chats, NEW lo \in Nat, lo # 0, \A m \in lo..top[c] : Covered(c, m),
             NEW m \in lo..top'[c]
      PROVE  Covered(c, m)'
  <2>1. m \in Msg /\ m <= top'[c] /\ m >= lo
    BY <1>2, <1>3, BoundsAssumption DEF Msg
  <2>2. CASE m <= top[c]
    <3>1. m \in lo..top[c]
      BY <1>2, <1>3, <2>1, <2>2, BoundsAssumption DEF Msg
    <3> QED BY <1>1, <1>3, <2>1, <3>1
  <2>3. CASE ~(m <= top[c])
    BY <1>1, <2>1, <2>3 DEF Covered
  <2> QED BY <2>2, <2>3
<1>4. CatchingUp'
  <2> SUFFICES ASSUME NEW c \in Chats, target'[c] # 0
               PROVE  /\ Ranged(c)' /\ cursors'[c].oldest <= target'[c]
                      /\ target'[c] <= cursors'[c].newest
                      /\ IF chat' = c /\ before' # NoId
                         THEN before' <= top'[c] /\ \A m \in before'..top'[c] : Covered(c, m)'
                         ELSE cursors'[c].newest = target'[c]
    BY DEF CatchingUp
  <2>1. UNCHANGED <<chat, before>>
    BY NothingIsZero
  <2>2. /\ Ranged(c) /\ cursors[c].oldest <= target[c] /\ target[c] <= cursors[c].newest
        /\ IF chat = c /\ before # NoId
           THEN before <= top[c] /\ \A m \in before..top[c] : Covered(c, m)
           ELSE cursors[c].newest = target[c]
    BY DEF CatchingUp
  <2>3. before \in Nat
    BY BoundsAssumption DEF TypeOK
  <2>4. chat = c /\ before # NoId =>
            before <= top'[c] /\ \A m \in before..top'[c] : Covered(c, m)'
    BY <1>2, <1>3, <2>2, <2>3, BoundsAssumption DEF NoId
  <2> QED BY <2>1, <2>2, <2>4 DEF Ranged
<1>5. Followed'
  <2> SUFFICES ASSUME NEW c \in Chats, Ranged(c), target[c] = 0
               PROVE  \A m \in cursors[c].newest + 1..top'[c] : Covered(c, m)'
    BY DEF Followed, Ranged
  <2>1. cursors[c].newest + 1 \in Nat /\ cursors[c].newest + 1 # 0
    BY CurrentType, CursorFields, BoundsAssumption
  <2> QED BY <1>3, <2>1 DEF Followed
<1> QED BY <1>4, <1>5

LEMMA ReachStep ==
    ASSUME Bookkeeping, Bookkeeping', Course, Course', Reported, Reported', InOrder,
           CatchingUp, Followed, Fetched, [Next]_vars
    PROVE  CatchingUp' /\ Followed'
<1> USE DEF Bookkeeping
<1>1. ASSUME mode' # "live" \/ pc' = "begin" PROVE CatchingUp' /\ Followed'
  BY <1>1 DEF CatchingUp, Followed
<1>2. CASE BeginLive
  <2>1. /\ pc = "begin" /\ mode = "live" /\ UNCHANGED <<top, messages, cursors, before>>
        /\ target' = [c \in Chats |-> IF catchUp /\ Followable(c)
                                      THEN cursors[c].newest ELSE 0]
        /\ missed' = [c \in Chats |-> PassedOver(c)]
    BY <1>2 DEF BeginLive, store, Control
  <2>2. before' = NoId
    BY <2>1 DEF Course
  <2>3. \A c \in Chats : /\ Ranged(c)' <=> Ranged(c)
                         /\ Ranged(c) => /\ cursors[c].oldest <= cursors[c].newest
                                         /\ cursors[c].newest # 0
    BY <2>1, CurrentType, CursorFields, BoundsAssumption DEF Ranged, Msg
  <2>4. CatchingUp'
    <3> SUFFICES ASSUME NEW c \in Chats, target'[c] # 0
                 PROVE  /\ Ranged(c)' /\ cursors[c].oldest <= target'[c]
                        /\ target'[c] <= cursors[c].newest /\ cursors[c].newest = target'[c]
      BY <2>1, <2>2 DEF CatchingUp
    <3>1. Ranged(c) /\ target'[c] = cursors[c].newest
      BY <2>1 DEF Followable
    <3>2. cursors[c].newest \in Nat
      BY <3>1, CurrentType, CursorFields, BoundsAssumption
    <3> QED BY <2>3, <3>1, <3>2
  <2>5. ASSUME NEW c \in Chats, Ranged(c), target'[c] = 0,
               NEW m \in cursors[c].newest + 1..top[c]
        PROVE  Covered(c, m)'
    <3>1. ~(syncEnabled[c] /\ catchUp)
      BY <2>1, <2>3, <2>5 DEF Followable
    <3>2. m \in Accounted(c)'
      BY <2>1, <2>5, <3>1, PassedOverAccounts
    <3> QED BY <3>2 DEF Covered
  <2> QED BY <2>1, <2>3, <2>4, <2>5 DEF Followed
<1>3. CASE NextChat
  <2>1. /\ pc = "next" /\ pc' = "fetch" /\ mode = "live" /\ before' = NoId
        /\ UNCHANGED <<mode, top, messages, missed, cursors, target, queue>>
    BY <1>3 DEF NextChat, store, Control
  <2>2. \A c \in Chats, m \in Msg : Covered(c, m) => Covered(c, m)'
    BY <1>3, <2>1, CoveredStays DEF Next, Live
  <2>3. \A c \in Chats : target[c] # 0 => ~(chat = c /\ before # NoId)
    BY <2>1 DEF Course
  <2>4. CatchingUp'
    BY <2>1, <2>3 DEF CatchingUp, Ranged
  <2>5. \A c \in Chats : Ranged(c) => cursors[c].newest + 1..top[c] \subseteq Msg
    <3> TAKE c \in Chats
    <3>1. top[c] \in 0..MaxMsg /\ (Ranged(c) => cursors[c].newest \in Nat)
      BY CurrentType, CursorFields, BoundsAssumption, SMTT(30) DEF TypeOK
    <3> QED BY <3>1, BoundsAssumption DEF Msg
  <2>6. Followed'
    BY <2>1, <2>2, <2>5 DEF Followed, Ranged
  <2> QED BY <2>4, <2>6
<1>4. CASE CommitCatchUp
  <2>1. /\ mode = "live" /\ pc = "commit" /\ chat \in Chats /\ target[chat] # 0
        /\ UNCHANGED <<mode, chat, top>> /\ mode' = "live" /\ pc' # "begin"
        /\ \A c \in Chats : c # chat => target'[c] = target[c]
    BY <1>4 DEF CommitCatchUp, Course, TypeOK
  <2>2. \A c \in Chats, m \in Msg : Covered(c, m) => Covered(c, m)'
    BY <1>4, <2>1, CoveredStays DEF Next, Live
  <2>3. /\ \A d \in Chats : d # chat => cursors'[d] = cursors[d]
        /\ Ranged(chat)'
        /\ cursors'[chat].oldest <= target[chat] /\ target[chat] <= cursors'[chat].newest
    <3>1. /\ \A d \in Chats : d # chat => cursors'[d] = cursors[d]
          /\ Ranged(chat)' /\ cursors[chat] \in Cursors /\ cursors'[chat] \in Cursors
          /\ cursors[chat].oldest <= target[chat] /\ target[chat] <= cursors[chat].newest
          /\ cursors'[chat].oldest = cursors[chat].oldest
          /\ cursors'[chat].newest >= cursors[chat].newest
      BY <1>4, CatchUpSaves
    <3>2. /\ cursors[chat].newest \in Nat /\ cursors'[chat].newest \in Nat
          /\ target[chat] \in Nat
      BY <2>1, <3>1, CursorFields, BoundsAssumption DEF TypeOK
    <3> QED BY <3>1, <3>2
  <2>4. target'[chat] \in {0, target[chat]}
    BY <1>4, CatchUpPage
  <2>5. /\ target'[chat] # 0 =>
             before' # NoId /\ before' <= top[chat]
             /\ \A m \in before'..top[chat] : Covered(chat, m)'
        /\ target'[chat] = 0 =>
             \A m \in cursors'[chat].newest + 1..top[chat] : Covered(chat, m)'
    BY <1>4, CatchUpCovers
  <2>6. CatchingUp'
    <3> SUFFICES ASSUME NEW c \in Chats, target'[c] # 0
                 PROVE  /\ Ranged(c)' /\ cursors'[c].oldest <= target'[c]
                        /\ target'[c] <= cursors'[c].newest
                        /\ IF chat = c /\ before' # NoId
                           THEN before' <= top[c] /\ \A m \in before'..top[c] : Covered(c, m)'
                           ELSE cursors'[c].newest = target'[c]
      BY <2>1 DEF CatchingUp
    <3>1. CASE c = chat
      BY <2>1, <2>3, <2>4, <2>5, <3>1
    <3>2. CASE c # chat
      BY <2>1, <2>3, <3>2 DEF CatchingUp, Ranged
    <3> QED BY <3>1, <3>2
  <2>7. Followed'
    <3> SUFFICES ASSUME NEW c \in Chats, Ranged(c)', target'[c] = 0,
                        NEW m \in cursors'[c].newest + 1..top[c]
                 PROVE  Covered(c, m)'
      BY <2>1 DEF Followed
    <3>1. CASE c = chat
      BY <2>1, <2>5, <3>1
    <3>2. CASE c # chat
      <4>1. Ranged(c) /\ cursors'[c] = cursors[c] /\ target[c] = 0
        BY <2>1, <2>3, <3>2 DEF Ranged
      <4>2. top[c] \in 0..MaxMsg /\ cursors[c].newest \in Nat
        <5>1. cursors[c] \in Cursors
          BY <4>1, CurrentType
        <5> QED BY <5>1, CursorFields, BoundsAssumption, SMTT(30) DEF TypeOK
      <4>3. m \in Msg
        BY <4>1, <4>2, BoundsAssumption DEF Msg
      <4>4. Covered(c, m)
        BY <2>1, <4>1 DEF Followed
      <4> QED BY <2>2, <4>3, <4>4
    <3> QED BY <3>1, <3>2
  <2> QED BY <2>6, <2>7
<1>5. ASSUME StoreUpdate, ~UNCHANGED <<messages, cursors, missed>>
      PROVE  CatchingUp' /\ Followed'
  <2>1. /\ mode = "live" /\ pc = "store" /\ pc' # "begin" /\ target = Nothing
        /\ UNCHANGED <<mode, chat, top, target, queue>> /\ chat \in Chats
    BY <1>5 DEF StoreUpdate, Control, Course, TypeOK
  <2>2. PICK m \in Msg :
           /\ page = {m} /\ m \notin messages[chat]
           /\ \A d \in Chats : d # chat => cursors'[d] = cursors[d]
           /\ Ranged(chat)' /\ cursors'[chat] \in Cursors
           /\ Ranged(chat) => cursors'[chat].newest = Greater(cursors[chat].newest, m)
           /\ ~Ranged(chat) => cursors'[chat].newest = m
    BY <1>5, UpdateSaves
  <2>3. \A c \in Chats, n \in Msg : Covered(c, n) => Covered(c, n)'
    BY <1>5, <2>1, CoveredStays DEF Next, Live
  <2>4. CatchingUp'
    BY <2>1, NothingIsZero DEF CatchingUp
  <2>5. Followed'
    <3> SUFFICES ASSUME NEW c \in Chats, Ranged(c)',
                        NEW n \in cursors'[c].newest + 1..top[c]
                 PROVE  Covered(c, n)'
      BY <2>1 DEF Followed
    <3>1. top[c] \in 0..MaxMsg /\ target[c] = 0
      BY <2>1, NothingIsZero DEF TypeOK
    <3>2. CASE Ranged(c)
      <4>1. cursors[c].newest \in Nat
        BY <3>2, CurrentType, CursorFields, BoundsAssumption
      <4>2. cursors'[c].newest \in Nat /\ cursors'[c].newest >= cursors[c].newest
        BY <2>2, <3>2, <4>1, BoundsAssumption DEF Greater, Msg
      <4>3. n \in cursors[c].newest + 1..top[c] /\ n \in Msg
        BY <3>1, <4>1, <4>2, BoundsAssumption DEF Msg
      <4>4. Covered(c, n)
        BY <2>1, <3>1, <3>2, <4>3 DEF Followed
      <4> QED BY <2>3, <4>3, <4>4
    <3>3. CASE ~Ranged(c)
      <4>1. c = chat /\ cursors'[c].newest = m
        BY <2>1, <2>2, <3>3 DEF Ranged
      <4>2. n \in 1..top[c] /\ n \in Msg /\ n > m
        BY <3>1, <4>1, BoundsAssumption DEF Msg
      <4>3. InHand(chat, m)
        BY <2>1, <2>2 DEF InHand
      <4>4. n \in messages[c] \/ Waits(c, n)
        BY <2>1, <2>2, <4>1, <4>2, <4>3, BoundsAssumption DEF InOrder, Msg
      <4> QED BY <2>3, <4>2, <4>4 DEF Covered, Accounted
    <3> QED BY <3>2, <3>3
  <2> QED BY <2>4, <2>5
<1>6. ASSUME mode = "live", mode' = "live", pc # "begin", pc' # "begin",
             UNCHANGED <<cursors, target>>, UNCHANGED <<chat, before>> \/ target = Nothing
      PROVE  CatchingUp' /\ Followed'
  BY <1>6, SameReach
<1>7. \/ mode' # "live" \/ pc' = "begin"
      \/ BeginLive \/ NextChat \/ CommitCatchUp
      \/ StoreUpdate /\ ~UNCHANGED <<messages, cursors, missed>>
      \/ /\ mode = "live" /\ pc # "begin"
         /\ UNCHANGED <<cursors, target>> /\ (UNCHANGED <<chat, before>> \/ target = Nothing)
  <2>1. ASSUME Take
        PROVE  target = Nothing /\ pc = "drain" /\ mode = "live" /\ UNCHANGED <<cursors, target>>
    BY <2>1 DEF Take, Course, Control, store
  <2>2. ASSUME StoreUpdate \/ FailUpdate
        PROVE  mode = "live" /\ pc = "store" /\ UNCHANGED <<chat, before, target>>
    BY <2>2 DEF StoreUpdate, FailUpdate, Control
  <2>3. ASSUME FailUpdate PROVE UNCHANGED cursors
    BY <2>3 DEF FailUpdate, store
  <2>4. ASSUME Fetch \/ Publish, mode' = "live"
        PROVE  /\ mode = "live" /\ pc # "begin"
               /\ UNCHANGED <<chat, before, target, cursors>>
    BY <2>4 DEF Fetch, Publish, Rest, store
  <2>5. ASSUME (\E c \in Chats : Arrive(c) \/ Redeliver(c) \/ SetPolicy(c)) \/ UNCHANGED vars
        PROVE  UNCHANGED <<mode, pc, chat, before, target, cursors>>
    BY <2>5 DEF Arrive, Redeliver, SetPolicy, vars, run, store
  <2>6. ASSUME Stop \/ Backfill \/ (\E w \in BOOLEAN : StartLive(w)) \/ Restart
        PROVE  mode' # "live" \/ pc' = "begin"
    BY <2>6 DEF Stop, Rest, Backfill, BeginBackfill, Reopen, CompleteBackfill, CommitBatch,
                StartLive, Restart, Control
  <2> QED BY <2>1, <2>2, <2>3, <2>4, <2>5, <2>6 DEF Next, Environment, Live
<1> QED BY <1>1, <1>2, <1>3, <1>4, <1>5, <1>6, <1>7

-----------------------------------------------------------------------------
LEMMA AboveStep ==
    ASSUME Bookkeeping, Bookkeeping', Course, Course', Reported, InOrder, Above,
           CatchingUp, [Next]_vars
    PROVE  Above'
<1> USE DEF Bookkeeping
<1>g. \A c \in Chats : messages[c] \subseteq messages'[c]
  BY GrownStep DEF Grown
<1>1. ASSUME mode' # "live" PROVE Above'
  BY <1>1 DEF Course, Control, Above, Waits, InHand
\* Steps that bring nothing new into the stream and move no oldest end.
<1>2. ASSUME \A c \in Chats, m \in Msg : Waits(c, m)' \/ InHand(c, m)' =>
                   Waits(c, m) \/ InHand(c, m) \/ m \in messages[c],
             \A c \in Chats : Ranged(c)' =>
                   Ranged(c) /\ cursors'[c].oldest = cursors[c].oldest
      PROVE  Above'
  BY <1>2, <1>g DEF Above
<1>3. ASSUME NEW c \in Chats, Arrive(c), mode' = "live" PROVE Above'
  <2> DEFINE e == <<c, top[c] + 1>>
  <2>1. /\ UNCHANGED <<messages, cursors, pc, chat, page>> /\ queue' = Append(queue, e)
        /\ top[c] + 1 \in Msg /\ top[c] \in Nat
    BY <1>3, BoundsAssumption DEF Arrive, store, run, TypeOK, Msg
  <2>2. e \in Chats \X Msg
    BY <2>1
  <2>3. \A d \in Chats, m \in Msg : Waits(d, m)' <=> Waits(d, m) \/ e = <<d, m>>
    BY <2>1, <2>2, StreamGrows
  <2>4. Ranged(c) => cursors[c].oldest \in 1..top[c]
    BY DEF CursorNamesStored, Reported
  <2>5. ASSUME NEW d \in Chats, NEW m \in Msg, Ranged(d), Waits(d, m)' \/ InHand(d, m),
               m \notin messages[d]
        PROVE  m > cursors[d].oldest
    <3>1. CASE Waits(d, m) \/ InHand(d, m)
      BY <2>5, <3>1 DEF Above
    <3>2. CASE e = <<d, m>>
      <4>1. d = c /\ m = top[c] + 1
        BY <3>2
      <4> QED BY <2>1, <2>4, <2>5, <4>1
    <3> QED BY <2>3, <2>5, <3>1, <3>2
  <2> QED BY <2>1, <2>5 DEF Above, Ranged, InHand
<1>4. ASSUME NEW c \in Chats, Redeliver(c) PROVE Above'
  <2>1. PICK r \in messages[c] : queue' = Append(queue, <<c, r>>)
    BY <1>4 DEF Redeliver
  <2>2. UNCHANGED <<cursors, pc, chat, page>> /\ <<c, r>> \in Chats \X Msg
    BY <1>4 DEF Redeliver, run, store, TypeOK
  <2>3. \A d \in Chats, m \in Msg : Waits(d, m)' => Waits(d, m) \/ <<c, r>> = <<d, m>>
    BY <2>1, <2>2, StreamGrows
  <2>4. \A d \in Chats, m \in Msg : InHand(d, m)' <=> InHand(d, m)
    BY <2>2 DEF InHand
  <2> QED BY <1>2, <2>2, <2>3, <2>4 DEF Ranged
<1>5. CASE Take
  <2>1. /\ queue # <<>> /\ queue' = Tail(queue) /\ UNCHANGED cursors
        /\ \/ UNCHANGED <<pc, chat, page>>
           \/ chat' = Head(queue)[1] /\ page' = {Head(queue)[2]}
    BY <1>5 DEF Take, store
  <2>2. /\ \A c \in Chats, m \in Msg : Waits(c, m)' => Waits(c, m)
        /\ \A c \in Chats, m \in Msg : Head(queue) = <<c, m>> => Waits(c, m)
    BY <2>1, StreamShrinks DEF After, Waits
  <2>3. Head(queue) \in Chats \X Msg
    BY <2>1, HeadTailProperties DEF TypeOK
  <2>4. \A c \in Chats, m \in Msg : InHand(c, m)' => InHand(c, m) \/ Head(queue) = <<c, m>>
    BY <2>1, <2>3 DEF InHand
  <2> QED BY <1>2, <2>1, <2>2, <2>4 DEF Ranged
<1>6. CASE CommitCatchUp
  <2>1. UNCHANGED <<queue, chat>> /\ pc' # "store"
    BY <1>6 DEF CommitCatchUp
  <2>2. \A c \in Chats : Ranged(c)' => Ranged(c) /\ cursors'[c].oldest = cursors[c].oldest
    BY <1>6, <2>1, CatchUpSaves DEF Ranged
  <2>3. \A c \in Chats, m \in Msg : Waits(c, m)' \/ InHand(c, m)' => Waits(c, m)
    BY <2>1 DEF Waits, InHand
  <2> QED BY <1>2, <2>2, <2>3
<1>7. ASSUME StoreUpdate, ~UNCHANGED <<messages, cursors, missed>> PROVE Above'
  <2>1. /\ pc = "store" /\ pc' # "store" /\ UNCHANGED <<chat, top, queue>> /\ chat \in Chats
    BY <1>7, UpdateSaves DEF StoreUpdate, Control, Course, TypeOK
  <2>2. PICK m \in Msg :
           /\ page = {m} /\ m \notin messages[chat] /\ m \in messages'[chat]
           /\ \A d \in Chats : d # chat => cursors'[d] = cursors[d]
           /\ Ranged(chat) => cursors'[chat].oldest = Lesser(cursors[chat].oldest, m)
           /\ ~Ranged(chat) => cursors'[chat].oldest = m
    BY <1>7, UpdateSaves
  <2>3. InHand(chat, m)
    BY <2>1, <2>2 DEF InHand
  <2>4. ASSUME NEW c \in Chats, NEW n \in Msg, Ranged(c)', Waits(c, n), n \notin messages'[c]
        PROVE  n > cursors'[c].oldest
    <3>1. n \notin messages[c]
      BY <2>4, <1>g
    <3>2. CASE c # chat
      BY <2>2, <2>4, <3>1, <3>2 DEF Above, Ranged
    <3>3. CASE c = chat /\ Ranged(chat)
      <4>1. m > cursors[chat].oldest /\ n > cursors[chat].oldest
        BY <2>1, <2>2, <2>3, <2>4, <3>1, <3>3 DEF Above
      <4>2. cursors[chat].oldest \in Nat
        BY <3>3, CurrentType, CursorFields, BoundsAssumption
      <4> QED BY <2>2, <3>3, <4>1, <4>2, BoundsAssumption DEF Lesser, Msg
    <3>4. CASE c = chat /\ ~Ranged(chat)
      <4>1. n \in 1..top[chat] \ messages[chat] /\ n # m
        BY <2>2, <2>4, <3>1, <3>4, BoundsAssumption DEF Reported, TypeOK, Msg
      <4>2. Waits(chat, n) <=> n > m
        BY <2>1, <2>2, <2>3, <4>1 DEF InOrder
      <4> QED BY <2>2, <2>4, <3>4, <4>2
    <3> QED BY <3>2, <3>3, <3>4
  <2>5. \A c \in Chats, n \in Msg : ~InHand(c, n)' /\ (Waits(c, n)' <=> Waits(c, n))
    BY <2>1 DEF InHand, Waits
  <2> QED BY <2>4, <2>5 DEF Above
<1>8. \/ mode' # "live"
      \/ \E c \in Chats : Arrive(c) \/ Redeliver(c)
      \/ Take \/ CommitCatchUp
      \/ StoreUpdate /\ ~UNCHANGED <<messages, cursors, missed>>
      \/ UNCHANGED <<queue, cursors>> /\ \A c \in Chats, m \in Msg : InHand(c, m)' => InHand(c, m)
  <2>1. ASSUME mode' = "live", BeginLive \/ NextChat \/ FailUpdate \/ Fetch \/ Publish \/ Restart
                 \/ (\E w \in BOOLEAN : StartLive(w)) \/ (\E c \in Chats : SetPolicy(c))
                 \/ UNCHANGED vars
        PROVE  /\ UNCHANGED <<queue, cursors>>
               /\ pc' # "store" \/ UNCHANGED <<pc, chat, page>>
    BY <2>1 DEF BeginLive, NextChat, FailUpdate, Fetch, Publish, Rest, Restart, StartLive,
                SetPolicy, vars, store, run
  <2>2. ASSUME StoreUpdate
        PROVE  UNCHANGED queue /\ pc' # "store"
    BY <2>2 DEF StoreUpdate
  <2>3. ASSUME Backfill \/ Stop PROVE mode' # "live"
    BY <2>3 DEF Backfill, BeginBackfill, Reopen, CompleteBackfill, CommitBatch, Stop, Rest,
                Control
  <2> QED BY <2>1, <2>2, <2>3 DEF Next, Environment, Live, InHand
<1>9. ASSUME UNCHANGED <<queue, cursors>>,
             \A c \in Chats, m \in Msg : InHand(c, m)' => InHand(c, m)
      PROVE  Above'
  BY <1>9, <1>2 DEF Waits, Ranged
<1> QED BY <1>1, <1>3, <1>4, <1>5, <1>6, <1>7, <1>8, <1>9

-----------------------------------------------------------------------------
\* Without a move of the bookmarks, a gap closes only onto the record.
LEMMA RangeKept ==
    ASSUME Bookkeeping, Bookkeeping', [Next]_vars, RangeIsStored,
           \A c \in Chats : Ranged(c)' =>
               /\ Ranged(c) /\ cursors'[c].oldest = cursors[c].oldest
               /\ cursors'[c].newest = cursors[c].newest,
           \A c \in Chats : OpenGap(c) \subseteq OpenGap(c)' \cup Accounted(c)'
    PROVE  RangeIsStored'
<1>1. Grown
  BY GrownStep DEF Bookkeeping
<1> SUFFICES ASSUME NEW c \in Chats, Ranged(c)'
             PROVE  cursors'[c].oldest..cursors'[c].newest
                        \subseteq messages'[c] \cup Missed(c, Reasons)' \cup OpenGap(c)'
  BY DEF RangeIsStored
<1> QED BY <1>1 DEF Grown, RangeIsStored, Accounted

\* What a batch of a backfill does: it keeps the newest part of the page, which
\* touches the range, and completes the chat only when nothing below that part is
\* inside the horizon.
LEMMA BatchSaves ==
    ASSUME Bookkeeping, Bookkeeping', Course, Fetched, CommitBatch
    PROVE  /\ \A d \in Chats : d # chat => cursors'[d] = cursors[d]
           /\ cursors[chat] = cursor /\ cursor \in Cursors
           /\ cursors'[chat] \in Cursors
           /\ \E b \in Msg, hi \in Msg :
                /\ b <= hi /\ b..hi \subseteq messages'[chat]
                /\ cursors'[chat].oldest = b
                /\ HasSynced(cursor) => hi = cursor.oldest - 1
                                        /\ cursors'[chat].newest = cursor.newest
                /\ ~HasSynced(cursor) => cursors'[chat].newest = hi
                /\ cursors'[chat].complete => /\ cursors'[chat].horizon = horizon
                                              /\ \A m \in 1..b - 1 : SentAt[m] < horizon
<1> USE DEF Bookkeeping
<1> DEFINE keep == Within(page)
           k == IF keep # page THEN Completed(Advance(keep), horizon) ELSE Advance(keep)
<1>1. /\ mode = "backfill" /\ pc = "commit" /\ keep # {} /\ chat \in Chats
      /\ Ingest(chat, keep) /\ Save(chat, k)
      /\ cursors[chat] = cursor /\ cursor \in Cursors /\ ~cursor.complete
      /\ horizon \in Horizons /\ horizon \in Nat
  BY HorizonsAssumption DEF CommitBatch, TypeOK, HeldIsCurrent, Course
<1>2. page # {}
  BY <1>1 DEF Within
<1>3. PICK lo \in Msg, hi \in Msg : lo <= hi /\ page = lo..hi
                                    /\ (cursor.oldest # NoId => hi = cursor.oldest - 1)
  BY <1>1, <1>2 DEF Fetched, From
<1>4. keep \in SUBSET Msg /\ keep = {m \in lo..hi : SentAt[m] >= horizon}
  BY <1>3 DEF Within, TypeOK
<1>5. /\ Min(keep) \in keep /\ Max(keep) \in keep
      /\ \A m \in keep : Min(keep) <= m /\ m <= Max(keep)
  BY <1>1, <1>4, BatchEnds
<1> HIDE DEF keep, k
<1>6. PICK b \in Msg : b = Min(keep)
  BY <1>4, <1>5
<1>7. /\ \A m \in Msg : SentAt[m] \in Nat
      /\ \A m, n \in Msg : m <= n => SentAt[m] <= SentAt[n]
  BY SentAtAssumption
<1>8. /\ lo <= b /\ b <= hi /\ keep = b..hi /\ hi \in keep
  <2>1. b \in keep /\ lo <= b /\ b <= hi /\ SentAt[b] >= horizon
    BY <1>4, <1>5, <1>6
  <2>2. \A m \in b..hi : m \in Msg /\ m \in lo..hi /\ SentAt[m] >= SentAt[b]
    BY <1>3, <1>7, <2>1, BoundsAssumption DEF Msg
  <2>3. \A m \in b..hi : SentAt[m] >= horizon
    BY <1>1, <1>7, <2>1, <2>2
  <2>4. b..hi \subseteq keep
    BY <1>4, <2>2, <2>3
  <2>5. keep \subseteq b..hi
    BY <1>4, <1>5, <1>6, BoundsAssumption DEF Msg
  <2>6. hi \in b..hi
    BY <2>1, BoundsAssumption DEF Msg
  <2> QED BY <2>1, <2>4, <2>5, <2>6
<1>9. Max(keep) = hi
  BY <1>4, <1>5, <1>8, BoundsAssumption DEF Msg
<1>10. /\ Advance(keep) \in Cursors /\ HasSynced(Advance(keep))
       /\ ~Advance(keep).complete
       /\ Advance(keep).oldest = b
       /\ HasSynced(cursor) => Advance(keep).newest = cursor.newest
       /\ ~HasSynced(cursor) => Advance(keep).newest = hi
  <2>1. Advance(keep) = WithBatch(cursor, b, hi)
    BY <1>6, <1>9 DEF Advance
  <2>2. HasSynced(cursor) => /\ cursor.oldest \in Msg /\ cursor.newest \in Msg
                             /\ cursor.oldest <= cursor.newest /\ hi = cursor.oldest - 1
    BY <1>1, <1>3, CursorFields DEF HasSynced
  <2>3. /\ WithBatch(cursor, b, hi) \in Cursors /\ HasSynced(WithBatch(cursor, b, hi))
        /\ HasSynced(cursor) =>
             /\ WithBatch(cursor, b, hi).oldest = Lesser(cursor.oldest, b)
             /\ WithBatch(cursor, b, hi).newest = Greater(cursor.newest, hi)
        /\ ~HasSynced(cursor) =>
             /\ WithBatch(cursor, b, hi).oldest = b
             /\ WithBatch(cursor, b, hi).newest = hi
        /\ WithBatch(cursor, b, hi).complete = cursor.complete
    BY <1>1, <1>8, WithBatchType
  <2>4. HasSynced(cursor) => /\ Lesser(cursor.oldest, b) = b
                             /\ Greater(cursor.newest, hi) = cursor.newest
    BY <1>8, <2>2, BoundsAssumption DEF Lesser, Greater, Msg
  <2> QED BY <1>1, <2>1, <2>3, <2>4
<1>11. /\ k \in Cursors
       /\ k.oldest = Advance(keep).oldest /\ k.newest = Advance(keep).newest
       /\ k.complete => keep # page /\ k.horizon = horizon
  BY <1>1, <1>10, CompletedType DEF k
<1>12. cursors'[chat] = k /\ \A d \in Chats : d # chat => cursors'[d] = cursors[d]
  BY <1>1, <1>11, SavedType
<1>13. b..hi \subseteq messages'[chat]
  BY <1>1, <1>4, <1>8, IngestedType
<1>14. ASSUME keep # page, NEW m \in 1..b - 1 PROVE SentAt[m] < horizon
  <2>1. PICK n \in lo..hi : ~(SentAt[n] >= horizon)
    BY <1>3, <1>4, <1>14
  <2>2. n \in Msg /\ m \in Msg /\ m < b /\ SentAt[n] < horizon
    BY <1>1, <1>3, <1>7, <1>14, <2>1, BoundsAssumption DEF Msg
  <2>3. CASE m \in lo..hi
    <3>1. m \notin keep
      BY <1>8, <2>2, BoundsAssumption DEF Msg
    <3> QED BY <1>1, <1>4, <1>7, <2>2, <2>3, <3>1
  <2>4. CASE m \notin lo..hi
    <3>1. m <= n
      BY <1>8, <2>1, <2>2, <2>4, BoundsAssumption DEF Msg
    <3> QED BY <1>1, <1>7, <2>2, <3>1
  <2> QED BY <2>3, <2>4
<1>15. HasSynced(cursor) => hi = cursor.oldest - 1
  BY <1>3 DEF HasSynced
<1> QED BY <1>1, <1>8, <1>10, <1>11, <1>12, <1>13, <1>14, <1>15

LEMMA RangeStep ==
    ASSUME Bookkeeping, Bookkeeping', Course, Course', Reported, InOrder, Above,
           CatchingUp, Followed, Fetched, RangeIsStored, [Next]_vars
    PROVE  RangeIsStored'
<1> USE DEF Bookkeeping
<1>g. \A c \in Chats : /\ messages[c] \subseteq messages'[c]
                       /\ messages'[c] \subseteq Accounted(c)'
                       /\ Accounted(c) \subseteq Accounted(c)'
  BY GrownStep DEF Grown, Accounted
<1>k. ASSUME NEW c \in Chats, Ranged(c)', cursors'[c] = cursors[c],
             OpenGap(c) \subseteq OpenGap(c)' \cup Accounted(c)'
      PROVE  cursors'[c].oldest..cursors'[c].newest \subseteq Accounted(c)' \cup OpenGap(c)'
  BY <1>k, <1>g DEF RangeIsStored, Ranged, Accounted
<1>s. ASSUME \A c \in Chats : Ranged(c)' =>
                 cursors'[c].oldest..cursors'[c].newest \subseteq Accounted(c)' \cup OpenGap(c)'
      PROVE  RangeIsStored'
  BY <1>s DEF RangeIsStored, Accounted
<1>1. ASSUME NEW c \in Chats, NEW h \in Horizons, NEW reset \in BOOLEAN,
             NEW n \in 1..MaxBatches, BeginBackfill(c, h, reset, n)
      PROVE  RangeIsStored'
  <2> DEFINE held == IF reset \/ cursors[c] = NoCursor THEN Start(h) ELSE cursors[c]
  <2>1. mode = "none" /\ Save(c, held)
    BY <1>1 DEF BeginBackfill
  <2>2. held \in Cursors /\ (HasSynced(held) => held = cursors[c])
    BY StartType DEF TypeOK
  <2> HIDE DEF held
  <2>3. cursors'[c] = held /\ \A d \in Chats : d # c => cursors'[d] = cursors[d]
    BY <2>1, <2>2, SavedType
  <2>4. \A d \in Chats : Ranged(d)' => cursors'[d] = cursors[d]
    BY <2>2, <2>3 DEF Ranged
  <2>5. \A d \in Chats : OpenGap(d) = {}
    BY <2>1 DEF OpenGap
  <2> QED BY <2>4, <2>5, <1>k, <1>s
<1>2. CASE Reopen \/ CompleteBackfill
  <2>1. mode = "backfill" /\ (\/ Save(chat, Reopened(cursor, horizon))
                              \/ Save(chat, Completed(cursor, horizon)))
    <3>1. CASE Reopen
      BY <3>1 DEF Reopen, Control
    <3>2. CASE CompleteBackfill
      BY <3>2 DEF CompleteBackfill
    <3> QED BY <1>2, <3>1, <3>2
  <2>2. cursors[chat] = cursor /\ cursor \in Cursors /\ chat \in Chats /\ horizon \in Horizons
    BY <2>1 DEF HeldIsCurrent, TypeOK
  <2>3. PICK k \in Cursors : Save(chat, k) /\ k.oldest = cursor.oldest /\ k.newest = cursor.newest
    BY <2>1, <2>2, ReopenedType, CompletedType
  <2>4. cursors'[chat] = k /\ \A d \in Chats : d # chat => cursors'[d] = cursors[d]
    BY <2>2, <2>3, SavedType
  <2>5. \A d \in Chats : OpenGap(d) = {}
    BY <2>1 DEF OpenGap
  <2>6. \A d \in Chats : Ranged(d)' => /\ Ranged(d) /\ cursors'[d].oldest = cursors[d].oldest
                                       /\ cursors'[d].newest = cursors[d].newest
    BY <2>2, <2>3, <2>4, NoCursorAssumption DEF Ranged, HasSynced
  <2> QED BY <2>5, <2>6, RangeKept
<1>3. CASE CommitBatch
  <2>1. /\ \A d \in Chats : d # chat => cursors'[d] = cursors[d]
        /\ cursors[chat] = cursor /\ cursor \in Cursors
    BY <1>3, BatchSaves
  <2>2. PICK b \in Msg, hi \in Msg :
           /\ b <= hi /\ b..hi \subseteq messages'[chat]
           /\ cursors'[chat].oldest = b
           /\ HasSynced(cursor) => hi = cursor.oldest - 1
                                   /\ cursors'[chat].newest = cursor.newest
           /\ ~HasSynced(cursor) => cursors'[chat].newest = hi
    BY <1>3, BatchSaves
  <2>3. \A d \in Chats : OpenGap(d) = {}
    BY <1>3 DEF CommitBatch, OpenGap
  <2>4. chat \in Chats
    BY DEF TypeOK
  <2>5. b..cursors'[chat].newest \subseteq messages'[chat] \cup Accounted(chat)
    <3>1. CASE HasSynced(cursor)
      <4>1. Ranged(chat) /\ cursor.oldest \in Nat /\ cursor.newest \in Nat
        BY <2>1, <3>1, CursorFields, NoCursorAssumption, BoundsAssumption DEF Ranged
      <4>2. cursor.oldest..cursor.newest \subseteq Accounted(chat)
        BY <2>1, <2>3, <2>4, <4>1 DEF RangeIsStored, Accounted
      <4>3. b..cursor.newest \subseteq b..hi \cup cursor.oldest..cursor.newest
        BY <2>2, <3>1, <4>1, BoundsAssumption DEF Msg
      <4> QED BY <2>2, <3>1, <4>2, <4>3
    <3>2. CASE ~HasSynced(cursor)
      BY <2>2, <3>2
    <3> QED BY <3>1, <3>2
  <2>6. ASSUME NEW d \in Chats, Ranged(d)'
        PROVE  cursors'[d].oldest..cursors'[d].newest \subseteq Accounted(d)' \cup OpenGap(d)'
    <3>1. CASE d = chat
      BY <2>2, <2>5, <3>1, <1>g
    <3>2. CASE d # chat
      BY <2>1, <2>3, <2>6, <3>2, <1>k
    <3> QED BY <3>1, <3>2
  <2> QED BY <2>6, <1>s
<1>4. CASE CommitCatchUp
  <2>1. /\ \A d \in Chats : d # chat => cursors'[d] = cursors[d]
        /\ Ranged(chat) /\ cursors[chat] \in Cursors /\ cursors'[chat] \in Cursors
        /\ cursors'[chat].oldest = cursors[chat].oldest
        /\ target[chat] <= cursors[chat].newest
        /\ cursors'[chat].newest >= cursors[chat].newest
        /\ cursors'[chat] # cursors[chat] =>
               \E m \in Fresh : cursors'[chat].newest \in {cursors[chat].newest, m}
    BY <1>4, CatchUpSaves
  <2>2. /\ \A m \in Msg : m > target[chat] /\ (\E n \in page : m <= n)
              => m \in Accounted(chat)' \cup OpenGap(chat)'
        /\ target'[chat] \in {0, target[chat]}
        /\ target'[chat] = 0 => OpenGap(chat)' = {}
    BY <1>4, CatchUpPage
  <2>3. /\ mode = "live" /\ pc = "commit" /\ UNCHANGED <<mode, chat>>
        /\ chat \in Chats /\ target[chat] \in Nat /\ before \in Nat /\ page \in SUBSET Msg
        /\ target[chat] # 0
    BY <1>4, BoundsAssumption DEF CommitCatchUp, TypeOK, Course
  <2>4. ASSUME NEW m \in cursors[chat].oldest..cursors'[chat].newest
        PROVE  m \in Accounted(chat)' \cup OpenGap(chat)'
    <3>1. /\ cursors[chat].oldest \in Msg /\ cursors[chat].newest \in Nat
          /\ cursors'[chat].newest \in Msg
      <4>1. HasSynced(cursors[chat]) /\ cursors'[chat].newest \in 0..MaxMsg
            /\ cursors[chat].newest \in Msg
        BY <2>1, CursorFields DEF Ranged
      <4> QED BY <2>1, <4>1, CursorFields, BoundsAssumption DEF Msg
    <3>2. m \in Msg
      BY <2>4, <3>1, BoundsAssumption DEF Msg
    <3>3. CASE m <= cursors[chat].newest
      <4>1. m \in Accounted(chat) \/ m \in OpenGap(chat)
        BY <2>1, <2>3, <2>4, <3>1, <3>3, BoundsAssumption DEF RangeIsStored, Accounted, Msg
      <4>2. CASE m \in OpenGap(chat)
        <5>1. m > target[chat] /\ m <= before - 1 /\ before # NoId
          BY <2>3, <3>2, <4>2, BoundsAssumption DEF OpenGap, Msg
        <5>2. CASE page = {} /\ From <= 1
          BY <2>3, <3>2, <5>1, <5>2, BoundsAssumption DEF From, Msg
        <5>3. CASE \E lo, hi \in Msg : lo <= hi /\ page = lo..hi /\ (From # NoId => hi = From - 1)
          <6>1. before - 1 \in page
            BY <2>3, <5>1, <5>3, BoundsAssumption DEF From, Msg
          <6> QED BY <2>2, <3>2, <5>1, <6>1
        <5> QED BY <2>3, <5>2, <5>3 DEF Fetched
      <4> QED BY <2>3, <4>1, <4>2, <1>g
    <3>4. CASE m > cursors[chat].newest
      <4>1. PICK n \in Fresh : cursors'[chat].newest = n
        BY <2>1, <2>4, <3>1, <3>2, <3>4, BoundsAssumption DEF Msg
      <4>2. n \in page /\ m <= n /\ m > target[chat]
        BY <2>1, <2>3, <2>4, <3>1, <3>2, <3>4, <4>1, BoundsAssumption DEF Fresh, Msg
      <4> QED BY <2>2, <3>2, <4>2
    <3> QED BY <3>1, <3>2, <3>3, <3>4, BoundsAssumption DEF Msg
  <2>5. ASSUME NEW d \in Chats, Ranged(d)'
        PROVE  cursors'[d].oldest..cursors'[d].newest \subseteq Accounted(d)' \cup OpenGap(d)'
    <3>1. CASE d = chat
      BY <2>1, <2>3, <2>4, <3>1
    <3>2. CASE d # chat
      <4>1. OpenGap(d) = {}
        BY <3>2 DEF OpenGap
      <4> QED BY <2>1, <2>5, <3>2, <4>1, <1>k
    <3> QED BY <3>1, <3>2
  <2> QED BY <2>5, <1>s
<1>5. ASSUME StoreUpdate, ~UNCHANGED <<messages, cursors, missed>> PROVE RangeIsStored'
  <2>1. /\ pc = "store" /\ mode = "live" /\ UNCHANGED <<chat, top, queue>> /\ chat \in Chats
        /\ target = Nothing
    BY <1>5 DEF StoreUpdate, Control, Course, TypeOK
  <2>2. PICK m \in Msg :
           /\ page = {m} /\ m \notin messages[chat] /\ m \in messages'[chat]
           /\ \A d \in Chats : d # chat => cursors'[d] = cursors[d]
           /\ Ranged(chat) => /\ cursors'[chat].oldest = Lesser(cursors[chat].oldest, m)
                              /\ cursors'[chat].newest = Greater(cursors[chat].newest, m)
           /\ ~Ranged(chat) => cursors'[chat].oldest = m /\ cursors'[chat].newest = m
    BY <1>5, UpdateSaves
  <2>3. \A d \in Chats : OpenGap(d) = {}
    BY <2>1, NothingIsZero DEF OpenGap
  <2>4. InHand(chat, m) /\ m <= top[chat]
    BY <2>1, <2>2 DEF InHand, Reported
  <2>5. ASSUME Ranged(chat), NEW n \in cursors'[chat].oldest..cursors'[chat].newest
        PROVE  n \in Accounted(chat) \/ n = m
    <3>1. /\ cursors[chat].oldest \in Msg /\ cursors[chat].newest \in Msg
          /\ top[chat] \in 0..MaxMsg
      BY <2>1, <2>5, CurrentType, CursorFields DEF TypeOK
    <3>2. m > cursors[chat].oldest
      BY <2>1, <2>2, <2>4, <2>5 DEF Above
    <3>3. n \in Msg /\ n >= cursors[chat].oldest /\ (n <= cursors[chat].newest \/ n <= m)
      BY <2>2, <2>5, <3>1, <3>2, BoundsAssumption DEF Lesser, Greater, Msg
    <3>4. CASE n <= cursors[chat].newest
      BY <2>1, <2>3, <2>5, <3>1, <3>3, <3>4, BoundsAssumption DEF RangeIsStored, Accounted, Msg
    <3>5. CASE n > cursors[chat].newest /\ n < m
      <4>1. n \in cursors[chat].newest + 1..top[chat] /\ n \in 1..top[chat]
        BY <2>2, <2>4, <3>1, <3>3, <3>5, BoundsAssumption DEF Msg
      <4>2. Covered(chat, n)
        BY <2>1, <2>5, <4>1, NothingIsZero DEF Followed
      <4>3. n \notin messages[chat] => ~Waits(chat, n)
        BY <2>1, <2>2, <2>4, <3>3, <3>5, <4>1, BoundsAssumption DEF InOrder, Msg
      <4>4. ~InHand(chat, n)
        BY <2>2, <3>3, <3>5, BoundsAssumption DEF InHand, Msg
      <4> QED BY <4>2, <4>3, <4>4 DEF Covered, Accounted
    <3> QED BY <3>1, <3>3, <3>4, <3>5, BoundsAssumption DEF Msg
  <2>6. ASSUME NEW d \in Chats, Ranged(d)'
        PROVE  cursors'[d].oldest..cursors'[d].newest \subseteq Accounted(d)' \cup OpenGap(d)'
    <3>1. CASE d = chat /\ Ranged(chat)
      BY <2>1, <2>2, <2>5, <3>1, <1>g
    <3>2. CASE d = chat /\ ~Ranged(chat)
      <4>1. cursors'[d].oldest..cursors'[d].newest = {m}
        BY <2>2, <3>2, BoundsAssumption DEF Msg
      <4> QED BY <2>1, <2>2, <3>2, <4>1, <1>g
    <3>3. CASE d # chat
      BY <2>2, <2>3, <2>6, <3>3, <1>k
    <3> QED BY <3>1, <3>2, <3>3
  <2> QED BY <2>6, <1>s
<1>6. CASE Stop \/ Restart
  <2>1. UNCHANGED <<messages, cursors>> /\ missed' = Skip(chat, OpenGap(chat), "torn")
    <3>1. CASE Stop
      BY <3>1 DEF Stop, Torn, store
    <3>2. CASE Restart
      BY <3>2 DEF Restart, Torn, store
    <3> QED BY <1>6, <3>1, <3>2
  <2>2. /\ chat \in Chats /\ OpenGap(chat) \in SUBSET Msg /\ "torn" \in Reasons
    BY BoundsAssumption, SMTT(30) DEF TypeOK, OpenGap, Msg, Reasons, Undecided
  <2>3. \A c \in Chats : OpenGap(c) \subseteq Accounted(c)'
    <3> TAKE c \in Chats
    <3>1. CASE c = chat
      <4>1. OpenGap(c) \in SUBSET Msg /\ missed' = Skip(c, OpenGap(c), "torn")
        BY <2>1, <2>2, <3>1
      <4> QED BY <2>1, <2>2, <4>1, SkippingAccounts
    <3>2. CASE c # chat
      BY <3>2 DEF OpenGap
    <3> QED BY <3>1, <3>2
  <2> QED BY <2>1, <2>3, <1>k, <1>s
<1>7. ASSUME UNCHANGED cursors, \A c \in Chats : OpenGap(c) \subseteq OpenGap(c)'
      PROVE  RangeIsStored'
  BY <1>7, <1>k, <1>s
<1>8. \/ \E c \in Chats, h \in Horizons, reset \in BOOLEAN, n \in 1..MaxBatches :
            BeginBackfill(c, h, reset, n)
      \/ Reopen \/ CompleteBackfill \/ CommitBatch \/ CommitCatchUp
      \/ StoreUpdate /\ ~UNCHANGED <<messages, cursors, missed>>
      \/ Stop \/ Restart
      \/ UNCHANGED cursors /\ \A c \in Chats : OpenGap(c) \subseteq OpenGap(c)'
  <2>1. ASSUME BeginLive \/ NextChat \/ Take \/ (\E w \in BOOLEAN : StartLive(w))
        PROVE  UNCHANGED cursors /\ \A c \in Chats : OpenGap(c) = {}
    <3>1. CASE BeginLive
      BY <3>1, NothingIsZero DEF BeginLive, store, OpenGap, Course
    <3>2. CASE NextChat
      BY <3>2 DEF NextChat, store, OpenGap, Course
    <3>3. CASE Take
      BY <3>3, NothingIsZero DEF Take, store, OpenGap, Course
    <3>4. CASE \E w \in BOOLEAN : StartLive(w)
      BY <3>4 DEF StartLive, store, OpenGap
    <3> QED BY <2>1, <3>1, <3>2, <3>3, <3>4
  <2>2. ASSUME Publish
        PROVE  /\ UNCHANGED cursors
               /\ \/ UNCHANGED <<mode, chat, target, before>>
                  \/ mode = "backfill"
    BY <2>2 DEF Publish
  <2>3. ASSUME (\E c \in Chats : Arrive(c) \/ Redeliver(c) \/ SetPolicy(c)) \/ UNCHANGED vars
               \/ Fetch \/ FailUpdate
               \/ (StoreUpdate /\ UNCHANGED <<messages, cursors, missed>>)
        PROVE  UNCHANGED <<cursors, mode, chat, target, before>>
    BY <2>3 DEF Arrive, Redeliver, SetPolicy, vars, run, store, Fetch, FailUpdate, StoreUpdate
  <2> QED BY <2>1, <2>2, <2>3 DEF Next, Environment, Backfill, Live, OpenGap
<1> QED BY <1>1, <1>2, <1>3, <1>4, <1>5, <1>6, <1>7, <1>8

LEMMA HorizonStep ==
    ASSUME Bookkeeping, Bookkeeping', Course, CatchingUp, Fetched, Above,
           CompleteReachesHorizon, [Next]_vars
    PROVE  CompleteReachesHorizon'
<1> USE DEF Bookkeeping
<1>g. \A c \in Chats : Accounted(c) \subseteq Accounted(c)'
  BY GrownStep DEF Grown
<1>s. ASSUME \A c \in Chats : Ranged(c)' /\ cursors'[c].complete =>
                 {m \in 1..cursors'[c].oldest - 1 : SentAt[m] >= cursors'[c].horizon}
                     \subseteq Accounted(c)'
      PROVE  CompleteReachesHorizon'
  BY <1>s DEF CompleteReachesHorizon, Accounted
<1>k. ASSUME NEW c \in Chats, Ranged(c), Ranged(c)', cursors'[c].complete,
             cursors[c].complete, cursors'[c].oldest = cursors[c].oldest,
             cursors'[c].horizon = cursors[c].horizon
      PROVE  {m \in 1..cursors'[c].oldest - 1 : SentAt[m] >= cursors'[c].horizon}
                 \subseteq Accounted(c)'
  BY <1>k, <1>g DEF CompleteReachesHorizon, Accounted
<1>1. ASSUME NEW c \in Chats, NEW h \in Horizons, NEW reset \in BOOLEAN,
             NEW n \in 1..MaxBatches, BeginBackfill(c, h, reset, n)
      PROVE  CompleteReachesHorizon'
  <2> DEFINE held == IF reset \/ cursors[c] = NoCursor THEN Start(h) ELSE cursors[c]
  <2>1. Save(c, held)
    BY <1>1 DEF BeginBackfill
  <2>2. held \in Cursors /\ (HasSynced(held) => held = cursors[c])
    BY StartType DEF TypeOK
  <2> HIDE DEF held
  <2>3. cursors'[c] = held /\ \A d \in Chats : d # c => cursors'[d] = cursors[d]
    BY <2>1, <2>2, SavedType
  <2>4. \A d \in Chats : Ranged(d)' => cursors'[d] = cursors[d] /\ Ranged(d)
    BY <2>2, <2>3 DEF Ranged
  <2> QED BY <2>4, <1>k, <1>s
<1>2. CASE Reopen
  <2>1. Save(chat, Reopened(cursor, horizon))
    BY <1>2 DEF Reopen
  <2>2. /\ Reopened(cursor, horizon) \in Cursors /\ ~Reopened(cursor, horizon).complete
        /\ chat \in Chats
    BY ReopenedType DEF TypeOK
  <2>3. /\ ~cursors'[chat].complete
        /\ \A d \in Chats : d # chat => cursors'[d] = cursors[d]
    BY <2>1, <2>2, SavedType
  <2>4. \A d \in Chats : Ranged(d)' /\ cursors'[d].complete =>
            cursors'[d] = cursors[d] /\ Ranged(d)
    BY <2>3 DEF Ranged
  <2> QED BY <2>4, <1>k, <1>s
<1>3. CASE CompleteBackfill
  <2> DEFINE k == Completed(cursor, horizon)
  <2>1. /\ mode = "backfill" /\ pc = "commit" /\ Within(page) = {} /\ Save(chat, k)
        /\ chat \in Chats /\ horizon \in Nat /\ cursor \in Cursors /\ cursors[chat] = cursor
    BY <1>3, HorizonsAssumption DEF CompleteBackfill, HeldIsCurrent, TypeOK
  <2>2. k \in Cursors /\ k.oldest = cursor.oldest /\ k.horizon = horizon
    BY CompletedType DEF TypeOK
  <2> HIDE DEF k
  <2>3. cursors'[chat] = k /\ \A d \in Chats : d # chat => cursors'[d] = cursors[d]
    BY <2>1, <2>2, SavedType
  <2>4. ASSUME HasSynced(cursor), NEW m \in 1..cursor.oldest - 1 PROVE SentAt[m] < horizon
    <3>1. cursor.oldest \in Msg /\ cursor.oldest # 0 /\ m \in Msg
      BY <2>1, <2>4, CursorFields, BoundsAssumption DEF Msg
    <3>2. PICK lo \in Msg, hi \in Msg : lo <= hi /\ page = lo..hi /\ hi = cursor.oldest - 1
      BY <2>1, <2>4, <3>1, BoundsAssumption DEF Fetched, From, Msg, NoId
    <3>3. hi \in page /\ m <= hi
      BY <2>4, <3>2, BoundsAssumption DEF Msg
    <3>4. ~(SentAt[hi] >= horizon)
      BY <2>1, <3>3 DEF Within
    <3>5. SentAt[m] <= SentAt[hi] /\ SentAt[m] \in Nat /\ SentAt[hi] \in Nat
      BY <3>1, <3>2, <3>3, SentAtAssumption
    <3> QED BY <2>1, <3>4, <3>5
  <2>5. ASSUME NEW c \in Chats, Ranged(c)', cursors'[c].complete
        PROVE  {m \in 1..cursors'[c].oldest - 1 : SentAt[m] >= cursors'[c].horizon}
                   \subseteq Accounted(c)'
    <3>1. CASE c = chat
      <4>1. HasSynced(cursor)
        BY <2>2, <2>3, <2>5, <3>1 DEF Ranged, HasSynced
      <4>2. cursor.oldest \in Msg
        BY <2>1, <4>1, CursorFields
      <4>3. \A m \in 1..cursor.oldest - 1 : ~(SentAt[m] >= horizon)
        <5>1. \A m \in 1..cursor.oldest - 1 : SentAt[m] \in Nat
          BY <4>2, SentAtAssumption, BoundsAssumption DEF Msg
        <5> QED BY <2>1, <2>4, <4>1, <5>1
      <4> QED BY <2>2, <2>3, <3>1, <4>3
    <3>2. CASE c # chat
      <4>1. cursors'[c] = cursors[c] /\ Ranged(c)
        BY <2>3, <2>5, <3>2 DEF Ranged
      <4> QED BY <2>5, <4>1, <1>k
    <3> QED BY <3>1, <3>2
  <2> QED BY <2>5, <1>s
<1>4. CASE CommitBatch
  <2>1. \A d \in Chats : d # chat => cursors'[d] = cursors[d]
    BY <1>4, BatchSaves
  <2>2. PICK b \in Msg :
           /\ cursors'[chat].oldest = b
           /\ cursors'[chat].complete => /\ cursors'[chat].horizon = horizon
                                         /\ \A m \in 1..b - 1 : SentAt[m] < horizon
    BY <1>4, BatchSaves
  <2>3. horizon \in Nat /\ \A m \in 1..b - 1 : SentAt[m] \in Nat
    BY HorizonsAssumption, SentAtAssumption, BoundsAssumption, SMTT(30) DEF TypeOK, Msg
  <2>4. ASSUME NEW c \in Chats, Ranged(c)', cursors'[c].complete
        PROVE  {m \in 1..cursors'[c].oldest - 1 : SentAt[m] >= cursors'[c].horizon}
                   \subseteq Accounted(c)'
    <3>1. CASE c = chat
      <4>1. \A m \in 1..b - 1 : ~(SentAt[m] >= horizon)
        BY <2>2, <2>3, <2>4, <3>1
      <4> QED BY <2>2, <2>4, <3>1, <4>1
    <3>2. CASE c # chat
      <4>1. cursors'[c] = cursors[c] /\ Ranged(c)
        BY <2>1, <2>4, <3>2 DEF Ranged
      <4> QED BY <2>4, <4>1, <1>k
    <3> QED BY <3>1, <3>2
  <2> QED BY <2>4, <1>s
<1>5. CASE CommitCatchUp
  <2>1. /\ \A d \in Chats : d # chat => cursors'[d] = cursors[d]
        /\ Ranged(chat)
        /\ cursors'[chat].oldest = cursors[chat].oldest
        /\ cursors'[chat].complete = cursors[chat].complete
        /\ cursors'[chat].horizon = cursors[chat].horizon
    BY <1>5, CatchUpSaves
  <2>2. \A c \in Chats : Ranged(c)' => /\ Ranged(c)
                                       /\ cursors'[c].oldest = cursors[c].oldest
                                       /\ cursors'[c].complete = cursors[c].complete
                                       /\ cursors'[c].horizon = cursors[c].horizon
    BY <2>1 DEF Ranged
  <2> QED BY <2>2, <1>k, <1>s
<1>6. ASSUME StoreUpdate, ~UNCHANGED <<messages, cursors, missed>>
      PROVE  CompleteReachesHorizon'
  <2>1. pc = "store" /\ UNCHANGED chat /\ chat \in Chats
    BY <1>6 DEF StoreUpdate, TypeOK
  <2>2. PICK m \in Msg :
           /\ page = {m} /\ m \notin messages[chat] /\ m \in messages'[chat]
           /\ missed' = Stored(Unfilled(chat, m), chat, {m})
           /\ \A d \in Chats : d # chat => cursors'[d] = cursors[d]
           /\ Ranged(chat) => cursors'[chat].oldest = Lesser(cursors[chat].oldest, m)
           /\ ~Ranged(chat) => cursors'[chat].oldest = m
           /\ cursors'[chat].complete = Current(chat).complete
           /\ cursors'[chat].horizon = Current(chat).horizon
    BY <1>6, UpdateSaves
  <2>3. ASSUME NEW c \in Chats, Ranged(c)', cursors'[c].complete
        PROVE  {n \in 1..cursors'[c].oldest - 1 : SentAt[n] >= cursors'[c].horizon}
                   \subseteq Accounted(c)'
    <3>1. CASE c # chat
      <4>1. cursors'[c] = cursors[c] /\ Ranged(c)
        BY <2>2, <2>3, <3>1 DEF Ranged
      <4> QED BY <2>3, <4>1, <1>k
    <3>2. CASE c = chat /\ Ranged(chat)
      <4>1. m > cursors[chat].oldest
        BY <2>1, <2>2, <3>2 DEF Above, InHand
      <4>2. cursors[chat].oldest \in Nat /\ Current(chat) = cursors[chat]
        BY <2>1, <3>2, CurrentType, CursorFields, BoundsAssumption
      <4>3. cursors'[chat].oldest = cursors[chat].oldest
        BY <2>2, <3>2, <4>1, <4>2, BoundsAssumption DEF Lesser, Msg
      <4> QED BY <2>2, <2>3, <3>2, <4>2, <4>3, <1>k
    <3>3. CASE c = chat /\ ~Ranged(chat)
      <4>1. /\ Unfilled(chat, m) \in [Chats -> [Msg -> Reasons \cup {"no"}]]
            /\ \A d \in Chats, n \in Msg :
                  missed[d][n] \in Reasons => Unfilled(chat, m)[d][n] \in Reasons
            /\ \A n \in 1..m - 1 : SentAt[n] >= Current(chat).horizon =>
                  n \in messages[chat] \/ Unfilled(chat, m)[chat][n] \in Reasons
        BY <2>1, <2>2, <2>3, <3>3, UnfilledAccounts
      <4>2. \A n \in Msg : Unfilled(chat, m)[chat][n] \in Reasons =>
                missed'[chat][n] \in Reasons \/ n = m
        BY <2>1, <2>2, <4>1, StoredAccounts
      <4>3. messages[chat] \subseteq messages'[chat] /\ 1..m - 1 \subseteq Msg
        BY <2>1, GrownStep, BoundsAssumption DEF Grown, Msg
      <4> QED BY <2>1, <2>2, <3>3, <4>1, <4>2, <4>3 DEF Accounted, Missed
    <3> QED BY <3>1, <3>2, <3>3
  <2> QED BY <2>3, <1>s
<1>7. ASSUME UNCHANGED cursors PROVE CompleteReachesHorizon'
  BY <1>7, <1>k, <1>s DEF Ranged
<1>8. \/ \E c \in Chats, h \in Horizons, reset \in BOOLEAN, n \in 1..MaxBatches :
            BeginBackfill(c, h, reset, n)
      \/ Reopen \/ CompleteBackfill \/ CommitBatch \/ CommitCatchUp
      \/ StoreUpdate /\ ~UNCHANGED <<messages, cursors, missed>>
      \/ UNCHANGED cursors
  BY DEF Next, Environment, Backfill, Live, Arrive, Redeliver, SetPolicy, BeginLive, NextChat,
         Take, StartLive, FailUpdate, Fetch, Publish, Stop, Restart, vars, store
<1> QED BY <1>1, <1>2, <1>3, <1>4, <1>5, <1>6, <1>7, <1>8

-----------------------------------------------------------------------------
(***************************************************************************)
(* The theorems on ranges.                                                 *)
(***************************************************************************)
Reach == Course /\ Reported /\ Fetched /\ CatchingUp /\ Followed /\ InOrder /\ Above

RangesHold == Bookkeeping /\ Reach /\ RangeIsStored /\ CompleteReachesHorizon

LEMMA RangesInit == Init => RangesHold
<1> SUFFICES ASSUME Init PROVE RangesHold
  OBVIOUS
<1>1. Bookkeeping /\ Course
  BY BookkeepingInit, CourseInit
<1>2. \A c \in Chats : ~Ranged(c) /\ messages[c] = {}
  BY DEF Init, Ranged
<1>3. mode = "none" /\ pc = "idle" /\ queue = <<>> /\ page = {}
  BY DEF Init
<1>4. Reported /\ InOrder /\ Above
  BY <1>2, <1>3 DEF Reported, InOrder, Above, Waits, InHand
<1>5. Fetched /\ CatchingUp /\ Followed
  BY <1>3 DEF Fetched, CatchingUp, Followed
<1>6. RangeIsStored /\ CompleteReachesHorizon
  BY <1>2 DEF RangeIsStored, CompleteReachesHorizon
<1> QED BY <1>1, <1>4, <1>5, <1>6 DEF RangesHold, Reach

LEMMA RangesStep == RangesHold /\ [Next]_vars => RangesHold'
<1> SUFFICES ASSUME RangesHold, [Next]_vars PROVE RangesHold'
  OBVIOUS
<1> USE DEF RangesHold, Reach
<1>1. Bookkeeping'
  BY BookkeepingStep
<1>2. Course'
  BY CourseStep
<1>3. Reported'
  BY <1>1, ReportedStep
<1>4. Fetched'
  BY <1>1, <1>2, FetchedStep
<1>5. CatchingUp' /\ Followed'
  BY <1>1, <1>2, <1>3, ReachStep
<1>6. InOrder' /\ Above'
  BY <1>1, <1>2, OrderStep, AboveStep
<1>7. RangeIsStored' /\ CompleteReachesHorizon'
  BY <1>1, <1>2, RangeStep, HorizonStep
<1> QED BY <1>1, <1>2, <1>3, <1>4, <1>5, <1>6, <1>7

LEMMA RangesAlways == Spec => []RangesHold
<1> QED BY RangesInit, RangesStep, PTL DEF Spec

\* Between the two ends of a bookmark every message is stored, or passed over
\* for a reason on record, or in the gap a running catch-up is closing.
THEOREM RangesAreStored == Spec => []RangeIsStored
<1>1. RangesHold => RangeIsStored
  BY DEF RangesHold
<1> QED BY <1>1, RangesAlways, PTL

\* Once a live run follows the stream, nothing above a range is left behind.
THEOREM NothingIsLeftBehind == Spec => []NothingOutsideStream
<1>1. RangesHold => NothingOutsideStream
  <2> SUFFICES ASSUME RangesHold, mode = "live", pc \in {"drain", "store", "publish"},
                      target = Nothing, NEW c \in Chats, Ranged(c),
                      NEW m \in cursors[c].newest + 1..top[c]
               PROVE  \/ <<c, m>> \in Range(queue)
                      \/ pc = "store" /\ chat = c /\ m \in page
                      \/ m \in messages[c] \cup Missed(c, Reasons)
    BY DEF NothingOutsideStream
  <2>1. Covered(c, m)
    BY NothingIsZero DEF RangesHold, Reach, Followed
  <2>2. Waits(c, m) => <<c, m>> \in Range(queue)
    BY DEF Waits, Range
  <2> QED BY <2>1, <2>2 DEF Covered, Accounted, InHand
<1> QED BY <1>1, RangesAlways, PTL

\* A complete bookmark with a range leaves nothing inside its horizon below the
\* range, except what is on record.
THEOREM CompleteMeansReached == Spec => []CompleteReachesHorizon
<1>1. RangesHold => CompleteReachesHorizon
  BY DEF RangesHold
<1> QED BY <1>1, RangesAlways, PTL
=============================================================================
