---------------------------- MODULE SyncCursor ----------------------------
(***************************************************************************)
(* The synchronisation bookmark of one chat: domain/model/sync_cursor.py.  *)
(*                                                                         *)
(* Message identifiers are positive, so 0 stands for "no message", as it   *)
(* does on the wire (fetch_history sends from_message_id = 0 for None).    *)
(* Instants are positive, so the unlimited horizon is 0: every message is  *)
(* at or after it.                                                         *)
(***************************************************************************)
EXTENDS Integers

NoId == 0
Unlimited == 0

Lesser(a, b) == IF a <= b THEN a ELSE b
Greater(a, b) == IF a <= b THEN b ELSE a

\* The values __post_init__ accepts: both ends of the range or neither.
Cursor(Ids, Horizons) ==
    {k \in [oldest : Ids \cup {NoId}, newest : Ids \cup {NoId},
            complete : BOOLEAN, horizon : Horizons] :
        /\ k.oldest = NoId <=> k.newest = NoId
        /\ k.oldest <= k.newest}

Start(horizon) ==
    [oldest |-> NoId, newest |-> NoId, complete |-> FALSE, horizon |-> horizon]

HasSynced(k) == k.oldest # NoId

ResumeFrom(k) == k.oldest

ReachesBackTo(k, horizon) ==
    \/ k.horizon = Unlimited
    \/ horizon # Unlimited /\ horizon >= k.horizon

WithBatch(k, oldest, newest) ==
    [k EXCEPT !.oldest = IF @ = NoId THEN oldest ELSE Lesser(@, oldest),
              !.newest = IF @ = NoId THEN newest ELSE Greater(@, newest)]

Completed(k, horizon) == [k EXCEPT !.complete = TRUE, !.horizon = horizon]

Reopened(k, horizon) == [k EXCEPT !.complete = FALSE, !.horizon = horizon]
=============================================================================
