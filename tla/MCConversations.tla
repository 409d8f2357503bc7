-------------------------- MODULE MCConversations --------------------------
(***************************************************************************)
(* Small instances of Conversations, and of the listings its messages and  *)
(* all other rows are read with: those are calculations, compared with     *)
(* what they promise before the run begins.                                *)
(***************************************************************************)
EXTENDS Conversations

CONSTANT NoCursor

Pages == INSTANCE Listing WITH MaxPageSize <- 3

\* One, two and three units of silence; no two messages share an instant.
Spread == [m \in Msg |-> CASE m = 1 -> 1 [] m = 2 -> 2 [] m = 3 -> 4 [] m = 4 -> 5
                           [] OTHER -> 2 * m - 2]

\* The hypothesis of the theorems of ConversationsProofs.
ASSUME SpreadIsUndivided == Undivided

\* Five chats, of which two instants are shared by two.
Chat(id, at) == [id |-> id, at |-> at, enabled |-> id # 4, stored |-> id \in {1, 3, 4},
                 complete |-> id \in {1, 2}]
Chats == {Chat(1, 1), Chat(2, 1), Chat(3, 2), Chat(4, 3), Chat(5, 3)}
Tables == {<<a, b, c>> : a, b, c \in SUBSET Chats}

Entry(id, kind) ==
    [id |-> id, at |-> id \div 2, account |-> id % 2, chat |-> id % 3,
     deleted |-> kind = "deleted", archived |-> kind = "archived",
     status |-> IF kind = "kept" THEN "pending" ELSE "accepted"]
Mixed == {{Entry(id, kinds[id]) : id \in 1..5} : kinds \in [1..5 -> {"kept", "deleted", "archived"}]}

\* Walks are exact whatever happens between two pages, the first page knows
\* whether it is all, and what it shows is what was asked for.
ASSUME ListingIsExact ==
    /\ \A tables \in Tables : Pages!WalkIsExact(tables, 1) /\ Pages!WalkIsExact(tables, 2)
    /\ \A some \in SUBSET Chats : \A limit \in 0..5 :
          /\ Pages!MoreIsTrue(some, limit)
          /\ Pages!WalkIsExact(<<some>>, limit)
          /\ Pages!StatusAgrees(<<some, some \ {Chat(3, 2)}>>, limit)
    /\ \A table \in Mixed : \A account \in 0..1 : \A limit \in {1, 4} :
          Pages!ShowsWhatIsAsked(table, account, limit)
=============================================================================
