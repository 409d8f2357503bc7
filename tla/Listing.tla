------------------------------ MODULE Listing ------------------------------
(***************************************************************************)
(* Reading a table a page at a time.  pagination.py positions every page   *)
(* after the last row of the one before, by a column that is never changed *)
(* and the identifier; the commands show a first page; a synchronisation   *)
(* and its status page to the end, while other processes change the table  *)
(* between two pages.                                                      *)
(*                                                                         *)
(* A row has the instant it is listed by, its identifier, its account and  *)
(* what the listings of its table ask for.  A cursor is the last row that  *)
(* was read: what is encoded in it comes back as it was.                   *)
(***************************************************************************)
EXTENDS Naturals, Sequences, FiniteSets, SequencesExt

CONSTANTS
    MaxPageSize,    \* the most rows of a page, whatever is asked for
    NoCursor        \* no cursor, or one that cannot be read

-----------------------------------------------------------------------------
(***************************************************************************)
(* One page.                                                               *)
(***************************************************************************)
EffectiveLimit(limit) == IF limit < 1 THEN 1 ELSE IF limit > MaxPageSize THEN MaxPageSize ELSE limit

Before(a, b) == a.at < b.at \/ (a.at = b.at /\ a.id < b.id)
OrderBy(a, b, descending) == IF descending THEN Before(b, a) ELSE Before(a, b)

\* What cannot be read is as good as no cursor.
Decode(token) == IF token = NoCursor \/ "id" \notin DOMAIN token THEN NoCursor ELSE token

After(rows, token, descending) ==
    LET position == Decode(token)
    IN  IF position = NoCursor THEN rows ELSE {row \in rows : OrderBy(position, row, descending)}

\* One row more than asked for is read, to know whether there is another page.
Apply(rows, request) ==
    LET ordered == SetToSortSeq(After(rows, request.cursor, request.descending),
                                LAMBDA a, b : OrderBy(a, b, request.descending))
        most == EffectiveLimit(request.limit) + 1
    IN  SubSeq(ordered, 1, IF most < Len(ordered) THEN most ELSE Len(ordered))

BuildPage(read, request) ==
    LET limit == EffectiveLimit(request.limit)
        items == SubSeq(read, 1, IF limit < Len(read) THEN limit ELSE Len(read))
    IN  [items |-> items, next |-> IF Len(read) > limit THEN Last(items) ELSE NoCursor]

FetchPage(rows, request) == BuildPage(Apply(rows, request), request)
HasMore(page) == page.next # NoCursor

-----------------------------------------------------------------------------
(***************************************************************************)
(* What each repository lists.                                             *)
(***************************************************************************)
Scoped(table, account) == {row \in table : row.account = account}

ListAccounts(table) == table
ListChats(table, account) == Scoped(table, account)
ListByChat(table, account, chat) == {row \in Scoped(table, account) : row.chat = chat}
ListContacts(table, account, includeArchived) ==
    {row \in Scoped(table, account) : ~row.deleted /\ (row.archived => includeArchived)}
ListRecent(table, account) == Scoped(table, account)
ListActive(table, account) == {row \in Scoped(table, account) : ~row.deleted}
ListPending(table, account) == {row \in Scoped(table, account) : row.status = "pending"}

\* Without a chat, the queue; with one, its decided suggestions too.
ListSuggestions(table, account, chat) ==
    IF chat = NoCursor THEN ListPending(table, account) ELSE ListByChat(table, account, chat)

-----------------------------------------------------------------------------
(***************************************************************************)
(* The commands: a first page, the newest first.                           *)
(***************************************************************************)
FirstPage(rows, limit) ==
    FetchPage(rows, [cursor |-> NoCursor, limit |-> limit, descending |-> TRUE])

AccountList(table, limit) == FirstPage(ListAccounts(table), limit)
ContactList(table, account, includeArchived, limit) ==
    FirstPage(ListContacts(table, account, includeArchived), limit)
ChatList(table, account, limit) == FirstPage(ListChats(table, account), limit)
MessageHistory(table, account, chat, limit) == FirstPage(ListByChat(table, account, chat), limit)
ConversationList(table, account, chat, limit) == FirstPage(ListByChat(table, account, chat), limit)
AiList(table, account, limit) == FirstPage(ListRecent(table, account), limit)
MemoryProposals(table, account, limit) == FirstPage(ListRecent(table, account), limit)
MemoryList(table, account, limit) == FirstPage(ListActive(table, account), limit)
SuggestionList(table, account, chat, limit) ==
    FirstPage(ListSuggestions(table, account, chat), limit)

-----------------------------------------------------------------------------
(***************************************************************************)
(* Paging to the end.  The table is what it is at the instant of a page:   *)
(* page i reads tables[i], and the last table once they are exhausted.     *)
(***************************************************************************)
Walk(tables, limit) ==
    LET Table(i) == tables[IF i < Len(tables) THEN i ELSE Len(tables)]
        bound == Len(tables) + Cardinality(UNION {tables[i] : i \in DOMAIN tables})
        from[i \in 1..(bound + 1), token \in (UNION {tables[j] : j \in DOMAIN tables}) \cup {NoCursor}] ==
            LET page == FetchPage(Table(i), [cursor |-> token, limit |-> limit, descending |-> TRUE])
            IN  IF HasMore(page) /\ i < bound THEN page.items \o from[i + 1, page.next]
                ELSE page.items
    IN  from[1, NoCursor]

\* What a backfill takes on, and what a live run catches up.
Syncable(tables, limit) == SelectSeq(Walk(tables, limit), LAMBDA chat : chat.enabled)
Followable(tables, limit) == SelectSeq(Walk(tables, limit), LAMBDA chat : chat.enabled /\ chat.stored)

-----------------------------------------------------------------------------
(***************************************************************************)
(* The status of a synchronisation.                                        *)
(***************************************************************************)
State(chat) ==
    CASE ~chat.enabled -> "off"
      [] chat.enabled /\ ~chat.stored -> "pending"
      [] OTHER -> IF chat.complete THEN "complete" ELSE "partial"

GetSyncStatus(tables, limit) ==
    LET chats == Walk(tables, limit)
        Count(complete) == Len(SelectSeq(chats, LAMBDA c : c.enabled /\ c.complete = complete))
    IN  [chats |-> [i \in DOMAIN chats |-> State(chats[i])],
         synchronised |-> Count(TRUE), pending |-> Count(FALSE)]

\* Whether the command suggests to go on.
SyncStatus(report) == report.pending # 0

-----------------------------------------------------------------------------
(***************************************************************************)
(* What listing promises.                                                  *)
(***************************************************************************)
Present(tables) == {row \in UNION {tables[i] : i \in DOMAIN tables} :
                       \A i \in DOMAIN tables : row \in tables[i]}

\* A walk ends; it returns each row that was there throughout, no row twice,
\* no row that was never there, and all in the order of one listing.
WalkIsExact(tables, limit) ==
    LET got == Walk(tables, limit)
    IN  /\ Present(tables) \subseteq ToSet(got)
        /\ ToSet(got) \subseteq UNION {tables[i] : i \in DOMAIN tables}
        /\ \A i, j \in DOMAIN got : i < j => Before(got[j], got[i])

\* A page says there are more exactly when it leaves a row out.
MoreIsTrue(rows, limit) ==
    LET page == FirstPage(rows, limit)
    IN  HasMore(page) <=> ToSet(page.items) # rows

\* A listing with no more to show shows exactly what was asked for: of this
\* account, nothing deleted, what is archived if that was asked for, and of the
\* queue of suggestions nothing that was decided.
ShowsWhatIsAsked(table, account, limit) ==
    LET Exactly(page, wanted) ==
            LET own == {row \in wanted : row.account = account}
            IN  IF HasMore(page) THEN ToSet(page.items) \subseteq own ELSE ToSet(page.items) = own
        kept == {row \in table : ~row.deleted}
    IN  /\ Exactly(ContactList(table, account, TRUE, limit), kept)
        /\ Exactly(ContactList(table, account, FALSE, limit), {row \in kept : ~row.archived})
        /\ Exactly(MemoryList(table, account, limit), kept)
        /\ Exactly(SuggestionList(table, account, NoCursor, limit),
                   {row \in table : row.status = "pending"})

\* The words of a report and its counts: a chat that synchronises is counted
\* once; what is partial is not counted as fully stored; what is counted so and
\* does not read complete has nothing stored at all, and reads pending.
StatusAgrees(tables, limit) ==
    LET report == GetSyncStatus(tables, limit)
        Of(state) == {i \in DOMAIN report.chats : report.chats[i] = state}
        empty == {i \in DOMAIN report.chats :
                     LET chat == Walk(tables, limit)[i] IN chat.enabled /\ chat.complete /\ ~chat.stored}
    IN  /\ report.synchronised + report.pending = Cardinality(DOMAIN report.chats \ Of("off"))
        /\ report.synchronised = Cardinality(Of("complete") \cup empty)
        /\ empty \subseteq Of("pending")
        /\ ~SyncStatus(report) => Of("partial") = {}
=============================================================================
