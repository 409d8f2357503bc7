--------------------------- MODULE MCHistorySync ---------------------------
(***************************************************************************)
(* Small instances of HistorySync, and what the frames it is told in come  *)
(* to (Frames).                                                            *)
(***************************************************************************)
EXTENDS HistorySync

CONSTANTS Absent, Malformed

\* Two messages share an instant, so a horizon can fall beside a tie.
Instants == [m \in Msg |-> IF m <= 2 THEN m ELSE m - 1]

TwoHorizons == {Unlimited, 2}
OneHorizon == {Unlimited}

-----------------------------------------------------------------------------
Wire == INSTANCE Frames WITH LastSecond <- 9

Contents ==
    [kind : {"messageText", "messagePhoto", "messagePinMessage", "messageChatSetTtl", "messageDice"},
     text : {Absent, "", "spaces", "words", "endless"}, caption : {Absent, "", "words"}]
Senders ==
    {[kind |-> "messageSenderUser", user |-> user] : user \in {Absent, 0, 7}}
    \cup {[kind |-> "messageSenderChat", user |-> 7]}

MessageFrame(id, where, date, sender, content, outgoing, reply, nested) ==
    [id |-> id, chat |-> where, date |-> date, sender |-> sender, content |-> content,
     outgoing |-> outgoing, reply |-> reply, reply_nested |-> nested]

MessageFrames ==
    {MessageFrame(id, where, date, sender, content, outgoing, reply, nested) :
        id \in {Absent, 0, 3}, where \in {Absent, -5}, date \in {Absent, 0, 9, 10}, sender \in Senders,
        content \in Contents, outgoing \in BOOLEAN, reply \in {Absent, 2}, nested \in {Absent, 1}}

\* A sound one, one no text of which can be kept, one that cannot be read.
Arriving(id) ==
    LET Of(date, text) == MessageFrame(id, -5, date, [kind |-> "messageSenderUser", user |-> 7],
                              [kind |-> "messageText", text |-> text, caption |-> Absent], FALSE, Absent, Absent)
    IN  {Of(9, "words"), Of(9, "spaces"), Of(0, "words")}
Streams == {[i \in DOMAIN ids |-> frames[ids[i]]] :
               ids \in UNION {[1..n -> 1..3] : n \in 0..3},
               frames \in {f \in [1..3 -> UNION {Arriving(id) : id \in 1..3}] : \A id \in 1..3 : f[id] \in Arriving(id)}}

ChatFrames ==
    [id : {Absent, 0, 7, -5}, title : {Absent, "", "spaces", "words", "endless"}, unread : {Absent, -1, 2},
     last : {Absent, 0, 3},
     type : [kind : {"chatTypePrivate", "chatTypeSecret", "chatTypeBasicGroup", "chatTypeSupergroup", "newer"},
             channel : BOOLEAN, user : {Absent, 0, 7, 8}]]

UserFrames ==
    [id : {Absent, 0, 7}, first : {Absent, "", "spaces", "name", "longest"},
     last : {Absent, "", "spaces", "name", "longest"}, username : {Absent, "", "handle", "misspelt"},
     editable : {Absent, "handle"}, active : {<<>>, <<Absent>>, <<"handle">>}]

Answers ==
    LET Of(id) == [says |-> "chat",
                   frame |-> [id |-> id, title |-> "words", unread |-> 0, last |-> 3,
                              type |-> [kind |-> "chatTypeBasicGroup", channel |-> FALSE, user |-> Absent]]]
    IN  {[id \in 1..3 |-> IF id \in told THEN Of(id) ELSE [says |-> says]] :
            told \in SUBSET (1..3), says \in {"gone", "refused"}}

\* Whatever arrives is read as what it is; a page and the stream keep the
\* same of it, or the page nothing; chats and people can be kept but for what
\* Frames names; and a listing has what there is.
ASSUME WhatArrivesIsKept ==
    /\ \A frame \in MessageFrames : Wire!ReadsEveryKind(frame)
    /\ \A frames \in Streams : Wire!SameBothWays(frames)
    /\ \A frame \in ChatFrames : Wire!KeepsEveryChat(8, frame)
    /\ \A frame \in UserFrames : Wire!KeepsEveryPerson(frame)
    /\ \A ids \in UNION {[1..n -> {1, 2, 3, Absent}] : n \in 0..3}, answers \in Answers, limit \in 1..3 :
          Wire!ListsWhatIsThere(ids, answers, limit)
=============================================================================
