------------------------------- MODULE Frames -------------------------------
(***************************************************************************)
(* What TDLib's frames come to: chats, people and messages as mapping.py   *)
(* reads them, and what of it can be kept, by an import (use_cases/sync),  *)
(* by a page of history (backfill, catch-up) and by the live stream.       *)
(*                                                                         *)
(* A field that is missing or of the wrong type is Absent.  Texts are told *)
(* apart by what decides about them: "" is empty, "spaces" has nothing     *)
(* else, "endless" is too long, "longest" is as long as Telegram lets a    *)
(* first or a last name be.                                                *)
(***************************************************************************)
EXTENDS Integers, Sequences, FiniteSets, SequencesExt, FiniteSetsExt

CONSTANTS
    Absent,         \* no value
    Malformed,      \* what may not be built
    LastSecond      \* the last instant a datetime can be

AsInt(value) == IF value = Absent THEN 0 ELSE value
Identifier(value) == IF AsInt(value) > 0 THEN value ELSE Absent
Has(text) == text \notin {Absent, ""}

-----------------------------------------------------------------------------
(***************************************************************************)
(* Messages.                                                               *)
(***************************************************************************)
MessageTypes ==
    [messageText |-> "text", messagePhoto |-> "photo", messageVoiceNote |-> "voice",
     messageVideo |-> "video", messageVideoNote |-> "video", messageAnimation |-> "video",
     messageDocument |-> "document", messageAudio |-> "document", messageSticker |-> "sticker",
     messageLocation |-> "location", messageVenue |-> "location", messagePoll |-> "poll"]

\* Two stand for all that are called messageChat and something.
ServiceContent ==
    {"messagePinMessage", "messageScreenshotTaken", "messageContactRegistered", "messageCustomServiceAction",
     "messageExpiredPhoto", "messageExpiredVideo", "messageUnsupported",
     "messageChatAddMembers", "messageChatSetTtl"}

MessageType(content) ==
    CASE content.kind \in DOMAIN MessageTypes -> MessageTypes[content.kind]
      [] content.kind \in ServiceContent -> "service"
      [] OTHER -> "other"

MessageText(content) ==
    CASE Has(content.text) -> content.text
      [] ~Has(content.text) /\ Has(content.caption) -> content.caption
      [] OTHER -> Absent

Timestamp(date) == IF AsInt(date) \in 1..LastSecond THEN date ELSE Malformed

\* message_from: a channel that speaks is no sender, and a reply has two places.
Message(frame) ==
    IF AsInt(frame.id) <= 0 \/ AsInt(frame.chat) = 0 \/ Timestamp(frame.date) = Malformed THEN Malformed
    ELSE [id |-> frame.id, chat |-> frame.chat, sent_at |-> frame.date,
          sender |-> IF frame.sender.kind = "messageSenderUser" THEN Identifier(frame.sender.user) ELSE Absent,
          text |-> MessageText(frame.content), type |-> MessageType(frame.content),
          outgoing |-> frame.outgoing,
          reply_to |-> IF AsInt(frame.reply) > 0 THEN frame.reply ELSE Identifier(frame.reply_nested)]

SenderKind(message) ==
    CASE message.type = "service" \/ message.sender = Absent -> "system"
      [] OTHER -> IF message.outgoing THEN "operator" ELSE "contact"

\* A text message has a text with something in it, and none is endless.
Kept(message) ==
    IF \/ message.type = "text" /\ message.text \in {Absent, "spaces"}
       \/ message.text = "endless"
    THEN Malformed
    ELSE [id |-> message.id, from |-> SenderKind(message), type |-> message.type, text |-> message.text]

-----------------------------------------------------------------------------
(***************************************************************************)
(* How messages come in.  A store is the set of what is kept.              *)
(***************************************************************************)
Names(store) == {row.id : row \in store}

\* All of a batch or, if something of it that is new may not be kept, nothing.
Ingest(store, batch) ==
    LET new == {message \in ToSet(batch) : message.id \notin Names(store)}
        first == {batch[i] : i \in {j \in DOMAIN batch : batch[j] \in new
                                       /\ \A k \in 1..j-1 : batch[k].id # batch[j].id}}
    IN  IF Malformed \in {Kept(message) : message \in first} THEN Malformed
        ELSE store \cup {Kept(message) : message \in first}

\* fetch_history: a page one message of which cannot be read is no page.
Page(frames) ==
    LET messages == [i \in DOMAIN frames |-> Message(frames[i])]
    IN  IF Malformed \in ToSet(messages) THEN Malformed ELSE messages

StorePage(store, frames) ==
    IF Page(frames) = Malformed THEN Malformed ELSE Ingest(store, Page(frames))

\* What one update leaves: it counts as unhandled, or as failed, or is kept.
TakeUpdate(store, frame) ==
    IF Message(frame) = Malformed THEN store
    ELSE IF Ingest(store, <<Message(frame)>>) = Malformed THEN store
    ELSE Ingest(store, <<Message(frame)>>)

StoreStream(store, frames) == FoldLeft(TakeUpdate, store, frames)

\* _catch_up_chat, of one page: what is newer than the newest that is kept.
CatchUp(store, frames) ==
    IF Page(frames) = Malformed THEN Malformed
    ELSE Ingest(store, SelectSeq(Page(frames), LAMBDA message : message.id > Max(Names(store))))

-----------------------------------------------------------------------------
(***************************************************************************)
(* Chats and people.                                                       *)
(***************************************************************************)
\* A secret chat is with somebody as a private one is.
ChatTypes == [chatTypePrivate |-> "private", chatTypeBasicGroup |-> "group", chatTypeSecret |-> "private"]

ChatType(type) ==
    CASE type.kind = "chatTypeSupergroup" -> IF type.channel THEN "channel" ELSE "supergroup"
      [] type.kind \in DOMAIN ChatTypes -> ChatTypes[type.kind]
      [] OTHER -> "group"

ChatInfo(frame) ==
    IF AsInt(frame.id) = 0 THEN Malformed
    ELSE [id |-> frame.id, type |-> ChatType(frame.type), title |-> frame.title,
          with |-> IF ChatType(frame.type) = "private" THEN Identifier(frame.type.user) ELSE Absent,
          unread |-> IF AsInt(frame.unread) > 0 THEN frame.unread ELSE 0,
          last |-> Identifier(frame.last)]

\* The flat handle, and without one the editable and then the first active one.
Username(frame) ==
    CASE Has(frame.username) -> frame.username
      [] ~Has(frame.username) /\ Has(frame.editable) -> frame.editable
      [] OTHER -> IF frame.active # <<>> /\ Has(frame.active[1]) THEN frame.active[1] ELSE Absent

User(frame) ==
    IF AsInt(frame.id) <= 0 THEN Malformed
    ELSE [id |-> frame.id, first |-> IF Has(frame.first) THEN frame.first ELSE "",
          last |-> IF Has(frame.last) THEN frame.last ELSE Absent, username |-> Username(frame)]

\* The names there are; then the handle; then the number.
DisplayName(user) ==
    CASE Has(user.first) \/ Has(user.last) -> SelectSeq(<<user.first, user.last>>, Has)
      [] ~Has(user.first) /\ ~Has(user.last) /\ Has(user.username) -> <<"@", user.username>>
      [] OTHER -> <<"number">>

StorableUsername(user) == IF user.username \in {Absent, "misspelt"} THEN Absent ELSE user.username

\* Contact.__post_init__: of a person whose name shows nothing there is none,
\* and none whose two names of 64 signs and the space between them exceed 128.
Contact(user) ==
    IF ToSet(DisplayName(user)) = {"spaces"} \/ DisplayName(user) = <<"longest", "longest">> THEN Malformed
    ELSE [id |-> user.id, name |-> DisplayName(user), username |-> StorableUsername(user)]

IsSavedMessages(operator, info) == info.type = "private" /\ info.with # Absent /\ info.with = operator
LocalChatType(operator, info) == IF IsSavedMessages(operator, info) THEN "saved" ELSE info.type
Titled(operator, info) ==
    IF Has(info.title) /\ info.title # "spaces" THEN info.title
    ELSE IF IsSavedMessages(operator, info) THEN "Saved Messages" ELSE "Chat and its number"

\* _build: a private chat names somebody, all others have a title.
Chat(operator, info) ==
    LET type == LocalChatType(operator, info)
    IN  IF \/ type = "private" /\ info.with = Absent
           \/ type # "private" /\ Titled(operator, info) = "endless"
        THEN Malformed
        ELSE [id |-> info.id, type |-> type, with |-> IF type = "private" THEN info.with ELSE Absent,
              title |-> IF type = "private" THEN Absent ELSE Titled(operator, info)]

\* list_chats: answers is what getChat says of each; what is gone is left out,
\* and what is refused, or cannot be read, ends the listing.
ListChats(ids, answers, limit) ==
    LET asked == SelectSeq(SubSeq(ids, 1, IF limit < Len(ids) THEN limit ELSE Len(ids)),
                           LAMBDA id : id # Absent)
        Read(answer) == CASE answer.says = "gone" -> Absent [] answer.says = "refused" -> Malformed
                          [] answer.says = "chat" -> ChatInfo(answer.frame)
        read == [i \in DOMAIN asked |-> Read(answers[asked[i]])]
    IN  IF Malformed \in ToSet(read) THEN Malformed ELSE SelectSeq(read, LAMBDA info : info # Absent)

-----------------------------------------------------------------------------
(***************************************************************************)
(* What all this promises.                                                 *)
(***************************************************************************)
\* Whatever a message holds it is read, and what was written in it with it;
\* nobody is said to have said what Telegram said, and the operator only what
\* went out.
ReadsEveryKind(frame) ==
    LET message == Message(frame)
        usable == AsInt(frame.id) > 0 /\ AsInt(frame.chat) # 0 /\ AsInt(frame.date) \in 1..LastSecond
    IN  /\ (message # Malformed) <=> usable
        /\ usable =>
              /\ (message.text = Absent) <=> ({frame.content.text, frame.content.caption} \subseteq {Absent, ""})
              /\ SenderKind(message) = "operator" =>
                    frame.outgoing /\ frame.sender.kind = "messageSenderUser" /\ message.type # "service"
              /\ (SenderKind(message) = "system") <=>
                    \/ frame.content.kind \in ServiceContent
                    \/ frame.sender.kind # "messageSenderUser" \/ AsInt(frame.sender.user) <= 0
              /\ (message.reply_to = Absent) <=> (AsInt(frame.reply) <= 0 /\ AsInt(frame.reply_nested) <= 0)
              /\ Kept(message) = Malformed =>
                    \/ frame.content.kind = "messageText"
                    \/ "endless" \in {frame.content.text, frame.content.caption}

\* The stream keeps of some frames whatever can be kept, and a page of them
\* keeps the same or, if there is one that cannot, nothing.  What the stream
\* had to leave, catching up leaves too, or stumbles over if it is the newest.
SameBothWays(frames) ==
    LET Sound(frame) == Message(frame) # Malformed /\ Kept(Message(frame)) # Malformed
        sound == {Kept(Message(frame)) : frame \in {f \in ToSet(frames) : Sound(f)}}
        streamed == StoreStream({}, frames)
        paged == StorePage({}, frames)
        later == CatchUp(streamed, frames)
    IN  /\ streamed = sound
        /\ (paged = Malformed) <=> \E i \in DOMAIN frames : ~Sound(frames[i])
        /\ paged # Malformed => paged = streamed
        /\ streamed # {} =>
              /\ later # Malformed => later = streamed
              /\ (later = Malformed) <=>
                    \/ \E i \in DOMAIN frames : Message(frames[i]) = Malformed
                    \/ \E i \in DOMAIN frames : ~Sound(frames[i]) /\ frames[i].id > Max(Names(streamed))

\* A chat of any kind can be kept, but a private one with nobody and one with
\* an endless title; with somebody is a private one only, never the operator.
KeepsEveryChat(operator, frame) ==
    LET info == ChatInfo(frame)
        chat == Chat(operator, info)
    IN  info # Malformed =>
          /\ (info.type = "private") <=> frame.type.kind \in {"chatTypePrivate", "chatTypeSecret"}
          /\ info.with # Absent => info.type = "private" /\ info.with = frame.type.user
          /\ (chat = Malformed) <=>
                IF info.type = "private" /\ info.with # operator THEN info.with = Absent ELSE info.title = "endless"
          /\ chat # Malformed =>
                /\ chat.with # Absent <=> chat.type = "private"
                /\ chat.with # operator
                /\ chat.title \notin {"", "spaces"}
                /\ (chat.title = Absent) <=> (chat.type = "private")

\* A person is kept under a name that shows something, and never refused for a
\* handle; but a name of spaces hides the handle, and two of the longest names
\* that Telegram has are one too long to keep.
KeepsEveryPerson(frame) ==
    LET user == User(frame)
        person == Contact(user)
    IN  user # Malformed =>
          /\ DisplayName(user) # <<>>
          /\ (person = Malformed) <=>
                \/ {frame.first, frame.last} \ {Absent, ""} = {"spaces"}
                \/ frame.first = "longest" /\ frame.last = "longest"
          /\ person # Malformed => person.username # "misspelt" /\ ~(ToSet(person.name) \subseteq {"", "spaces"})

\* A listing is in Telegram's order, has what can be seen, and no more than
\* was asked for.
ListsWhatIsThere(ids, answers, limit) ==
    LET listed == ListChats(ids, answers, limit)
    IN  listed # Malformed =>
          /\ Len(listed) <= limit
          /\ \A i \in DOMAIN ids :
                i <= limit /\ ids[i] # Absent /\ answers[ids[i]].says # "gone" =>
                   ChatInfo(answers[ids[i]].frame) \in ToSet(listed)
          /\ \A i, j \in DOMAIN listed : i < j =>
                \E k, l \in DOMAIN ids : k < l /\ ids[k] = listed[i].id /\ ids[l] = listed[j].id
=============================================================================
