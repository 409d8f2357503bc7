--------------------------- MODULE MessageArchive ---------------------------
(***************************************************************************)
(* What the synchronisation of a chat promises, without saying how: the    *)
(* archive of a chat only grows, and the range its bookmark claims is the  *)
(* span of what was stored since the bookmark was last reset.  Storing and *)
(* claiming are one step.                                                  *)
(***************************************************************************)
EXTENDS Integers

CONSTANTS Chats, Msg

VARIABLES
    stored,     \* the messages kept, per chat
    range       \* the messages the bookmark accounts for, per chat

Span(S) == {m \in Msg : \E a, b \in S : a <= m /\ m <= b}

Init ==
    /\ stored = [c \in Chats |-> {}]
    /\ range = [c \in Chats |-> {}]

Grow(c, batch) ==
    /\ batch # {}
    /\ stored' = [stored EXCEPT ![c] = @ \cup batch]
    /\ range' = [range EXCEPT ![c] = Span(@ \cup batch)]

Reset(c) ==
    /\ range' = [range EXCEPT ![c] = {}]
    /\ UNCHANGED stored

Next == \E c \in Chats : Reset(c) \/ \E batch \in SUBSET Msg : Grow(c, batch)

Spec == Init /\ [][Next]_<<stored, range>>
=============================================================================
