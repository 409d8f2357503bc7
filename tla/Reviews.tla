------------------------------ MODULE Reviews ------------------------------
(***************************************************************************)
(* What a model proposes and a person decides, for one chat:               *)
(*   application/use_cases/memory.py             candidate facts           *)
(*   application/use_cases/suggestion.py         draft replies             *)
(*   application/use_cases/ai.py                 the call between          *)
(*   application/use_cases/memory_review.py,                               *)
(*     suggestion_review.py                      the decision              *)
(*   infrastructure/persistence/memory_proposals.py, memories.py,          *)
(*     suggestions.py, schema.py                 rows, indexes, cascades   *)
(*                                                                         *)
(* Every command is a process of its own.  It reads in one transaction,    *)
(* asks the model in none, and writes in another, and other commands come  *)
(* between.  A decision reads and writes in one transaction, but the       *)
(* database begins that with its first write: the decision of another      *)
(* process can come between, which is why the write is conditional.        *)
(* Any process can end anywhere.                                           *)
(*                                                                         *)
(* A candidate fact is identified by its conversation and its value, which *)
(* is what the unique index says; a draft is a model value.  All facts are *)
(* about the person of the chat.                                           *)
(***************************************************************************)
EXTENDS Naturals, FiniteSets

CONSTANTS
    Commands,       \* commands that can run at once
    Chat,           \* the chat, what a suggestion is made for
    Conversations,  \* its conversations, stored now or at some time
    Values,         \* facts, in the words a model may use
    Drafts,         \* suggestions that may be stored
    Comparable,     \* _comparable: what an extraction takes for the same fact
    Key,            \* MemoryKey.of: what the memories' index takes for the same fact
    MaxProposals,   \* ExtractionPolicy.max_proposals
    MaxCalls        \* bound on the calls of the model

ASSUME ReviewsAssumption ==
    /\ DOMAIN Comparable = Values /\ DOMAIN Key = Values
    /\ MaxProposals \in Nat /\ MaxCalls \in Nat
    /\ Drafts \cap (Conversations \X Values) = {}
    /\ Chat \notin Conversations

Proposals == Conversations \X Values
Items == Proposals \cup Drafts

VARIABLES
    conversations,  \* each is "expected", "stored" or "gone"
    permitted,      \* the chat's ai_processing_mode permits the model
    calls,          \* rows of ai_calls
    review,         \* status of each item; "none" when there is no such row
    memories,       \* rows of memories
    command,        \* where each command is
    overlapped      \* accounting only: conversations in which an extraction stored
                    \* what it made of proposals another had added to meanwhile

vars == <<conversations, permitted, calls, review, memories, command, overlapped>>

\* A command that does not run.
Idle == [at |-> "idle", on |-> Chat, seen |-> {}, repaired |-> FALSE, kept |-> {},
         stale |-> FALSE, decision |-> "none"]

\* origin: the proposal that was accepted; traced: proposal_id still names it.
Memory == [origin : Proposals, traced : BOOLEAN, forgotten : BOOLEAN, used : BOOLEAN]

Status == {"none", "pending", "accepted", "declined"}

Command == [at : {"idle", "ask", "asked", "store", "decide"},
            on : {Chat} \cup Conversations \cup Items,
            seen : SUBSET {Comparable[v] : v \in Values}, repaired : BOOLEAN,
            kept : SUBSET Values, stale : BOOLEAN,
            decision : {"none", "accepted", "declined"}]

TypeOK ==
    /\ conversations \in [Conversations -> {"expected", "stored", "gone"}]
    /\ permitted \in BOOLEAN
    /\ calls \in Nat
    /\ review \in [Items -> Status]
    /\ memories \subseteq Memory
    /\ command \in [Commands -> Command]
    /\ overlapped \subseteq Conversations

Init ==
    /\ conversations = [v \in Conversations |-> "expected"]
    /\ permitted = TRUE
    /\ calls = 0
    /\ review = [i \in Items |-> "none"]
    /\ memories = {}
    /\ command = [c \in Commands |-> Idle]
    /\ overlapped = {}

-----------------------------------------------------------------------------
(***************************************************************************)
(* The rest of the program: segmentation derives a conversation, and takes *)
(* one away that a merge leaves without messages; the operator changes the *)
(* chat's processing mode.                                                 *)
(***************************************************************************)
Derive(v) ==
    /\ conversations[v] = "expected"
    /\ conversations' = [conversations EXCEPT ![v] = "stored"]
    /\ UNCHANGED <<permitted, calls, review, memories, command, overlapped>>

\* Mutant: the foreign key sets null, as the one of the memories does.
Uncascaded(v) == review

\* A conversation's proposals go with it,
Cascaded(v) == [i \in Items |-> IF i \in Proposals /\ i[1] = v THEN "none" ELSE review[i]]

\* and the memories made of them stay without a trail.
Dissolve(v) ==
    /\ conversations[v] = "stored"
    /\ conversations' = [conversations EXCEPT ![v] = "gone"]
    /\ review' = Cascaded(v)
    /\ memories' = {IF m.origin[1] = v THEN [m EXCEPT !.traced = FALSE] ELSE m : m \in memories}
    /\ UNCHANGED <<permitted, calls, command, overlapped>>

Configure ==
    /\ permitted' = ~permitted
    /\ UNCHANGED <<conversations, calls, review, memories, command, overlapped>>

-----------------------------------------------------------------------------
(***************************************************************************)
(* Asking the model.                                                       *)
(***************************************************************************)
Step(c, record) == command' = [command EXCEPT ![c] = record]

\* Mutant: only what still awaits a decision is listed.
Awaiting(v) == {Comparable[x] : x \in {y \in Values : review[<<v, y>>] = "pending"}}

\* list_for_conversation, as _sift compares it: what was ever proposed.
AlreadyProposed(v) == {Comparable[x] : x \in {y \in Values : review[<<v, y>>] # "none"}}

\* memory extract: the conversation and what was proposed for it are read.
Extract(c) ==
    /\ command[c].at = "idle"
    /\ \E v \in Conversations :
          /\ conversations[v] = "stored"
          /\ Step(c, [Idle EXCEPT !.at = "ask", !.on = v, !.seen = AlreadyProposed(v)])
    /\ UNCHANGED <<conversations, permitted, calls, review, memories, overlapped>>

\* suggest: live memories are selected, and counted as used whatever comes of it.
Suggest(c) ==
    /\ command[c].at = "idle"
    /\ \E v \in Conversations : conversations[v] # "expected"
    /\ \E selected \in SUBSET {m \in memories : ~m.forgotten} :
          memories' = {IF m \in selected THEN [m EXCEPT !.used = TRUE] ELSE m : m \in memories}
    /\ Step(c, [Idle EXCEPT !.at = "ask"])
    /\ UNCHANGED <<conversations, permitted, calls, review, overlapped>>

\* The gate, on the chat as it is now: ask, or record the refusal.
Ask(c) ==
    /\ command[c].at = "ask" /\ calls < MaxCalls
    /\ IF permitted
       THEN /\ Step(c, [command[c] EXCEPT !.at = "asked"])
            /\ UNCHANGED calls
       ELSE /\ Step(c, Idle)
            /\ calls' = calls + 1
    /\ UNCHANGED <<conversations, permitted, review, memories, overlapped>>

\* _sift: of what was answered, facts that are grounded, sure enough, not
\* proposed yet and not twice the same, up to the cap.
Sifted(seen) ==
    {kept \in SUBSET {v \in Values : Comparable[v] \notin seen} :
        /\ Cardinality(kept) <= MaxProposals
        /\ \A v, w \in kept : Comparable[v] = Comparable[w] => v = w}

\* An answer of the right shape.
Answer(c) ==
    /\ command[c].at = "asked"
    /\ calls' = calls + 1
    /\ \E kept \in IF command[c].on = Chat THEN {{}} ELSE Sifted(command[c].seen) :
          Step(c, [command[c] EXCEPT !.at = "store", !.kept = kept])
    /\ UNCHANGED <<conversations, permitted, review, memories, overlapped>>

\* An answer of another shape: one repair, through the gate again.
Misshapen(c) ==
    /\ command[c].at = "asked"
    /\ calls' = calls + 1
    /\ Step(c, IF command[c].repaired THEN Idle
               ELSE [command[c] EXCEPT !.at = "ask", !.repaired = TRUE])
    /\ UNCHANGED <<conversations, permitted, review, memories, overlapped>>

\* No answer: a timeout, an error of the provider, a cancellation.  Recorded too.
Unanswered(c) ==
    /\ command[c].at = "asked"
    /\ calls' = calls + 1
    /\ Step(c, Idle)
    /\ UNCHANGED <<conversations, permitted, review, memories, overlapped>>

-----------------------------------------------------------------------------
(***************************************************************************)
(* Storing what it said, in one transaction.                               *)
(***************************************************************************)
\* What the indexes and foreign keys let in; what they refuse is skipped.
Insertable(v, kept) ==
    IF conversations[v] = "stored"
    THEN {p \in {v} \X kept : review[p] = "none"} ELSE {}

StoreFacts(c) ==
    /\ command[c].at = "store" /\ command[c].on \in Conversations
    /\ LET v == command[c].on
           new == Insertable(v, command[c].kept)
       IN /\ review' = [i \in Items |-> IF i \in new THEN "pending" ELSE review[i]]
          /\ command' = [d \in Commands |->
                IF d = c THEN Idle
                ELSE [command[d] EXCEPT !.stale = @ \/ (command[d].on = v /\ new # {})]]
          /\ overlapped' = IF command[c].stale /\ new # {} THEN overlapped \cup {v} ELSE overlapped
    /\ UNCHANGED <<conversations, permitted, calls, memories>>

StoreDraft(c) ==
    /\ command[c].at = "store" /\ command[c].on = Chat
    /\ \E d \in Drafts :
          /\ review[d] = "none"
          /\ review' = [review EXCEPT ![d] = "pending"]
    /\ Step(c, Idle)
    /\ UNCHANGED <<conversations, permitted, calls, memories, overlapped>>

-----------------------------------------------------------------------------
(***************************************************************************)
(* Deciding.                                                               *)
(***************************************************************************)
\* memory accept / reject, suggestion accept / dismiss: read, and refuse at once
\* what is not pending.
Review(c) ==
    /\ command[c].at = "idle"
    /\ \E i \in Items, decision \in {"accepted", "declined"} :
          /\ review[i] = "pending"
          /\ Step(c, [Idle EXCEPT !.at = "decide", !.on = i, !.decision = decision])
    /\ UNCHANGED <<conversations, permitted, calls, review, memories, overlapped>>

\* Mutant: what was read is taken for what is.
AsRead(i) == review[i] # "none"

\* decide: one row is updated if it is pending still.
Decidable(i) == review[i] = "pending"

\* The memories' index: one live memory for a key.
Remembered(v) == \E m \in memories : ~m.forgotten /\ Key[m.origin[2]] = Key[v]

\* An accepted fact becomes a memory in the transaction that decides it.
Accept(c) ==
    /\ command[c].at = "decide" /\ command[c].on \in Proposals
    /\ command[c].decision = "accepted"
    /\ Decidable(command[c].on)
    /\ ~Remembered(command[c].on[2])
    /\ review' = [review EXCEPT ![command[c].on] = command[c].decision]
    /\ memories' = memories \cup {[origin |-> command[c].on, traced |-> TRUE,
                                   forgotten |-> FALSE, used |-> FALSE]}
    /\ Step(c, Idle)
    /\ UNCHANGED <<conversations, permitted, calls, overlapped>>

\* Any other decision is a status.
Decide(c) ==
    /\ command[c].at = "decide"
    /\ command[c].on \in Drafts \/ command[c].decision = "declined"
    /\ Decidable(command[c].on)
    /\ review' = [review EXCEPT ![command[c].on] = command[c].decision]
    /\ Step(c, Idle)
    /\ UNCHANGED <<conversations, permitted, calls, memories, overlapped>>

\* memory delete: softly, once.
Forget ==
    /\ \E f \in memories :
          /\ ~f.forgotten
          /\ memories' = {IF m = f THEN [m EXCEPT !.forgotten = TRUE] ELSE m : m \in memories}
    /\ UNCHANGED <<conversations, permitted, calls, review, command, overlapped>>

\* A command ends with nothing written: its update changed no row, an index
\* refused its insert and the transaction rolled back, the database was locked,
\* or the process died.
Stop(c) ==
    /\ command[c].at # "idle"
    /\ Step(c, Idle)
    /\ UNCHANGED <<conversations, permitted, calls, review, memories, overlapped>>

Next ==
    \/ \E v \in Conversations : Derive(v) \/ Dissolve(v)
    \/ Configure \/ Forget
    \/ \E c \in Commands :
          \/ Extract(c) \/ Suggest(c) \/ Ask(c) \/ Answer(c) \/ Misshapen(c) \/ Unanswered(c)
          \/ StoreFacts(c) \/ StoreDraft(c)
          \/ Review(c) \/ Accept(c) \/ Decide(c) \/ Stop(c)

Spec == Init /\ [][Next]_vars

-----------------------------------------------------------------------------
(***************************************************************************)
(* Properties.                                                             *)
(***************************************************************************)

\* "Accepting a proposal creates exactly one memory", whoever decides beside it
\* and wherever a process ends, and nothing is remembered that was not accepted.
AcceptedIsRemembered ==
    \A p \in Proposals :
        review[p] = "accepted" <=> \E m \in memories : m.origin = p /\ m.traced

\* "A decision is made once": of two who decide about one fact or one draft the
\* first counts, and only the end of its conversation takes a decision away.
DecidedOnce ==
    [][\A i \in Items :
          review[i] \in {"accepted", "declined"} =>
             \/ review'[i] = review[i]
             \/ i \in Proposals /\ conversations'[i[1]] = "gone"]_vars

\* A conversation is offered a fact once, declined or not, however it is spelled:
\* unless two extractions of it overlapped.
OfferedOnce ==
    \A p, q \in Proposals :
        /\ p[1] = q[1] /\ p[1] \notin overlapped
        /\ review[p] # "none" /\ review[q] # "none"
        /\ Comparable[p[2]] = Comparable[q[2]]
        => p = q
=============================================================================
