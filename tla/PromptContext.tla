---------------------------- MODULE PromptContext ----------------------------
(***************************************************************************)
(* What a model is told about somebody: which memories are selected        *)
(* (domain/services/memory_selection.py), what is kept of them and of the  *)
(* conversation when the prompt is too long (context_assembly.py), and     *)
(* which of them an answer is taken to have used (suggestion.py).          *)
(* Sequences run from the best memory and from the oldest message.         *)
(***************************************************************************)
EXTENDS Integers, Sequences, FiniteSets, SequencesExt

CONSTANTS
    Categories,     \* kinds of memory, what is costliest to get wrong first
    MaxChars,       \* how much of one message is shown
    MaxMemories,    \* how many memories are selected
    MaxMessages,    \* how many messages are considered
    MinMessages     \* how many messages are kept whatever they cost

ASSUME CategoriesAssumption == IsInjective(Categories)
ASSUME BoundsAssumption ==
    /\ MaxChars \in Nat \ {0} /\ MaxMemories \in Nat \ {0}
    /\ MaxMessages \in Nat \ {0} /\ MinMessages \in 1..MaxMessages

-----------------------------------------------------------------------------
\* Four characters to a token, rounded up, and never nothing.
EstimateTokens(chars) == IF chars = 0 THEN 1 ELSE (chars + 3) \div 4
MemoryTokens(memory) == EstimateTokens(memory.chars) + 4

Sum(costs) == FoldLeft(LAMBDA total, cost : total + cost, 0, costs)
MemoriesCost(memories) == Sum([i \in DOMAIN memories |-> MemoryTokens(memories[i])])

\* The kind first, then what matters more, is surer, is newer; ids break ties.
OrderingKey(m) ==
    <<CHOOSE i \in DOMAIN Categories : Categories[i] = m.category,
      -m.importance, -m.confidence, -m.created, -m.id>>

Precedes(m, n) ==
    \E i \in 1..5 : /\ OrderingKey(m)[i] < OrderingKey(n)[i]
                    /\ \A j \in 1..(i - 1) : OrderingKey(m)[j] = OrderingKey(n)[j]

Rank(memories) == SetToSortSeq(memories, Precedes)

\* MemorySelector.select: what does not fit is passed over and the walk goes on.
Select(memories, budget) ==
    LET Take(chosen, m) ==
            IF \/ Len(chosen) >= MaxMemories
               \/ MemoriesCost(chosen) + MemoryTokens(m) > budget
            THEN chosen
            ELSE Append(chosen, m)
    IN  FoldLeft(Take, <<>>, Rank(memories))

-----------------------------------------------------------------------------
\* A message is a number of characters; what is cut off is marked with twelve,
\* and four say who spoke.
TurnTokens(chars) == EstimateTokens(4 + (IF chars > MaxChars THEN MaxChars + 12 ELSE chars))
TurnsCost(turns) == Sum([i \in DOMAIN turns |-> TurnTokens(turns[i])])
Cost(context) == MemoriesCost(context.memories) + TurnsCost(context.turns)

Recent(messages) ==
    SubSeq(messages, IF Len(messages) > MaxMessages THEN Len(messages) - MaxMessages + 1 ELSE 1,
           Len(messages))

\* One thing goes: the oldest message while there are more than the fewest,
\* then the lowest ranked memory.
Trim(context) ==
    IF Len(context.turns) > MinMessages THEN [context EXCEPT !.turns = Tail(@)]
    ELSE IF context.memories # <<>> THEN [context EXCEPT !.memories = Front(@)]
    ELSE context

\* ContextAssembler.assemble: trimmed until it fits or nothing more can go.
Assemble(memories, messages, budget) ==
    LET whole == [memories |-> memories, turns |-> Recent(messages)]
        rounds == [n \in 1..(Len(memories) + Len(messages)) |-> n]
    IN  FoldLeft(LAMBDA context, n : IF Cost(context) <= budget THEN context ELSE Trim(context),
                 whole, rounds)

\* _attribute: the supplied memories an answer says it used, and the keys it
\* made up.
Attribute(claimed, supplied) ==
    [used |-> SelectSeq(supplied, LAMBDA m : m.key \in claimed),
     fabricated |-> {k \in claimed : \A m \in ToSet(supplied) : m.key # k}]

-----------------------------------------------------------------------------
(***************************************************************************)
(* What selection and assembly promise, said without an order of work.     *)
(***************************************************************************)
\* A memory is selected exactly when it fits with the better ones selected.
SelectsGreedily(memories, budget) ==
    LET chosen == ToSet(Select(memories, budget))
        Better(m) == {n \in chosen : Precedes(n, m)}
    IN  \A m \in memories :
           m \in chosen <=> /\ Cardinality(Better(m)) < MaxMemories
                            /\ MemoriesCost(SetToSeq(Better(m) \cup {m})) <= budget

\* The best memories and the latest messages are kept, no memory goes while a
\* message can, what is sent fits unless it is the least there may be, and
\* nothing that went would have fitted in.
KeepsTheBest(memories, messages, budget) ==
    LET kept == Assemble(memories, messages, budget)
        m == Len(kept.memories)
        t == Len(kept.turns)
        recent == Recent(messages)
        floor == IF Len(recent) < MinMessages THEN Len(recent) ELSE MinMessages
        From(i, j) == [memories |-> SubSeq(memories, 1, i),
                       turns |-> SubSeq(recent, Len(recent) - j + 1, Len(recent))]
    IN  /\ kept = From(m, t)
        /\ t >= floor
        /\ m < Len(memories) => t = floor
        /\ Cost(kept) <= budget \/ (m = 0 /\ t = floor)
        /\ m < Len(memories) => Cost(From(m + 1, t)) > budget
        /\ m = Len(memories) /\ t < Len(recent) => Cost(From(m, t + 1)) > budget

\* Retrieval counts a memory as used before the prompt is assembled.  The
\* count is right when the budgets leave room for the fewest messages.
CountedIsSent(memories, messages, spent, budget) ==
    spent + MinMessages * EstimateTokens(4 + MaxChars + 12) <= budget =>
        Assemble(Select(memories, spent), messages, budget).memories = Select(memories, spent)

\* Every key an answer names is either a supplied memory's or made up, and of
\* the memories the model was not shown none is taken for used.
AttributesFairly(claimed, supplied) ==
    LET answer == Attribute(claimed, supplied)
    IN  /\ {m.key : m \in ToSet(answer.used)} = claimed \ answer.fabricated
        /\ ToSet(answer.used) \subseteq ToSet(supplied)
        /\ \A m \in ToSet(supplied) : m.key \in claimed => m \in ToSet(answer.used)
=============================================================================
