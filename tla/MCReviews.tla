----------------------------- MODULE MCReviews -----------------------------
(***************************************************************************)
(* An instance of Reviews: one fact in two spellings, which a model may    *)
(* find in either of two conversations.  What is selected for a prompt and *)
(* what is kept of it is a calculation, compared with what it promises     *)
(* before the run begins; so is a single call, from its prompt to what is  *)
(* made of its answer.                                                     *)
(***************************************************************************)
EXTENDS Reviews, PromptContext, TLC

CONSTANTS Nothing, Malformed, NaN

Boundary == INSTANCE AiBoundary

OneFact == [v \in Values |-> "fact"]

Symmetry ==
    Permutations(Commands) \cup Permutations(Conversations) \cup Permutations(Values)

-----------------------------------------------------------------------------
Kinds == <<"constraint", "plan">>

Fact(number, category, importance, confidence, created, length) ==
    [id |-> number, key |-> number % 3, category |-> category, importance |-> importance,
     confidence |-> confidence, created |-> created, chars |-> length]

\* One that outranks by its kind and costs most; others that differ in one rank.
Known == {Fact(1, "constraint", 1, 1, 1, 13), Fact(2, "plan", 2, 1, 1, 1),
          Fact(3, "plan", 1, 2, 1, 5), Fact(4, "plan", 1, 2, 2, 4)}

Talks == UNION {[1..n -> {0, 9}] : n \in 0..4}
Spans == 5..20

\* A selection is what fits from the best down, a prompt keeps the best
\* memories and the latest messages that fit, a memory that was counted as
\* used is sent when the budgets leave room, and an answer's keys are told apart.
ASSUME PromptHoldsTheBest ==
    \A facts \in SUBSET Known :
        /\ \A budget \in Spans : SelectsGreedily(facts, budget)
        /\ \A spent \in {9, 14, 19}, talk \in Talks, budget \in Spans :
              LET chosen == Select(facts, spent)
              IN  KeepsTheBest(chosen, talk, budget) /\ CountedIsSent(facts, talk, spent, budget)
        /\ \A claimed \in SUBSET (0..3) : AttributesFairly(claimed, Select(facts, 20))

-----------------------------------------------------------------------------
\* Files with one thing wrong, or nothing.
GoodFile == [id |-> "p", fenced |-> TRUE, version |-> "1.0.0", inputs |-> {"facts", "talk"},
             untrusted |-> {"talk"}, schema |-> "s", body |-> <<"talk", "facts">>]
Files == {GoodFile, [GoodFile EXCEPT !.id = "q"], [GoodFile EXCEPT !.fenced = FALSE],
          [GoodFile EXCEPT !.untrusted = {"talk", "words"}], [GoodFile EXCEPT !.schema = Nothing],
          [GoodFile EXCEPT !.body = <<"talk">>], [GoodFile EXCEPT !.inputs = {"talk"}],
          [GoodFile EXCEPT !.body = <<"facts", "talk", "facts">>]}
         \cup {[GoodFile EXCEPT !.version = version] : version \in {"missing", "empty", "spaces"}}

Plain == [type |-> "string"]
Patterned == [type |-> "string", pattern |-> "x"]
Schemas == {Malformed, Plain, Patterned, [type |-> "object", properties |-> [a |-> Plain]],
            [type |-> "object", properties |-> [a |-> [type |-> "array", items |-> Patterned]]]}

Directories ==
    {[index |-> index, format |-> format, files |-> [f \in {"p.md"} |-> file],
      schemas |-> [s \in {"s"} |-> schema]] :
        index \in {Malformed, <<>>, [p |-> [path |-> "p.md", schema |-> "s"]],
                   [p |-> [path |-> "p.md", schema |-> Nothing]], [p |-> [path |-> Nothing, schema |-> "s"]],
                   [p |-> [path |-> "p.md", schema |-> "s"], q |-> [path |-> "q.md", schema |-> Nothing]]},
        format \in {1, 2}, file \in Files, schema \in Schemas}

Texts == {<<>>, <<Boundary!Run("word", 1)>>, <<Boundary!Run("<", 2), Boundary!Run("word", 1), Boundary!Run(">", 2)>>,
          Boundary!UntrustedClose, <<Boundary!Run(">", 7), Boundary!Run("<", 3)>>}
Variables == UNION {[names -> Texts] : names \in SUBSET {"facts", "talk"}}

-----------------------------------------------------------------------------
\* Calls: of every chat, with every ending.
Model(vendor, external, rates, currency) ==
    [vendor |-> vendor, identifier |-> "m", external |-> external, input |-> rates[1], output |-> rates[2],
     currency |-> currency]

Answered(status, payload) == [kind |-> "answered", status |-> status, payload |-> payload]
Payload(content, usage, model) ==
    [content |-> content, usage |-> usage, model |-> model, stop |-> "max_tokens"]
Block(type) == [type |-> type, text |-> "t"]

Payloads ==
    {Payload(content, usage, model) :
        content \in {Malformed, <<>>, <<Block("tool_use")>>, <<Block("text"), Block("tool_use"), Block("text")>>},
        usage \in {Malformed, [input |-> 3, output |-> 2], [input |-> 3, output |-> Malformed],
                   [input |-> -1, output |-> 2]},
        model \in {Nothing, "m", "m-2", "spaces"}}

Meetings ==
    {[kind |-> kind] : kind \in {"silent", "unreachable", "dropped"}}
    \cup {Answered(200, payload) : payload \in Payloads}
    \cup {Answered(status, Payload(Malformed, Malformed, Nothing)) : status \in {204, 429, 500}}

Script(failures, answers) == [failures |-> failures, answers |-> answers]
Scripts == {Script(<<>>, <<>>), Script(<<"AiProviderError">>, <<>>),
            Script(<<>>, <<[chars |-> 9, finish |-> "length", text |-> "a"]>>)}

Task(content, kind, chat, model, ends, happens, script, keep) ==
    [content |-> content, kind |-> kind, chat |-> chat, model |-> model, ends |-> ends,
     happens |-> happens, script |-> script, keep |-> keep, chars |-> 8]

Chats == {Nothing, "missing", "disabled", "local_only", "cloud_allowed"}
Rates == {<<Nothing, Nothing>>, <<3, Nothing>>, <<3, 15>>, <<0, 0>>}

Tasks ==
    {Task(content, "named", chat, Model("anthropic", TRUE, rates, currency), "answers", happens,
          Script(<<>>, <<>>), FALSE) :
        content \in {"text", "blank"}, chat \in Chats, rates \in Rates, currency \in {"letters", "others"},
        happens \in Meetings}
    \cup
    {Task("text", kind, chat, Model("fake", external, <<3, 15>>, "letters"), ends, [kind |-> "silent"],
          script, keep) :
        kind \in {"named", "", "spaces"}, chat \in Chats, external \in BOOLEAN,
        ends \in {"answers", "late", "cancelled"}, script \in Scripts, keep \in BOOLEAN}

\* What a call that answers or fails may be, for two calls of one task.
Pairs ==
    LET model == Model("fake", FALSE, <<3, 15>>, "letters")
        Of(chat, ends, script) == Task("text", "named", chat, model, ends, [kind |-> "silent"], script, FALSE)
        Ones == {Of("local_only", ends, script) : ends \in {"answers", "late"}, script \in Scripts}
                \cup {Of("disabled", "answers", Script(<<>>, <<>>))}
    IN  Ones \X Ones

-----------------------------------------------------------------------------
\* Answers: of the right shape, or with one thing wrong.
Word(word, length) == [type |-> "string", word |-> word, length |-> length]
Number(type, value) == [type |-> type, value |-> value]
Flag == [type |-> "boolean"]
Entry(fields) == [type |-> "object", fields |-> fields]
Elements(elements) == [type |-> "array", elements |-> elements]
Proposing(entries) == Entry([proposals |-> Elements(entries)])

Found(value, confidence, evidence) ==
    [category |-> Word("plan", 4), value |-> value, confidence |-> confidence, evidence |-> evidence]
Whole == Found(Word("fact", 4), Number("number", 8), Word("said", 4))

Entries ==
    {Entry(Found(value, confidence, evidence)) :
        value \in {Word("fact", 4), Word("spaces", 3), Word("", 0), Word("long", 500), Word("longer", 501), Flag},
        confidence \in {Number("number", 8), Number("integer", 10), Number("number", 11), Number("number", -1),
                        Number("number", NaN), Flag},
        evidence \in {Word("said", 4), Word("spaces", 1), Word("longest", 2001)}}
    \cup {Entry([Whole EXCEPT !.category = Word("gossip", 6)]), Entry([Whole EXCEPT !.category = Flag]),
          Entry(Whole @@ [reason |-> Flag]), Entry([k \in DOMAIN Whole \ {"evidence"} |-> Whole[k]]),
          Elements(<<>>), Flag}

Sound ==
    {Entry(Found(Word(word, 4), Number("number", confidence), Word(evidence, 4))) :
        word \in {"fact", "other", "third"}, confidence \in {2, 8}, evidence \in {"said", "unsaid"}}

Bodies ==
    {Proposing(entries) : entries \in {<<>>} \cup [1..1 -> Entries] \cup [1..3 -> Sound]}
    \cup {Proposing([i \in 1..n |-> Entry(Whole)]) : n \in {25, 26}}
    \cup {Malformed, [type |-> "null"], Elements(<<Entry(Whole)>>), Entry([facts |-> Elements(<<>>)]),
          Entry([proposals |-> Flag]), Entry(<<>>)}

Says(fence, body) == [fence |-> fence, body |-> body]
Answers == {Says("none", body) : body \in Bodies}
           \cup {Says(fence, Proposing(<<Entry(Whole)>>)) : fence \in {"closed", "unclosed", "inline"}}
Few == {Says("none", body) : body \in {Malformed, Proposing(<<>>), Proposing(<<Entry(Whole)>>), Proposing(<<Flag>>)}}

\* A prompt is whole or is not loaded; a call is on record, but for what
\* WhatIsSentIsRecorded names; there is one repair; and a proposal is sound.
ASSUME CallsAreKeptInBounds ==
    /\ \A directory \in Directories, variables \in Variables : Boundary!PromptsAreWhole(directory, variables)
    /\ \E directory \in Directories : Boundary!LoadRegistry(directory) # Malformed
    /\ \A task \in Tasks : Boundary!WhatIsSentIsRecorded(task)
    /\ \A pair \in Pairs, first \in Few, second \in Few :
          Boundary!RepairsOnce(pair, <<first, second>>, Boundary!MemoryProposals)
    /\ \A answer \in Answers, most \in {1, 2} :
          Boundary!ProposalsAreSound(answer, {"said"}, {<<"plan", "other">>},
                                     [min_confidence |-> 6, max_proposals |-> most])
=============================================================================
