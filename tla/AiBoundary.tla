----------------------------- MODULE AiBoundary -----------------------------
(***************************************************************************)
(* Everything between a task and a model: the prompts that are loaded and  *)
(* rendered (prompts/registry.py, model/prompt.py), the gate, the call and *)
(* its record (use_cases/ai.py, model/ai.py) over the shipped providers    *)
(* (infrastructure/ai), and the check of the answer with the one repair    *)
(* (structured_output.py, StructuredAiTask).  Reviews has the same call as *)
(* steps among other commands; here is what one call decides.              *)
(*                                                                         *)
(* A text that is rendered is a sequence of runs of one sign, a name is    *)
(* told by its kind, a JSON value is a record with its type, confidences   *)
(* are in tenths and costs in millionths.                                  *)
(***************************************************************************)
EXTENDS Integers, Sequences, FiniteSets, SequencesExt, TLC

CONSTANTS
    Nothing,        \* no value
    Malformed,      \* what cannot be read, or may not be built
    NaN             \* the number that JSON has not and json.loads reads

-----------------------------------------------------------------------------
(***************************************************************************)
(* Prompts.                                                                *)
(***************************************************************************)
\* A file is its front matter and the inputs its body has holes for; the
\* version that is there and empty is read as the word None.
Version(file) ==
    CASE file.version = "missing" -> "" [] file.version = "empty" -> "None" [] OTHER -> file.version

Prompt(id, file) ==
    IF /\ Version(file) \notin {"", "spaces"}
       /\ file.untrusted \subseteq file.inputs
       /\ ToSet(file.body) = file.inputs
    THEN [id |-> id, version |-> Version(file), inputs |-> file.inputs,
          untrusted |-> file.untrusted, body |-> file.body]
    ELSE Malformed

ReadIndex(directory) ==
    IF /\ directory.index # Malformed /\ directory.format = 1 /\ directory.index # <<>>
       /\ \A id \in DOMAIN directory.index : directory.index[id].path # Nothing
    THEN directory.index ELSE Malformed

ReadPrompt(directory, id, entry) ==
    IF entry.path \notin DOMAIN directory.files THEN Malformed
    ELSE LET file == directory.files[entry.path]
         IN  IF file.fenced /\ file.id = id /\ file.schema = entry.schema
             THEN Prompt(id, file) ELSE Malformed

Keywords ==
    {"type", "properties", "required", "additionalProperties", "items", "enum", "minimum", "maximum",
     "minLength", "maxLength", "minItems", "maxItems", "title", "description", "schema"}

RECURSIVE RequireSupported(_)
RequireSupported(schema) ==
    /\ DOMAIN schema \subseteq Keywords
    /\ "properties" \in DOMAIN schema =>
          \A name \in DOMAIN schema.properties : RequireSupported(schema.properties[name])
    /\ "items" \in DOMAIN schema => RequireSupported(schema.items)

ReadSchema(directory, entry) ==
    CASE entry.schema = Nothing -> Nothing
      [] entry.schema # Nothing /\ entry.schema \notin DOMAIN directory.schemas -> Malformed
      [] OTHER -> LET schema == directory.schemas[entry.schema]
                  IN  IF schema # Malformed /\ RequireSupported(schema) THEN schema ELSE Malformed

\* All of the prompts, or none of them.
LoadRegistry(directory) ==
    LET index == ReadIndex(directory)
        Read(id) == [prompt |-> ReadPrompt(directory, id, index[id]),
                     schema |-> ReadSchema(directory, index[id])]
    IN  IF index = Malformed \/ \E id \in DOMAIN index : Malformed \in {Read(id).prompt, Read(id).schema}
        THEN Malformed ELSE [id \in DOMAIN index |-> Read(id)]

\* Three brackets or more are two.
Neutralise(text) ==
    [i \in DOMAIN text |-> IF text[i].sign \in {"<", ">"} /\ text[i].length >= 3
                           THEN [text[i] EXCEPT !.length = 2] ELSE text[i]]

Run(sign, length) == [sign |-> sign, length |-> length]
UntrustedOpen == <<Run("<", 3), Run("conversation content", 1), Run(">", 3)>>
UntrustedClose == <<Run("<", 3), Run("end of conversation content", 1), Run(">", 3)>>

Slot(value, untrusted) ==
    IF untrusted THEN UntrustedOpen \o <<Run("newline", 1)>> \o Neutralise(value)
                      \o <<Run("newline", 1)>> \o UntrustedClose
    ELSE value

\* The slots of the text in their order; never one left empty.
Render(prompt, variables) ==
    IF DOMAIN variables # prompt.inputs THEN Malformed
    ELSE [i \in DOMAIN prompt.body |->
             Slot(variables[prompt.body[i]], prompt.body[i] \in prompt.untrusted)]

-----------------------------------------------------------------------------
(***************************************************************************)
(* The providers that are shipped.                                         *)
(***************************************************************************)
\* What a request meets on its way: an answer with a status, or none.
Send(happens) ==
    CASE happens.kind = "answered" /\ happens.status \in 200..299 ->
            [raises |-> Nothing, payload |-> happens.payload]
      [] happens.kind = "answered" /\ happens.status = 429 -> [raises |-> "AiRateLimitedError"]
      [] happens.kind = "answered" /\ happens.status \notin 200..299 \cup {429} ->
            [raises |-> "AiProviderError"]
      [] happens.kind = "silent" -> [raises |-> "AiTimeoutError"]
      [] happens.kind = "unreachable" -> [raises |-> "AiProviderError"]
      [] happens.kind = "dropped" -> [raises |-> "ConnectionError"]

\* Every block of text there is.
TextOf(payload) ==
    LET blocks == IF payload.content = Malformed THEN <<>> ELSE payload.content
        texts == SelectSeq(blocks, LAMBDA block : block.type = "text")
    IN  IF texts = <<>> THEN Nothing ELSE [i \in DOMAIN texts |-> texts[i].text]

Count(value) == IF value \in {Nothing, Malformed} \/ value < 0 THEN Nothing ELSE value
UsageOf(payload) ==
    IF payload.usage = Malformed THEN [input |-> Nothing, output |-> Nothing]
    ELSE [input |-> Count(payload.usage.input), output |-> Count(payload.usage.output)]

StopReasons(reason) ==
    CASE reason \in {"end_turn", "stop_sequence", "tool_use"} -> "stop" [] reason = "max_tokens" -> "length"
      [] reason = "refusal" -> "content_filter" [] OTHER -> "other"

\* A model has a name, and no price below nothing.
AiModel(model) ==
    IF /\ model.identifier \notin {"", "spaces", "endless"}
       /\ \A rate \in {model.input, model.output} : rate # Nothing => rate >= 0
    THEN model ELSE Malformed

\* The name that was reported need not be one a model can have.
AnsweringModel(model, payload) ==
    IF payload.model \in {Nothing, "", model.identifier} THEN model
    ELSE AiModel([model EXCEPT !.identifier = payload.model])

Translate(model, payload) ==
    CASE TextOf(payload) = Nothing -> [raises |-> "AiResponseError"]
      [] TextOf(payload) # Nothing /\ AnsweringModel(model, payload) = Malformed ->
            [raises |-> "DomainValidationError"]
      [] OTHER -> [raises |-> Nothing, text |-> TextOf(payload), finish |-> StopReasons(payload.stop),
                   usage |-> UsageOf(payload), model |-> AnsweringModel(model, payload)]

\* What counts a character for a quarter of a token.
EstimateTokens(chars) == IF chars = 0 THEN 1 ELSE (chars + 3) \div 4

\* The scripted one takes the next failure, and without one the next answer,
\* and without one says what it always says.
Scripted(model, script, request) ==
    LET failure == IF script.failures = <<>> THEN Nothing ELSE Head(script.failures)
        answer == IF script.answers = <<>> THEN [chars |-> 15, finish |-> "stop", text |-> "scripted answer"]
                  ELSE Head(script.answers)
    IN  IF failure # Nothing THEN [raises |-> failure]
        ELSE [raises |-> Nothing, text |-> <<answer.text>>, finish |-> answer.finish, model |-> model,
              usage |-> [input |-> EstimateTokens(request.chars), output |-> EstimateTokens(answer.chars)]]

Generate(task) ==
    IF task.model.vendor = "fake" THEN Scripted(task.model, task.script, task)
    ELSE LET sent == Send(task.happens)
         IN  IF sent.raises # Nothing THEN sent ELSE Translate(task.model, sent.payload)

-----------------------------------------------------------------------------
(***************************************************************************)
(* One call, and its record.                                               *)
(***************************************************************************)
IsPriced(model) == model.input # Nothing /\ model.output # Nothing
IsMeasured(usage) == usage.input # Nothing /\ usage.output # Nothing
Unmeasured == [input |-> Nothing, output |-> Nothing]

\* An amount, in a currency that has letters.
Cost(amount, currency) == IF amount >= 0 /\ currency = "letters" THEN amount ELSE Malformed

\* What it came to, if that is known.
CostOf(model, usage) ==
    IF ~IsPriced(model) \/ ~IsMeasured(usage) THEN Nothing
    ELSE Cost(model.input * usage.input + model.output * usage.output, model.currency)

\* The record of a call, which has a finish if and only if it was a success.
Record(task, outcome, response) ==
    LET usage == IF response = Nothing THEN Unmeasured ELSE response.usage
        finish == IF response = Nothing THEN Nothing ELSE response.finish
    IN  IF /\ CostOf(task.model, usage) # Malformed /\ task.kind \notin {"", "spaces", "endless"}
           /\ (outcome = "success") <=> (finish # Nothing)
           /\ outcome = "refused" => ~IsMeasured(usage)
        THEN [outcome |-> outcome, model |-> task.model.identifier, usage |-> usage, finish |-> finish,
              cost |-> CostOf(task.model, usage),
              digest |-> response # Nothing, text |-> task.keep /\ response # Nothing]
        ELSE Malformed

\* Off is off, and what leaves this machine needs a chat that lets it.
Refusal(chat, model) ==
    \/ chat = Nothing /\ model.external
    \/ /\ chat # Nothing
       /\ chat = "disabled" \/ (model.external /\ chat # "cloud_allowed")

Outcomes ==
    [AiTimeoutError |-> "timeout", AiRateLimitedError |-> "rate_limited",
     AiResponseError |-> "malformed", AiProviderError |-> "provider_error"]

\* How a call ends: what is raised, what was said, what is on record, and
\* whether anything was sent.
Ending(raises, text, record, sent) ==
    [raises |-> raises, text |-> text, record |-> record, sent |-> sent]

Recorded(raises, text, record) ==
    IF record = Malformed THEN Ending("DomainValidationError", Nothing, Nothing, TRUE)
    ELSE Ending(raises, text, record, TRUE)

Invoke(task) ==
    CASE task.ends = "late" -> Recorded("AiTimeoutError", Nothing, Record(task, "timeout", Nothing))
      [] task.ends = "cancelled" -> Recorded("CancelledError", Nothing, Record(task, "cancelled", Nothing))
      [] OTHER -> LET made == Generate(task)
                  IN  CASE made.raises = Nothing ->
                             Recorded(Nothing, made.text, Record(task, "success", made))
                        [] made.raises \in DOMAIN Outcomes ->
                             Recorded(made.raises, Nothing, Record(task, Outcomes[made.raises], Nothing))
                        [] OTHER -> Ending(made.raises, Nothing, Nothing, TRUE)

\* What may be asked is something; how much of an answer is asked for, and for
\* how long, is left to the configuration.
Request(task) == IF task.content # "blank" THEN task ELSE Malformed

Execute(task) ==
    CASE Request(task) = Malformed -> Ending("DomainValidationError", Nothing, Nothing, FALSE)
      [] Request(task) # Malformed /\ task.chat = "missing" ->
            Ending("RecordNotFoundError", Nothing, Nothing, FALSE)
      [] Request(task) # Malformed /\ task.chat # "missing" /\ Refusal(task.chat, task.model) ->
            [Recorded("AiForbiddenError", Nothing, Record(task, "refused", Nothing)) EXCEPT !.sent = FALSE]
      [] OTHER -> Invoke(task)

-----------------------------------------------------------------------------
(***************************************************************************)
(* The shape of an answer, and the one repair.                             *)
(***************************************************************************)
\* true is not a number, 1.0 is not an integer, every integer is a number, and
\* a type nobody knows is everything.
IsType(value, expected) ==
    \/ expected \notin {"object", "array", "string", "number", "integer", "boolean", "null"}
    \/ expected = value.type \/ (expected = "number" /\ value.type = "integer")

Within(number, schema, least, most) ==
    /\ least \in DOMAIN schema => number >= schema[least]
    /\ most \in DOMAIN schema => number <= schema[most]

\* What is neither below nor above passes: NaN is not compared.
CheckNumber(value, schema, path) ==
    IF value.value = NaN \/ Within(value.value, schema, "minimum", "maximum") THEN {}
    ELSE {<<path, "number">>}
CheckString(value, schema, path) ==
    IF Within(value.length, schema, "minLength", "maxLength") THEN {} ELSE {<<path, "string">>}

RECURSIVE Violations(_, _, _)
CheckArray(value, schema, path) ==
    (IF Within(Len(value.elements), schema, "minItems", "maxItems") THEN {} ELSE {<<path, "array">>})
    \cup (IF "items" \notin DOMAIN schema THEN {}
          ELSE UNION {Violations(value.elements[i], schema.items, Append(path, i)) :
                         i \in DOMAIN value.elements})

CheckObject(value, schema, path) ==
    LET properties == IF "properties" \in DOMAIN schema THEN schema.properties ELSE <<>>
        required == IF "required" \in DOMAIN schema THEN schema.required ELSE {}
        closed == "additionalProperties" \in DOMAIN schema /\ ~schema.additionalProperties
    IN  {<<Append(path, name), "required">> : name \in required \ DOMAIN value.fields}
        \cup {<<Append(path, name), "unknown">> :
                  name \in IF closed THEN DOMAIN value.fields \ DOMAIN properties ELSE {}}
        \cup UNION {Violations(value.fields[name], properties[name], Append(path, name)) :
                        name \in DOMAIN properties \cap DOMAIN value.fields}

Violations(value, schema, path) ==
    IF "type" \in DOMAIN schema /\ ~IsType(value, schema.type) THEN {<<path, "type">>}
    ELSE (CASE value.type = "object" -> CheckObject(value, schema, path)
            [] value.type = "array" -> CheckArray(value, schema, path)
            [] value.type = "string" -> CheckString(value, schema, path)
            [] value.type \in {"number", "integer"} -> CheckNumber(value, schema, path)
            [] OTHER -> {})
         \cup (IF "enum" \in DOMAIN schema /\ value.word \notin schema.enum
               THEN {<<path, "enum">>} ELSE {})

\* A fence is taken off, on the line of its own that it should have; null is
\* no answer either.
Parse(answer) ==
    IF answer.fence = "inline" \/ answer.body = Malformed THEN Nothing
    ELSE IF answer.body.type = "null" THEN Nothing ELSE answer.body

Validate(answer, schema) ==
    LET payload == Parse(answer)
        violations == IF payload = Nothing THEN {<<<<>>, "json">>}
                      ELSE IF Violations(payload, schema, <<>>) # {} THEN Violations(payload, schema, <<>>)
                      ELSE IF payload.type # "object" THEN {<<<<>>, "object">>} ELSE {}
    IN  [payload |-> IF violations = {} THEN payload ELSE Nothing, violations |-> violations]

BuildRepairPrompt(answer, violations) ==
    IF violations = {} THEN Malformed ELSE [content |-> "repair", previous |-> answer, problems |-> violations]

\* Ask, and ask once more with what was wrong; tasks[1] and tasks[2] are the
\* two calls there would be, and says[i] is the answer a text stands for.
Structured(tasks, says, schema) ==
    LET first == Execute(tasks[1])
        outcome == Validate(says[1], schema)
        second == Execute([tasks[2] EXCEPT !.content = BuildRepairPrompt(says[1], outcome.violations).content])
        repaired == Validate(says[2], schema)
        Ends(raises, payload, call, calls) ==
            [raises |-> raises, payload |-> payload, call |-> call, calls |-> calls]
    IN  CASE first.raises # Nothing -> Ends(first.raises, Nothing, 0, <<first>>)
          [] first.raises = Nothing /\ outcome.payload # Nothing ->
                Ends(Nothing, outcome.payload, 1, <<first>>)
          [] first.raises = Nothing /\ outcome.payload = Nothing /\ second.raises # Nothing ->
                Ends(second.raises, Nothing, 0, <<first, second>>)
          [] first.raises = Nothing /\ outcome.payload = Nothing /\ second.raises = Nothing ->
                IF repaired.payload # Nothing THEN Ends(Nothing, repaired.payload, 2, <<first, second>>)
                ELSE Ends("SchemaViolationError", Nothing, 0, <<first, second>>)

-----------------------------------------------------------------------------
(***************************************************************************)
(* The contract of the extraction prompt, and what is made of an answer    *)
(* that satisfies it.                                                      *)
(***************************************************************************)
Text(most) == [type |-> "string", minLength |-> 1, maxLength |-> most]
FactCategories ==
    {"identity", "location", "occupation", "interest", "preference", "relationship", "important_date",
     "plan", "shared_experience", "open_question", "constraint", "other"}
MemoryProposals ==
    [type |-> "object", additionalProperties |-> FALSE, required |-> {"proposals"},
     properties |-> [proposals |->
        [type |-> "array", minItems |-> 0, maxItems |-> 25, items |->
            [type |-> "object", additionalProperties |-> FALSE,
             required |-> {"category", "value", "confidence", "evidence"},
             properties |-> [category |-> [type |-> "string", enum |-> FactCategories],
                             value |-> Text(500), evidence |-> Text(2000),
                             confidence |-> [type |-> "number", minimum |-> 0, maximum |-> 10]]]]]]

Confidence(value) == IF value = NaN THEN Malformed ELSE IF value \in 0..10 THEN value ELSE Malformed
Evidence(quote) == IF quote = "spaces" THEN Malformed ELSE quote

Candidate(entry) ==
    IF Malformed \in {Confidence(entry.confidence.value), Evidence(entry.evidence.word)} THEN Malformed
    ELSE [category |-> entry.category.word, value |-> entry.value.word,
          confidence |-> entry.confidence.value, evidence |-> entry.evidence.word]

\* Grounded, confident enough, new, and below the cap, in this order.
Sift(payload, transcript, existing, policy) ==
    LET entries == payload.fields.proposals.elements
        candidates == [i \in DOMAIN entries |-> Candidate(entries[i].fields)]
        FactOf(candidate) == <<candidate.category, candidate.value>>
        Counted(tally, why) == [tally EXCEPT ![why] = @ + 1]
        Judge(tally, candidate) ==
            CASE candidate.evidence \notin transcript -> Counted(tally, "ungrounded")
              [] candidate.evidence \in transcript /\ candidate.confidence < policy.min_confidence ->
                    Counted(tally, "low_confidence")
              [] OTHER -> IF FactOf(candidate) \in existing \cup {FactOf(k) : k \in ToSet(tally.kept)}
                          THEN Counted(tally, "duplicates")
                          ELSE IF Len(tally.kept) >= policy.max_proposals THEN Counted(tally, "over_cap")
                          ELSE [tally EXCEPT !.kept = Append(@, candidate)]
    IN  IF Malformed \in ToSet(candidates) THEN Malformed
        ELSE FoldLeft(Judge, [ungrounded |-> 0, low_confidence |-> 0, duplicates |-> 0, over_cap |-> 0,
                              kept |-> <<>>], candidates)

\* A proposal is pending and proposes something.
Proposal(candidate) ==
    IF candidate.value = "spaces" THEN Malformed ELSE candidate @@ [status |-> "pending"]

\* One that cannot be built, and there are none.
Build(tally) ==
    IF tally = Malformed THEN Malformed
    ELSE LET proposals == [i \in DOMAIN tally.kept |-> Proposal(tally.kept[i])]
         IN  IF Malformed \in ToSet(proposals) THEN Malformed ELSE proposals

-----------------------------------------------------------------------------
(***************************************************************************)
(* What all this promises.                                                 *)
(***************************************************************************)
RECURSIVE KeywordsOf(_)
KeywordsOf(schema) ==
    DOMAIN schema
    \cup (IF "items" \in DOMAIN schema THEN KeywordsOf(schema.items) ELSE {})
    \cup (IF "properties" \in DOMAIN schema
          THEN UNION {KeywordsOf(schema.properties[name]) : name \in DOMAIN schema.properties} ELSE {})

\* What loads can be checked down to its last keyword and has the version of
\* its file (or the word for an empty one), and rendering leaves no hole and
\* no content outside its slot.
PromptsAreWhole(directory, variables) ==
    LET registry == LoadRegistry(directory)
        Forged(text) == \E i \in DOMAIN text : text[i].sign \in {"<", ">"} /\ text[i].length >= 3
    IN  registry # Malformed =>
          /\ DOMAIN registry = DOMAIN directory.index
          /\ \A id \in DOMAIN registry :
                LET prompt == registry[id].prompt
                    rendered == Render(prompt, variables)
                    version == directory.files[directory.index[id].path].version
                IN  /\ version # "missing" /\ version # "empty" => prompt.version = version
                    /\ (registry[id].schema = Nothing) <=> (directory.index[id].schema = Nothing)
                    /\ registry[id].schema # Nothing => KeywordsOf(registry[id].schema) \subseteq Keywords
                    /\ rendered = Malformed <=> DOMAIN variables # ToSet(prompt.body)
                    /\ rendered # Malformed =>
                          \A i \in DOMAIN prompt.body :
                             IF prompt.body[i] \in prompt.untrusted
                             THEN ~Forged(SubSeq(rendered[i], 4, Len(rendered[i]) - 3))
                                  /\ Len(rendered[i]) = Len(variables[prompt.body[i]]) + 8
                             ELSE rendered[i] = variables[prompt.body[i]]

\* A call that was sent is on record however it ended, with four exceptions: a
\* connection that drops, an answer under a name no model can have, a cost in
\* a currency of no letters, and a task of no name.  What is on record is what
\* happened, and only what a chat lets out leaves this machine.
WhatIsSentIsRecorded(task) ==
    LET ending == Execute(task)
        answered == ending.record # Nothing /\ ending.record.outcome = "success"
        made == Generate(task)
        overWire == task.model.vendor # "fake"
        unnamed == task.kind \in {"", "spaces", "endless"}
        allowed == /\ task.content # "blank" /\ task.chat \notin {"missing", "disabled"}
                   /\ task.model.external => task.chat = "cloud_allowed"
        lost == \/ unnamed
                \/ /\ task.ends = "answers"
                   /\ \/ overWire /\ task.happens.kind = "dropped"
                      \/ /\ overWire /\ task.happens.kind = "answered" /\ task.happens.status = 200
                         /\ TextOf(task.happens.payload) # Nothing
                         /\ task.happens.payload.model \in {"spaces", "endless"}
                      \/ /\ made.raises = Nothing /\ task.model.currency # "letters"
                         /\ IsPriced(task.model) /\ IsMeasured(made.usage)
    IN  /\ ending.sent <=> allowed
        /\ allowed => (ending.record = Nothing) = lost
        /\ ~allowed => (ending.record = Nothing) = (task.content = "blank" \/ task.chat = "missing" \/ unnamed)
        /\ (ending.raises = Nothing) <=> answered
        /\ ending.text # Nothing <=> answered
        /\ ending.record # Nothing =>
              /\ (ending.record.outcome = "refused") <=> ~ending.sent
              /\ ending.record.text => task.keep /\ answered
              /\ ending.record.cost # Nothing =>
                    answered /\ IsPriced(task.model) /\ IsMeasured(made.usage)
              /\ ending.record.model = task.model.identifier

\* At most two calls, the second only for an answer of the wrong shape; what
\* is handed on has the right one, and comes from the call it is put down to.
RepairsOnce(tasks, says, schema) ==
    LET result == Structured(tasks, says, schema)
    IN  /\ Len(result.calls) \in 1..2
        /\ Len(result.calls) = 2 =>
              Parse(says[1]) = Nothing \/ Violations(Parse(says[1]), schema, <<>>) # {}
        /\ (result.payload # Nothing) <=> result.call # 0
        /\ result.call # 0 =>
              /\ result.payload = says[result.call].body /\ Violations(result.payload, schema, <<>>) = {}
              /\ result.calls[result.call].record # Nothing /\ result.call = Len(result.calls)
        /\ result.raises = "SchemaViolationError" => \A i \in 1..2 : result.calls[i].record # Nothing

\* An answer passes if and only if it is the object that was asked for, and
\* every proposal is built from what passed, unless one has a number that is
\* none or text of spaces; the counts add up and no fact is there twice.
ProposalsAreSound(answer, transcript, existing, policy) ==
    LET payload == answer.body
        Is(value, most) == value.type = "string" /\ value.length \in 1..most
        Sure(value) == value.type \in {"number", "integer"} /\ (value.value = NaN \/ value.value \in 0..10)
        Entry(e) ==
            /\ e.type = "object" /\ DOMAIN e.fields = {"category", "value", "confidence", "evidence"}
            /\ e.fields.category.type = "string" /\ e.fields.category.word \in FactCategories
            /\ Is(e.fields.value, 500) /\ Is(e.fields.evidence, 2000) /\ Sure(e.fields.confidence)
        Shaped == /\ answer.fence # "inline" /\ payload # Malformed /\ payload.type = "object" /\ DOMAIN payload.fields = {"proposals"}
                  /\ payload.fields.proposals.type = "array"
                  /\ Len(payload.fields.proposals.elements) <= 25
                  /\ \A e \in ToSet(payload.fields.proposals.elements) : Entry(e)
        elements == payload.fields.proposals.elements
        tally == Sift(payload, transcript, existing, policy)
        Odd(e) == e.fields.confidence.value = NaN \/ e.fields.evidence.word = "spaces"
    IN  /\ (Validate(answer, MemoryProposals).payload # Nothing) <=> Shaped
        /\ Shaped =>
              /\ (tally = Malformed) <=> \E e \in ToSet(elements) : Odd(e)
              /\ tally # Malformed =>
                    /\ Len(elements) = tally.ungrounded + tally.low_confidence + tally.duplicates
                                       + tally.over_cap + Len(tally.kept)
                    /\ Len(tally.kept) <= policy.max_proposals
                    /\ tally.over_cap > 0 => Len(tally.kept) = policy.max_proposals
                    /\ Cardinality({<<k.category, k.value>> : k \in ToSet(tally.kept)} \ existing)
                          = Len(tally.kept)
                    /\ \A k \in ToSet(tally.kept) :
                          k.evidence \in transcript /\ k.confidence >= policy.min_confidence
                    /\ IF \E k \in ToSet(tally.kept) : k.value = "spaces" THEN Build(tally) = Malformed
                       ELSE /\ Len(Build(tally)) = Len(tally.kept)
                            /\ \A proposal \in ToSet(Build(tally)) : proposal.status = "pending"
=============================================================================
