--------------------------- MODULE Configuration ---------------------------
(***************************************************************************)
(* What the program is told: config/loader.py merges up to five layers of  *)
(* settings and remembers where each came from, config/settings.py says    *)
(* which values there may be, container.py builds components from them,    *)
(* and the config and doctor commands report.                              *)
(*                                                                         *)
(* A layer has a source, perhaps a profile, and sections: a section is     *)
(* either a mapping from keys to values or Blank, which is what a file     *)
(* holds where every line of a section is a comment.  Fractions are in     *)
(* tenths, times in whole seconds; a text is told by its kind; what is not *)
(* of the type asked for is Malformed.                                     *)
(***************************************************************************)
EXTENDS Integers, Sequences, FiniteSets, SequencesExt, TLC

CONSTANTS
    Nothing,        \* no value, no layer, no variable in the environment
    Blank,          \* a section without a mapping
    Malformed,      \* a file that does not parse, a value that is of no use
    Today           \* the days since the first year there is

-----------------------------------------------------------------------------
(***************************************************************************)
(* The settings: what a key is if no layer says, and what it may be.  The  *)
(* levels of single components, a mapping within a section, are left out.  *)
(***************************************************************************)
Profiles == {"development", "testing", "production"}

Is(default, legal) == [default |-> default, legal |-> legal]
Switch(default) == Is(default, BOOLEAN)
Place == Is(Nothing, {Nothing, "somewhere"})
Name == Is("name", {"name", "spaces"})      \* at least one character
Price == Is(Nothing, {Nothing} \cup 0..1000)

AppSection == [data_dir |-> Place, locale |-> Is("name", {"", "name", "spaces"})]

LoggingSection ==
    [level |-> Is("INFO", {"DEBUG", "INFO", "WARNING", "ERROR", "CRITICAL"}),
     console_enabled |-> Switch(TRUE), file_enabled |-> Switch(TRUE), dir |-> Place,
     format |-> Is("console", {"json", "console"}), max_file_mb |-> Is(50, 1..1024),
     backup_count |-> Is(5, 0..100), retention_days |-> Is(14, 1..365),
     diagnostic_mode |-> Switch(FALSE)]

DatabaseSection ==
    [path |-> Place, journal_mode |-> Is("WAL", {"WAL", "DELETE", "TRUNCATE", "PERSIST", "MEMORY"}),
     synchronous |-> Is("NORMAL", {"OFF", "NORMAL", "FULL", "EXTRA"}),
     busy_timeout_ms |-> Is(5000, 0..120000), auto_migrate |-> Switch(TRUE), archive_dir |-> Place]

SecuritySection == [enforce_file_permissions |-> Switch(TRUE), require_secret_store |-> Switch(TRUE)]

AiSection ==
    [vendor |-> Is("fake", {"fake", "anthropic"}), model |-> Name, api_key_ref |-> Name,
     endpoint |-> Place, input_cost_per_million |-> Price, output_cost_per_million |-> Price,
     cost_currency |-> Is("letters", {"letters", "others"}),    \* three characters
     timeout_seconds |-> Is(60, 1..600), max_output_tokens |-> Is(4096, 1..200000),
     store_responses |-> Switch(FALSE)]

MemorySection ==
    [min_confidence |-> Is(6, 0..10), max_proposals_per_conversation |-> Is(10, 1..100),
     context_message_limit |-> Is(100, 1..1000), max_message_chars |-> Is(2000, 100..100000),
     context_token_budget |-> Is(800, 1..100000), context_max_memories |-> Is(20, 1..500),
     max_candidates |-> Is(500, 1..10000)]

SuggestionSection ==
    [prompt_token_budget |-> Is(2000, 1..200000), recent_message_limit |-> Is(20, 1..500),
     max_message_chars |-> Is(2000, 100..100000), minimum_messages |-> Is(1, 1..100)]

ConversationSection ==
    [gap_minutes |-> Is(360, 1..100000), max_messages |-> Is(200, 1..10000),
     segment_on_ingest |-> Switch(TRUE)]

TelegramSection ==
    [tdjson_path |-> Place, minimum_version |-> Name, log_verbosity |-> Is(0, 0..10),
     search_system_library_path |-> Switch(TRUE), api_id |-> Is(Nothing, {Nothing} \cup (Nat \ {0})),
     api_hash_ref |-> Name, device_model |-> Name, backfill_batch_size |-> Is(100, 1..1000),
     backfill_horizon_days |-> Is(365, Nat), catch_up_pages |-> Is(20, 1..1000),
     live_max_restarts |-> Is(5, 0..100), update_queue_size |-> Is(1000, 1..100000),
     sync_chat_types |-> Is({"private"}, SUBSET {"private", "group", "supergroup", "channel", "secret"})]

AppConfig ==
    [app |-> AppSection, logging |-> LoggingSection, database |-> DatabaseSection,
     security |-> SecuritySection, ai |-> AiSection, memory |-> MemorySection,
     suggestion |-> SuggestionSection, conversation |-> ConversationSection,
     telegram |-> TelegramSection]

-----------------------------------------------------------------------------
(***************************************************************************)
(* Loading.                                                                *)
(***************************************************************************)
\* An option wins over the environment; a variable that is set and empty is a
\* profile nobody knows.
ResolveProfile(option, variable) ==
    LET raw == IF option # Nothing THEN option ELSE variable
    IN  CASE raw = Nothing -> "development"
          [] raw \in Profiles -> raw
          [] OTHER -> Malformed

ResolveConfigDir(option, variable) ==
    CASE option # Nothing -> option [] option = Nothing /\ variable \notin {Nothing, ""} -> variable
      [] OTHER -> "shipped"

ProfileOrigin(option, variable) ==
    CASE option # Nothing -> "override"
      [] option = Nothing /\ variable \notin {Nothing, ""} -> "environment"
      [] OTHER -> "default"

\* Key by key where there is a mapping on both sides; what stands where a
\* mapping should is dropped by the next layer that has one.
Mapping(tree, section) ==
    IF section \in DOMAIN tree /\ tree[section] # Blank THEN tree[section] ELSE <<>>

DeepMerge(base, overlay) ==
    [s \in DOMAIN base \cup DOMAIN overlay |->
        IF s \notin DOMAIN overlay THEN base[s]
        ELSE IF overlay[s] = Blank THEN Blank ELSE overlay[s] @@ Mapping(base, s)]

\* The leaves of a layer; each is credited to its source, and no credit is
\* ever taken back.
Leaves(layer) ==
    UNION {IF layer.sections[s] = Blank THEN {<<s>>}
           ELSE {<<s, key>> : key \in DOMAIN layer.sections[s]} : s \in DOMAIN layer.sections}
    \cup IF layer.profile = Nothing THEN {} ELSE {<<"profile">>}

Credit(origins, layer) == [leaf \in Leaves(layer) |-> layer.source] @@ origins

\* The files that are looked for, of which request.files has those there are.
Candidates(profile) == <<"default.yaml", profile, "local.yaml">>
Present(request, profile) ==
    SelectSeq(Candidates(profile), LAMBDA file : file \in DOMAIN request.files)

Layers(request, profile) ==
    [i \in DOMAIN Present(request, profile) |-> request.files[Present(request, profile)[i]]]
    \o <<request.environment>>
    \o (IF request.overrides = Nothing THEN <<>> ELSE <<request.overrides>>)

\* Every section a mapping of known keys to legal values, and what carries the
\* content of conversations not kept in production.
Valid(profile, sections, schema) ==
    /\ \A s \in DOMAIN sections :
          /\ s \in DOMAIN schema /\ sections[s] # Blank
          /\ \A key \in DOMAIN sections[s] :
                key \in DOMAIN schema[s] /\ sections[s][key] \in schema[s][key].legal
    /\ profile = "production" =>
          /\ "diagnostic_mode" \in DOMAIN Mapping(sections, "logging") =>
                ~sections["logging"]["diagnostic_mode"]
          /\ "store_responses" \in DOMAIN Mapping(sections, "ai") =>
                ~sections["ai"]["store_responses"]

Filled(sections, schema) ==
    [s \in DOMAIN schema |-> Mapping(sections, s) @@ [key \in DOMAIN schema[s] |-> schema[s][key].default]]

LoadConfig(request, schema) ==
    LET profile == ResolveProfile(request.option, request.variable)
        layers == Layers(request, profile)
        merged == FoldLeft(LAMBDA tree, layer : DeepMerge(tree, layer.sections), <<>>, layers)
    IN  IF profile = Malformed \/ (\E i \in DOMAIN layers : layers[i] = Malformed)
              \/ ~Valid(profile, merged, schema)
        THEN Malformed
        ELSE [profile |-> profile, config |-> Filled(merged, schema),
              origins |-> FoldLeft(Credit, [leaf \in {<<"profile">>} |->
                             ProfileOrigin(request.option, request.variable)], layers),
              layers |-> Present(request, profile),
              missing |-> SelectSeq(Candidates(profile), LAMBDA file : file \notin DOMAIN request.files)]

-----------------------------------------------------------------------------
(***************************************************************************)
(* The config commands.                                                    *)
(***************************************************************************)
Open(request, schema) == LoadConfig(request, schema)
ConfigValidate(request, schema) == Open(request, schema) # Malformed
ConfigPath(request, schema) ==
    LET loaded == Open(request, schema) IN ToSet(loaded.layers) \cup ToSet(loaded.missing)

\* Each value with its origin, if it is known to have one.
Render(loaded, leaf) ==
    [value |-> loaded.config[leaf[1]][leaf[2]],
     origin |-> IF leaf \in DOMAIN loaded.origins THEN loaded.origins[leaf] ELSE Nothing]

ConfigShow(request, schema) ==
    LET loaded == Open(request, schema)
    IN  [leaf \in UNION {{<<s, key>> : key \in DOMAIN schema[s]} : s \in DOMAIN schema} |->
            Render(loaded, leaf)]

-----------------------------------------------------------------------------
(***************************************************************************)
(* What is built from a configuration, and what its parts refuse.          *)
(***************************************************************************)
SegmentationRules(c) == c.conversation.gap_minutes > 0 /\ c.conversation.max_messages >= 1
SelectionRules(c) == c.memory.context_token_budget >= 1 /\ c.memory.context_max_memories >= 1
AssemblyRules(c) ==
    /\ c.suggestion.prompt_token_budget >= 1 /\ c.suggestion.recent_message_limit >= 1
    /\ c.suggestion.max_message_chars >= 1 /\ c.suggestion.minimum_messages >= 1
    /\ c.suggestion.minimum_messages <= c.suggestion.recent_message_limit
AiModel(c) ==
    /\ c.ai.model # "spaces"
    /\ \A rate \in {c.ai.input_cost_per_million, c.ai.output_cost_per_million} :
          rate = Nothing \/ rate >= 0
Horizon(c) == c.telegram.backfill_horizon_days <= Today

\* The estimate of a call that was answered, with its tokens reported.
IsPriced(c) == c.ai.input_cost_per_million # Nothing /\ c.ai.output_cost_per_million # Nothing
Cost(c) == IsPriced(c) => c.ai.cost_currency = "letters"

\* A model answers only if its key is there.
AiProvider(c, secrets) == AiModel(c) /\ (c.ai.vendor = "fake" \/ c.ai.api_key_ref \in secrets)

-----------------------------------------------------------------------------
(***************************************************************************)
(* Secrets: the environment, which is read only, before the credential     *)
(* store.  A store is a mapping from names to values, with what it can do. *)
(***************************************************************************)
GetSecret(chain, name) ==
    LET holding == SelectSeq(chain, LAMBDA store : name \in DOMAIN store.holds)
    IN  IF holding = <<>> THEN Nothing ELSE Head(holding).holds[name]

SetSecret(chain, name, value) ==
    LET first == SelectInSeq(chain, LAMBDA store : store.writable)
    IN  IF first = 0 THEN Malformed
        ELSE [chain EXCEPT ![first].holds = [n \in {name} |-> value] @@ @]

DeleteSecret(chain, name) ==
    [i \in DOMAIN chain |->
        IF chain[i].writable
        THEN [chain[i] EXCEPT !.holds = [n \in DOMAIN @ \ {name} |-> @[n]]] ELSE chain[i]]

IsAvailable(chain) == \E i \in DOMAIN chain : chain[i].available

\* The environment can always be read.
DefaultSecretStore(environment, credentials, keyring) ==
    <<[holds |-> environment, writable |-> FALSE, available |-> TRUE],
      [holds |-> credentials, writable |-> TRUE, available |-> keyring]>>

VerifySecretStore(c, chain) == IsAvailable(chain) \/ ~c.security.require_secret_store

-----------------------------------------------------------------------------
(***************************************************************************)
(* The doctor, and the start of the program it speaks for: each check is   *)
(* TRUE, FALSE, or Nothing for what cannot be told here.                   *)
(***************************************************************************)
SecretStoreCheck(c, chain) == IsAvailable(chain) \/ ~c.security.require_secret_store
SchemaCheck(state) == state \in {"current", "empty", "behind"}

CollectChecks(c, host) ==
    <<TRUE, TRUE, host.directories, host.permissions, host.logs,
      SecretStoreCheck(c, host.chain), SchemaCheck(host.schema)>>

Doctor(c, host) == \A i \in DOMAIN CollectChecks(c, host) : CollectChecks(c, host)[i] # FALSE

\* Container.start: the credentials, the prompts, the database.
Start(c, host) ==
    VerifySecretStore(c, host.chain) /\ host.prompts /\ host.schema \notin {"ahead", "unknown", "down"}

-----------------------------------------------------------------------------
(***************************************************************************)
(* What all this promises.                                                 *)
(***************************************************************************)
\* A value is the one of the highest layer that has it, above any layer that
\* blanks its section, and else its default; it is credited to the highest
\* layer that has it, which is another one only below such a blank.  What is
\* asked for by hand is above the environment, that above this machine's file,
\* that above the profile's, and that above the shipped one.
HighestWins(request, schema) ==
    LET loaded == LoadConfig(request, schema)
        asked == IF request.option # Nothing THEN request.option ELSE request.variable
        profile == IF asked = Nothing THEN "development" ELSE asked
        From(rank) == CASE rank = 1 /\ "default.yaml" \in DOMAIN request.files -> request.files["default.yaml"]
                        [] rank = 2 /\ profile \in DOMAIN request.files -> request.files[profile]
                        [] rank = 3 /\ "local.yaml" \in DOMAIN request.files -> request.files["local.yaml"]
                        [] rank = 4 -> request.environment
                        [] rank = 5 -> request.overrides
                        [] OTHER -> Nothing
        Having(leaf) == {rank \in 1..5 : From(rank) # Nothing /\ leaf \in Leaves(From(rank))}
        Highest(leaf) == CHOOSE i \in Having(leaf) : \A j \in Having(leaf) : j <= i
        Won(s, key) == Having(<<s, key>>) # {} /\ \A i \in Having(<<s>>) : i < Highest(<<s, key>>)
    IN  loaded # Malformed =>
          /\ loaded.profile = profile
          /\ \A s \in DOMAIN schema : \A key \in DOMAIN schema[s] :
                LET shown == ConfigShow(request, schema)[<<s, key>>]
                IN  /\ shown.value = IF Won(s, key) THEN From(Highest(<<s, key>>)).sections[s][key]
                                     ELSE schema[s][key].default
                    /\ shown.origin = IF Having(<<s, key>>) = {} THEN Nothing
                                      ELSE From(Highest(<<s, key>>)).source

\* No layer can bring what carries conversations into production, nor a value
\* of no use anywhere; and the profile that was asked for is the one in force.
NothingSlipsIn(request, schema) ==
    LET loaded == LoadConfig(request, schema)
    IN  loaded # Malformed =>
          /\ loaded.profile = "production" =>
                ~loaded.config["logging"]["diagnostic_mode"] /\ ~loaded.config["ai"]["store_responses"]
          /\ \A s \in DOMAIN schema : \A key \in DOMAIN schema[s] :
                loaded.config[s][key] \in schema[s][key].legal
          /\ ConfigPath(request, schema) = ToSet(Candidates(loaded.profile))

\* Every configuration that loads can be built from, and every answer paid for
\* be recorded, with four exceptions: a floor above the limit of a prompt, a
\* model named by spaces, priced calls in a currency of no letters, and a
\* horizon before the first year.
WhatLoadsIsBuilt(c) ==
    /\ SegmentationRules(c) /\ SelectionRules(c)
    /\ AssemblyRules(c) <=> c.suggestion.minimum_messages <= c.suggestion.recent_message_limit
    /\ AiModel(c) <=> c.ai.model # "spaces"
    /\ Cost(c) <=> c.ai.cost_currency # "others" \/ ~IsPriced(c)
    /\ Horizon(c) <=> c.telegram.backfill_horizon_days <= Today

\* What was stored is read back, and what was deleted is gone, unless the
\* environment has a word on it.
SecretsRoundTrip(environment, credentials, name, value) ==
    LET chain == DefaultSecretStore(environment, credentials, TRUE)
        Overruled(read) == IF name \in DOMAIN environment THEN environment[name] ELSE read
    IN  /\ GetSecret(SetSecret(chain, name, value), name) = Overruled(value)
        /\ GetSecret(DeleteSecret(SetSecret(chain, name, value), name), name) = Overruled(Nothing)
        /\ \A other \in (DOMAIN environment \cup DOMAIN credentials) \ {name} :
              GetSecret(DeleteSecret(SetSecret(chain, name, value), name), other)
                 = GetSecret(chain, other)

\* What the doctor passes does not refuse to start for its credentials or its
\* schema.  With the default store neither ever refuses for the credentials.
DoctorSpeaksForStart(c, host) ==
    /\ Doctor(c, host) /\ host.prompts => Start(c, host)
    /\ \A keyring \in BOOLEAN : VerifySecretStore(c, DefaultSecretStore(<<>>, <<>>, keyring))
=============================================================================
