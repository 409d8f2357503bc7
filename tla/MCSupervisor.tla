---------------------------- MODULE MCSupervisor ----------------------------
(***************************************************************************)
(* Small instances of Supervisor: the values are in the cfg files.  The    *)
(* configuration the supervised program runs under is worked out here,     *)
(* over a few files of a few settings.                                     *)
(***************************************************************************)
EXTENDS Supervisor

CONSTANTS Nothing, Blank, Malformed

Told == INSTANCE Configuration WITH Today <- 739000

-----------------------------------------------------------------------------
\* The two sections a profile has a word on, with one setting besides.
SmallSchema ==
    [logging |-> [diagnostic_mode |-> Told!Switch(FALSE), backup_count |-> Told!Is(5, 0..100)],
     ai |-> [store_responses |-> Told!Switch(FALSE)]]

Layer(source, profile, sections) == [source |-> source, profile |-> profile, sections |-> sections]
Empty == [s \in {} |-> Blank]
Logging(section) == [s \in {"logging"} |-> section]

\* A file may be empty, have an empty section, set one thing or another, set
\* it beyond its limits, or have a key or a section nobody knows.
Contents ==
    {Empty, Logging(Blank), Logging([diagnostic_mode |-> TRUE]), Logging([backup_count |-> 7]),
     Logging([diagnostic_mode |-> FALSE, backup_count |-> 101]), Logging([verbose |-> TRUE]),
     [log |-> [backup_count |-> 7]], [ai |-> [store_responses |-> TRUE]]}

FilesOf(default, chosen, local) ==
    [f \in {file \in {"default.yaml", "production", "local.yaml"} :
               CASE file = "default.yaml" -> default # Nothing
                 [] file = "production" -> chosen # Nothing
                 [] file = "local.yaml" -> local # Nothing} |->
        LET sections == CASE f = "default.yaml" -> default [] f = "production" -> chosen
                          [] f = "local.yaml" -> local
        IN  IF sections = Malformed THEN Malformed
            ELSE Layer(f, IF f = "local.yaml" THEN "testing" ELSE Nothing, sections)]

Requests ==
    {[option |-> option, variable |-> variable, files |-> FilesOf(default, chosen, local),
      environment |-> Layer("environment", IF variable = Nothing THEN Nothing ELSE variable, told),
      overrides |-> Nothing] :
        option \in {Nothing, "production"}, variable \in {Nothing, "", "production", "staging"},
        default \in Contents \cup {Nothing, Malformed}, chosen \in {Empty, Logging([backup_count |-> 9])},
        local \in Contents \cup {Nothing},
        told \in {Empty, Logging([backup_count |-> 3]), Logging([diagnostic_mode |-> FALSE])}}
    \cup
    {[option |-> "testing", variable |-> Nothing, files |-> FilesOf(default, Nothing, Nothing),
      environment |-> Layer("environment", Nothing, told),
      overrides |-> Layer("override", Nothing, over)] :
        default \in Contents, told \in Contents, over \in Contents}

\* The defaults, but for a few settings at their limits.
Configurations ==
    LET defaults == Told!Filled(<<>>, Told!AppConfig)
    IN  {[defaults EXCEPT !.suggestion.minimum_messages = minimum,
                          !.suggestion.recent_message_limit = limit,
                          !.conversation.gap_minutes = gap, !.conversation.max_messages = messages,
                          !.memory.context_token_budget = budget,
                          !.ai.vendor = vendor, !.ai.model = model, !.ai.cost_currency = currency,
                          !.ai.input_cost_per_million = in, !.ai.output_cost_per_million = out,
                          !.telegram.backfill_horizon_days = days,
                          !.security.require_secret_store = required] :
            minimum \in {1, 2, 100}, limit \in {1, 2, 500}, gap \in {1, 360}, messages \in {1, 10000},
            budget \in {1, 800}, vendor \in {"fake", "anthropic"}, model \in {"name", "spaces"},
            currency \in {"letters", "others"}, in \in {Nothing, 0, 3}, out \in {Nothing, 5},
            days \in {0, 739000, 739001}, required \in BOOLEAN}

SecretStores == UNION {[names -> {"v", "w"}] : names \in SUBSET {"a", "b"}}

Hosts ==
    {[directories |-> directories, permissions |-> permissions, logs |-> TRUE, schema |-> schema,
      prompts |-> prompts, chain |-> Told!DefaultSecretStore(<<>>, <<>>, keyring)] :
        directories \in BOOLEAN, permissions \in {TRUE, FALSE, Nothing}, prompts \in BOOLEAN,
        keyring \in BOOLEAN, schema \in {"current", "empty", "behind", "ahead", "unknown", "down"}}

\* The configuration is the one of the highest layer, with nothing slipped in,
\* and what loads is built, but for what WhatLoadsIsBuilt names.
ASSUME ConfigurationIsTheOneAskedFor ==
    /\ \A request \in Requests :
          Told!HighestWins(request, SmallSchema) /\ Told!NothingSlipsIn(request, SmallSchema)
    /\ \E request \in Requests : Told!ConfigValidate(request, SmallSchema)
    /\ \A c \in Configurations :
          /\ Told!Valid("development", [s \in DOMAIN c |-> c[s]], Told!AppConfig)
          /\ Told!WhatLoadsIsBuilt(c)
    /\ \A environment, credentials \in SecretStores, name \in {"a", "b"} :
          Told!SecretsRoundTrip(environment, credentials, name, "x")
    /\ \A host \in Hosts, required \in BOOLEAN :
          Told!DoctorSpeaksForStart([security |-> [require_secret_store |-> required]], host)
=============================================================================
