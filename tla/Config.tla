------------------------------- MODULE Config -------------------------------
(***************************************************************************)
(* How a configuration is loaded from the environment and the command line *)
(* (config.go, config_flags.go) and which ones each verb accepts           *)
(* (config_validate.go).  A source is a function from the settings it sets *)
(* to their values; settings go by the name of their environment variable. *)
(* A list is the set of its comma-separated parts, trimmed; the sentinel   *)
(* "disabled" stands for every spelling of it.                             *)
(***************************************************************************)
EXTENDS Naturals, FiniteSets

Targets == {"pubsub", "sqs"}

Required == {"EVENT_TABLE", "EVENT_ID", "EVENT_PAYLOAD", "PG_SCHEMA", "PG_INIT_USER"}

Disableable == {"EVENT_TIMESTAMP", "EVENT_TARGET", "EVENT_DESTINATION", "EVENT_OPTIONS",
                "DLQ_TABLE", "DEFAULT_PUBSUB_TOPIC", "DEFAULT_SQS_QUEUE_URL"}

Lists == {"PUBSUB_DESTINATIONS", "SQS_DESTINATIONS", "PG_PRODUCER_ROLES"}

\* Settings the configuration audit removed.
Retired == {"SQS_SEND_CONCURRENCY", "BACKLOG_COUNT_LIMIT", "ERROR_COOLDOWN_MS",
            "PUBLISH_RESULT_GRACE_MS", "WATCHDOG_INTERVAL_MS", "STATS_INTERVAL_MS",
            "PG_CONNECT_TIMEOUT_MS", "AWS_ROLE_DURATION_SECONDS",
            "AWS_CREDENTIAL_REFRESH_WINDOW_MS", "HEALTH_STALE_AFTER_MS", "NOTIFY_CHANNEL",
            "POLL_INTERVAL_MS"}

defaultConfig ==
    [EVENT_TABLE |-> "events", EVENT_ID |-> "id", EVENT_PAYLOAD |-> "payload",
     EVENT_TIMESTAMP |-> "timestamp", EVENT_TARGET |-> "target",
     EVENT_DESTINATION |-> "destination", EVENT_OPTIONS |-> "options", DLQ_TABLE |-> "",
     COLLECT_BATCH_TARGET |-> 10000, PUBLISH_TIMEOUT_MS |-> 30000, MAX_EVENT_AGE_MS |-> 0,
     PUBSUB_ENABLED |-> FALSE, DEFAULT_PUBSUB_TOPIC |-> "default", PUBSUB_DESTINATIONS |-> {},
     SQS_ENABLED |-> FALSE, DEFAULT_SQS_QUEUE_URL |-> "", SQS_DESTINATIONS |-> {},
     PG_SCHEMA |-> "public", PG_INIT_USER |-> "", PG_PRODUCER_ROLES |-> {}]

\* The flags' Set methods: which values they refuse, and what they store.
Accepts(setting, value) ==
    /\ setting \in Required \cup Disableable => value # ""
    /\ setting \in Lists => value # {}

Parse(setting, value) ==
    CASE setting \in Disableable /\ value = "disabled" -> ""
      [] setting \in Lists                             -> value \ {""}
      [] OTHER                                         -> value

\* Whether parsing succeeds: the environment goes through the same flags, first,
\* so a value of its that a flag refuses is an error even if the command line
\* overrides it.
Loads(env, cli) ==
    /\ DOMAIN env \cap Retired = {}
    /\ \A setting \in DOMAIN env : Accepts(setting, env[setting])
    /\ \A setting \in DOMAIN cli : Accepts(setting, cli[setting])

loadConfig(env, cli) ==
    [setting \in DOMAIN defaultConfig |->
        IF setting \in DOMAIN cli THEN Parse(setting, cli[setting])
        ELSE IF setting \in DOMAIN env THEN Parse(setting, env[setting])
        ELSE defaultConfig[setting]]
-----------------------------------------------------------------------------
(* The provider routes of a configuration.                                 *)

enabled(c) == {t \in Targets : IF t = "pubsub" THEN c.PUBSUB_ENABLED ELSE c.SQS_ENABLED}

defaultDestination(c, t) == IF t = "pubsub" THEN c.DEFAULT_PUBSUB_TOPIC ELSE c.DEFAULT_SQS_QUEUE_URL

ownedDestinations(c, t) == IF t = "pubsub" THEN c.PUBSUB_DESTINATIONS ELSE c.SQS_DESTINATIONS

Single(c) == Cardinality(enabled(c)) = 1
Only(c) == CHOOSE t \in enabled(c) : TRUE
-----------------------------------------------------------------------------
(* Validation: storage for both verbs, runtime for the relay.              *)

ColumnSettings == {"EVENT_ID", "EVENT_PAYLOAD", "EVENT_TARGET", "EVENT_DESTINATION",
                   "EVENT_TIMESTAMP", "EVENT_OPTIONS"}

validateStorage(c) ==
    /\ "" \notin {c.EVENT_TABLE, c.EVENT_ID, c.EVENT_PAYLOAD, c.PG_SCHEMA}
    /\ c.DLQ_TABLE # c.EVENT_TABLE
    /\ \A s, t \in ColumnSettings : s # t /\ c[s] # "" => c[s] # c[t]

\* Mutant: a provider may be left without any destination.
RuntimeWithoutDestination(c) ==
    /\ enabled(c) # {}
    /\ ~Single(c) => c.EVENT_TARGET # ""
    /\ \A t \in Targets \ enabled(c) : ownedDestinations(c, t) = {}
    /\ c.COLLECT_BATCH_TARGET > 0 /\ c.PUBLISH_TIMEOUT_MS > 0
    /\ c.MAX_EVENT_AGE_MS > 0 => c.EVENT_TIMESTAMP # ""

validateRuntime(c) ==
    /\ enabled(c) # {}
    /\ ~Single(c) => c.EVENT_TARGET # ""
    /\ \A t \in enabled(c) : defaultDestination(c, t) # "" \/ c.EVENT_DESTINATION # ""
    /\ \A t \in Targets \ enabled(c) : ownedDestinations(c, t) = {}
    /\ c.COLLECT_BATCH_TARGET > 0 /\ c.PUBLISH_TIMEOUT_MS > 0
    /\ c.MAX_EVENT_AGE_MS >= 0
    /\ c.MAX_EVENT_AGE_MS > 0 => c.EVENT_TIMESTAMP # ""

\* What init --apply and what the relay go on with, from the same sources.
InitConfigs(Envs, Clis) ==
    {c \in {loadConfig(p[1], p[2]) : p \in {q \in Envs \X Clis : Loads(q[1], q[2])}} :
        validateStorage(c)}

RelayConfigs(Envs, Clis) == {c \in InitConfigs(Envs, Clis) : validateRuntime(c)}
=============================================================================
