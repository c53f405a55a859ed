--------------------------- MODULE MCProvisioning ---------------------------
EXTENDS Selection, TLC

CONSTANT MaxRows    \* bound on the rows of the tables the select is run on

\* A setting left alone or given one of some values, and all combinations of two
\* such choices.
Left(setting, values) == {<<>>} \cup {setting :> v : v \in values}
a ** b == {f @@ g : f \in a, g \in b}

\* What the applies load: one provider, with and without a DLQ table, an init role
\* and producers; two providers, no target column or another payload column with a
\* DLQ table.
Provisions ==
    LET base == {[PUBSUB_ENABLED |-> TRUE]}
        roles == Left("PG_INIT_USER", {"admin"})
    IN  InitConfigs(base, Left("DLQ_TABLE", {"dead", "events"}) ** roles
                              \cup {[PG_INIT_USER |-> "admin", PG_PRODUCER_ROLES |-> {"app", ""}]})
        \cup InitConfigs(base ** (Left("SQS_ENABLED", {TRUE}) \cup Left("EVENT_TARGET", {"disabled"})
                                       \cup Left("EVENT_PAYLOAD", {"", "body"})),
                         {[DLQ_TABLE |-> "dead"]} ** roles)

\* A schema and an event table as the docs' minimal one, for the relay's role to use.
HandMade ==
    {<<"role", "dba">>, <<"role", "app">>, <<"role", Run>>, <<"owner", "dba", "schema">>,
     <<"owner", "admin", "events">>, <<"grant", Run, "usage", "schema">>,
     <<"column", "id">>, <<"column", "payload">>, <<"storage", "own">>}

Admin == {<<"role", "admin">>, <<"ddl", "admin">>}

\* A DLQ table of the dba's, with this shape, that the listed roles may write.
DLQ(shape, writers) ==
    {<<"owner", "dba", "dlq">>, <<"shape", shape>>} \cup {<<"grant", r, "insert", "dlq">> : r \in writers}

Catalogs ==
    {Admin,                                              \* a fresh database
     Admin \cup {<<"role", Run>>, <<"ddl", Run>>},       \* one user for everything
     Admin \cup HandMade,
     Admin \cup HandMade \cup DLQ("audited", {Run, "admin"}),
     Admin \cup HandMade \cup DLQ("plain", {"admin"}),
     Admin \cup HandMade \cup DLQ("serial", {Run, "admin"}),
     Admin \cup HandMade \cup DLQ("serial", {Run, "admin"}) \cup {<<"grant", Run, "usage", "sequence">>},
     Admin \cup HandMade \cup DLQ("empty", {Run, "admin"})}

Minimal == {Admin \cup HandMade}

Column(type, notNull, value) == [typeName |-> type, notNull |-> notNull, value |-> value]

\* An ordinary or partitioned table with the usual columns.
Table(relkind, refuses, id, event) ==
    [relkind |-> relkind, refuses |-> refuses,
     columns |-> [id |-> Column("int8", TRUE, id), event |-> event]]

Shapes ==
    [plain   |-> Table("p", FALSE, "default", Column("json", FALSE, "none")),
     serial  |-> Table("r", FALSE, "sequence", Column("jsonb", TRUE, "none")),
     empty   |-> Table("p", TRUE, "identity", Column("jsonb", TRUE, "none")),   \* no partition
     audited |-> [relkind |-> "r", refuses |-> FALSE,
                  columns |-> [id |-> Column("int8", TRUE, "identity"),
                               event |-> Column("jsonb", TRUE, "none"),
                               source |-> Column("text", TRUE, "none")]]]
-----------------------------------------------------------------------------
\* The relays: every combination of columns, providers, defaults and lists that
\* loads and passes the validation.
MCRelays ==
    RelayConfigs(
        {[COLLECT_BATCH_TARGET |-> 1]}
            ** Left("EVENT_TARGET", {"disabled"}) ** Left("EVENT_DESTINATION", {"disabled"})
            ** Left("PUBSUB_ENABLED", {TRUE}) ** Left("SQS_ENABLED", {TRUE}),
        Left("DEFAULT_PUBSUB_TOPIC", {"disabled", "other"})
            ** Left("DEFAULT_SQS_QUEUE_URL", {"default", "other"})
            ** Left("PUBSUB_DESTINATIONS", {{"default"}, {"other"}, {""}})
            ** Left("SQS_DESTINATIONS", {{"default"}, {"other"}, {"default", "other"}}))

MCTables == UNION {[1..n -> Rows] : n \in 0..MaxRows}
=============================================================================
