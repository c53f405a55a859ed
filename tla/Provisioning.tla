---------------------------- MODULE Provisioning ----------------------------
(***************************************************************************)
(* outboxer init --apply (init.go) and the schema checks the relay makes   *)
(* before it starts (db.go, dlq.go).  The catalog is a set of facts about  *)
(* the schema, the two tables, the notification function and trigger, the  *)
(* roles and their privileges.  An apply works in one transaction: it sees *)
(* the committed facts, less the ones it dropped, plus the ones it added.  *)
(* Several applies and the batch of a running relay meet in the locks they *)
(* take.  Each apply runs once, with some configuration of Configs.        *)
(***************************************************************************)
EXTENDS Config, Sequences

CONSTANTS
    Inits,       \* processes that run init --apply
    Configs,     \* configurations they may have loaded
    Databases,   \* catalogs they may find
    ShapeOf      \* metadata of the DLQ tables found, by name; "init" is init's own

ASSUME ProvisioningAssumption ==
    /\ \A c \in Configs : validateStorage(c)
    /\ "init" \notin DOMAIN ShapeOf

VARIABLES
    db,        \* the committed catalog
    phase,     \* of each apply: idle, applying, valid, done or failed
    cfg,       \* the configuration of each apply
    todo,      \* the statements it has still to execute
    added,     \* the facts its transaction added
    dropped,   \* the facts its transaction dropped
    batch      \* whether a relay's batch transaction holds rows of the event table

vars == <<db, phase, cfg, todo, added, dropped, batch>>

Run == "run"   \* PG_USER, the relay's role
-----------------------------------------------------------------------------
(* Facts: <<"role", r>>; <<"ddl", r>>, r may create schemas and tables;    *)
(* <<"owner", r, object>>; <<"grant", r, privilege, object>>;              *)
(* <<"column", name>> of the event table; <<"storage", whose>>, whose      *)
(* autovacuum settings it has; <<"shape", name>> of the DLQ table;         *)
(* <<"trigger", table>>.  Objects are the schema, the two tables, the      *)
(* function and the sequence a DLQ column may draw its default from.       *)

Roles(v) == {f[2] : f \in {g \in v : g[1] = "role"}}
Exists(v, object) == \E r \in Roles(v) : <<"owner", r, object>> \in v
Owns(v, r, object) == <<"owner", r, object>> \in v
May(v, r, privilege, object) == Owns(v, r, object) \/ <<"grant", r, privilege, object>> \in v
Uses(v, r) == May(v, r, "usage", "schema") \/ <<"ddl", r>> \in v
Columns(v) == {f[2] : f \in {g \in v : g[1] = "column"}}

\* PostgreSQL's GRANT: the owner grants; anyone else who holds a privilege on the
\* object gets a warning and nothing is granted; the others get an error.
Holds(v, r, object) ==
    \/ Owns(v, r, object)
    \/ \E f \in v : f[1] = "grant" /\ f[2] = r /\ f[4] = object
    \/ object = "schema" /\ <<"ddl", r>> \in v

Granted(v, r, object, facts) == IF Owns(v, r, object) THEN facts ELSE {}

\* An object has one owner, which is a role, and the DLQ table one definition.
Consistent(v) ==
    /\ \A f \in v : f[1] = "owner" => f[2] \in Roles(v) /\ f = <<"owner", f[2], f[3]>>
    /\ \A f, g \in v : f[1] = "owner" /\ g[1] = "owner" /\ f[3] = g[3] => f = g
    /\ \A f \in v : f[1] = "shape" => \E n \in DOMAIN ShapeOf \cup {"init"} : f = <<"shape", n>>
    /\ \A f, g \in v : f[1] = "shape" /\ g[1] = "shape" => f = g
    /\ Exists(v, "dlq") <=> \E n \in DOMAIN ShapeOf \cup {"init"} : <<"shape", n>> \in v

ASSUME CatalogAssumption == \A v \in Databases : Consistent(v)
-----------------------------------------------------------------------------
(* The statements, in order.                                               *)

\* The role an apply connects as.
connUser(c) == IF c.PG_INIT_USER # "" THEN c.PG_INIT_USER ELSE Run

When(condition, statements) == IF condition THEN statements ELSE <<>>

\* Mutant: the relay is granted what its statements seem to need.
GrantsWithoutUpdate(c) ==
    <<"grant_usage", "grant_select">> \o When(c.DLQ_TABLE # "", <<"grant_dlq">>)

runRoleGrantStatements(c) ==
    <<"grant_usage", "grant_select", "grant_update">> \o When(c.DLQ_TABLE # "", <<"grant_dlq">>)

buildInitStatements(c) ==
    LET manageRoles == c.PG_INIT_USER # ""
    IN  When(manageRoles, <<"role">>)
        \o <<"schema", "events", "storage">>
        \o When(c.DLQ_TABLE # "", <<"dlq">>)
        \o <<"function", "drop_trigger", "create_trigger">>
        \o When(manageRoles, runRoleGrantStatements(c)
                             \o When(c.PG_PRODUCER_ROLES # {}, <<"grant_producers">>))

createEventTable(c) ==
    {<<"owner", connUser(c), "events">>}
        \cup {<<"column", c[s]>> : s \in {t \in ColumnSettings : c[t] # ""}}

\* The facts a statement adds to view v.
Adds(s, c, v) ==
    LET me == connUser(c)
    IN  CASE s = "role"            -> {<<"role", Run>>}
          [] s = "schema"          -> IF Exists(v, s) THEN {} ELSE {<<"owner", me, s>>}
          [] s = "events"          -> IF Exists(v, s) THEN {} ELSE createEventTable(c)
          [] s = "storage"         -> {<<"storage", "init">>}
          [] s = "dlq"             -> IF Exists(v, s) THEN {}
                                      ELSE {<<"owner", me, s>>, <<"shape", "init">>}
          [] s = "function"        -> {<<"owner", me, s>>}
          [] s = "drop_trigger"    -> {}
          [] s = "create_trigger"  -> {<<"trigger", "events">>}
          [] s = "grant_usage"     -> Granted(v, me, "schema", {<<"grant", Run, "usage", "schema">>})
          [] s = "grant_select"    -> Granted(v, me, "events", {<<"grant", Run, p, "events">> :
                                                                    p \in {"select", "delete"}})
          [] s = "grant_update"    -> Granted(v, me, "events", {<<"grant", Run, "update", "events">>})
          [] s = "grant_dlq"       -> Granted(v, me, "dlq", {<<"grant", Run, "insert", "dlq">>})
          [] s = "grant_producers" ->
                Granted(v, me, "schema", {<<"grant", r, "usage", "schema">> : r \in c.PG_PRODUCER_ROLES})
                \cup Granted(v, me, "events", {<<"grant", r, p, "events">> :
                                    r \in c.PG_PRODUCER_ROLES, p \in {"select", "insert"}})

\* The facts it takes away: ALTER TABLE ... SET overwrites the settings it finds.
Drops(s) ==
    CASE s = "storage"      -> {<<"storage", "own">>}
      [] s = "drop_trigger" -> {<<"trigger", "events">>}
      [] OTHER              -> {}

\* Whether PostgreSQL lets the role execute it.
Permitted(s, c, v) ==
    LET me == connUser(c)
    IN  CASE s = "schema"          -> <<"ddl", me>> \in v
          [] s \in {"events", "dlq"} -> Exists(v, s) \/ <<"ddl", me>> \in v
          [] s \in {"storage", "drop_trigger", "create_trigger"} -> Owns(v, me, "events")
          [] s = "function"        -> Exists(v, s) => Owns(v, me, s)
          [] s = "grant_dlq"       -> Holds(v, me, "dlq")
          [] s = "grant_usage"     -> Holds(v, me, "schema")
          [] s = "grant_producers" -> Holds(v, me, "schema") /\ c.PG_PRODUCER_ROLES \subseteq Roles(v)
          [] OTHER                 -> TRUE
-----------------------------------------------------------------------------
(* The relay's own checks, which an apply repeats before it commits.       *)

validateEventColumns(c, columns) ==
    LET required == {c.EVENT_ID, c.EVENT_PAYLOAD}
                    \cup (IF c.MAX_EVENT_AGE_MS > 0 THEN {c.EVENT_TIMESTAMP} ELSE {})
                    \cup (IF Cardinality(enabled(c)) > 1 THEN {c.EVENT_TARGET} ELSE {})
                    \cup {c.EVENT_DESTINATION : t \in {u \in enabled(c) : defaultDestination(c, u) = ""}}
    IN  required \ {""} \subseteq columns

InitShape ==
    [relkind |-> "r", refuses |-> FALSE,
     columns |-> [id |-> [typeName |-> "int8", notNull |-> TRUE, value |-> "identity"],
                  event |-> [typeName |-> "jsonb", notNull |-> TRUE, value |-> "none"]]]

\* The definition of the DLQ table.  A column's value, when the insert omits it, is
\* a default, one drawn from a sequence (serial), an identity, generated, or none;
\* the table refuses the row for want of a partition, or by a constraint or policy.
Shape(v) ==
    LET name == CHOOSE n \in DOMAIN ShapeOf \cup {"init"} : <<"shape", n>> \in v
    IN  IF name = "init" THEN InitShape ELSE ShapeOf[name]

canOmitColumnFromInsert(column) == ~column.notNull \/ column.value # "none"

\* Mutant: only the columns the relay knows are looked at.
ValidatesKnownColumns(v, r) ==
    /\ Exists(v, "dlq")
    /\ Shape(v).relkind \in {"r", "p"}
    /\ May(v, r, "insert", "dlq")
    /\ {"id", "event"} \subseteq DOMAIN Shape(v).columns
    /\ canOmitColumnFromInsert(Shape(v).columns["id"])
    /\ Shape(v).columns["event"].value # "generated"
    /\ Shape(v).columns["event"].typeName \in {"json", "jsonb"}

\* With role r's privileges.
validateDLQTableMetadata(v, r) ==
    /\ Exists(v, "dlq")
    /\ Shape(v).relkind \in {"r", "p"}
    /\ May(v, r, "insert", "dlq")
    /\ {"id", "event"} \subseteq DOMAIN Shape(v).columns
    /\ Shape(v).columns["event"].value # "generated"
    /\ Shape(v).columns["event"].typeName \in {"json", "jsonb"}
    /\ \A n \in DOMAIN Shape(v).columns \ {"event"} :
          canOmitColumnFromInsert(Shape(v).columns[n])

validateProvisionedSchema(c, v) ==
    /\ validateEventColumns(c, Columns(v))
    /\ c.DLQ_TABLE # "" => validateDLQTableMetadata(v, connUser(c))

\* checkDBWorks and checkDLQWorks, as the relay's role.
StartupPasses(c, v) ==
    /\ Run \in Roles(v) /\ Uses(v, Run)
    /\ May(v, Run, "select", "events")
    /\ validateEventColumns(c, Columns(v))
    /\ c.DLQ_TABLE # "" => validateDLQTableMetadata(v, Run)
-----------------------------------------------------------------------------
(* An apply.                                                               *)

View(i) == (db \ dropped[i]) \cup added[i]

Open(i) == phase[i] \in {"applying", "valid"}

\* A statement waits for another apply's uncommitted object of the same name and
\* for its lock on the event table (ALTER TABLE takes it, until the end); DROP
\* TRIGGER excludes the row locks of a batch.
Blocked(i) ==
    LET s == Head(todo[i])
    IN  \/ \E j \in Inits \ {i} : Open(j) /\
              \/ \E f \in Adds(s, cfg[i], View(i)), g \in added[j] :
                    f[1] = g[1] /\ f[1] \in {"role", "owner"} /\ f[Len(f)] = g[Len(g)]
              \/ s = "storage" /\ "storage" \notin {todo[j][k] : k \in DOMAIN todo[j]}
        \/ s = "drop_trigger" /\ batch

Init ==
    /\ db \in Databases
    /\ phase = [i \in Inits |-> "idle"]
    /\ cfg = [i \in Inits |-> defaultConfig]
    /\ todo = [i \in Inits |-> <<>>]
    /\ added = [i \in Inits |-> {}]
    /\ dropped = [i \in Inits |-> {}]
    /\ batch = FALSE

Begin(i, c) ==
    /\ phase[i] = "idle"
    /\ <<"role", connUser(c)>> \in db
    /\ phase' = [phase EXCEPT ![i] = "applying"]
    /\ cfg' = [cfg EXCEPT ![i] = c]
    /\ todo' = [todo EXCEPT ![i] = buildInitStatements(c)]
    /\ UNCHANGED <<db, added, dropped, batch>>

Rollback(i) ==
    /\ phase' = [phase EXCEPT ![i] = "failed"]
    /\ todo' = [todo EXCEPT ![i] = <<>>]
    /\ added' = [added EXCEPT ![i] = {}]
    /\ dropped' = [dropped EXCEPT ![i] = {}]
    /\ UNCHANGED <<db, cfg, batch>>

\* Mutant: the statements are executed one by one, without a transaction.
ExecuteAlone(i) ==
    /\ phase[i] = "applying" /\ todo[i] # <<>> /\ ~Blocked(i)
    /\ Permitted(Head(todo[i]), cfg[i], db)
    /\ db' = (db \ Drops(Head(todo[i]))) \cup Adds(Head(todo[i]), cfg[i], db)
    /\ todo' = [todo EXCEPT ![i] = Tail(@)]
    /\ UNCHANGED <<phase, cfg, added, dropped, batch>>

Execute(i) ==
    /\ phase[i] = "applying" /\ todo[i] # <<>> /\ ~Blocked(i)
    /\ LET s == Head(todo[i])
       IN  IF ~Permitted(s, cfg[i], View(i)) THEN Rollback(i)
           ELSE /\ todo' = [todo EXCEPT ![i] = Tail(@)]
                /\ added' = [added EXCEPT ![i] = @ \cup (Adds(s, cfg[i], View(i)) \ View(i))]
                /\ dropped' = [dropped EXCEPT ![i] = @ \cup Drops(s)]
                /\ UNCHANGED <<db, phase, cfg, batch>>

\* Mutant: the wait for a lock has no bound.
WaitOn(i) == FALSE /\ Rollback(i)

\* execInitStatement: a statement that waits is cancelled after PG_QUERY_TIMEOUT.
TimeOut(i) == phase[i] = "applying" /\ todo[i] # <<>> /\ Blocked(i) /\ Rollback(i)

\* The connection is lost, or the process is stopped.
Abort(i) == Open(i) /\ Rollback(i)

Validate(i) ==
    /\ phase[i] = "applying" /\ todo[i] = <<>>
    /\ IF validateProvisionedSchema(cfg[i], View(i))
       THEN phase' = [phase EXCEPT ![i] = "valid"] /\ UNCHANGED <<db, cfg, todo, added, dropped, batch>>
       ELSE Rollback(i)

\* The commit may succeed and its answer get lost: the apply then reports failure.
Commit(i) ==
    /\ phase[i] = "valid"
    /\ db' = View(i)
    /\ \E outcome \in {"done", "failed"} : phase' = [phase EXCEPT ![i] = outcome]
    /\ UNCHANGED <<cfg, todo, added, dropped, batch>>

\* A relay's batch locks rows of the event table until it ends, unless an apply
\* has the table to itself.
BeginBatch ==
    /\ ~batch /\ Exists(db, "events")
    /\ \A i \in Inits : Open(i) => <<"trigger", "events">> \notin dropped[i]
    /\ batch' = TRUE
    /\ UNCHANGED <<db, phase, cfg, todo, added, dropped>>

EndBatch ==
    /\ batch
    /\ batch' = FALSE
    /\ UNCHANGED <<db, phase, cfg, todo, added, dropped>>

Next ==
    \/ \E i \in Inits :
          \/ \E c \in Configs : Begin(i, c)
          \/ Execute(i) \/ TimeOut(i) \/ Abort(i) \/ Validate(i) \/ Commit(i)
    \/ BeginBatch \/ EndBatch

\* An apply goes on: its statement executes or times out, its transaction commits.
Fairness ==
    \A i \in Inits : WF_vars(Execute(i) \/ TimeOut(i)) /\ WF_vars(Validate(i)) /\ WF_vars(Commit(i))

Spec == Init /\ [][Next]_vars /\ Fairness
-----------------------------------------------------------------------------
(* What the relay needs once it runs, from its statements.                 *)

\* selectEventsQuerySQL names the id and the configured target and destination
\* columns; FOR UPDATE needs an UPDATE privilege; deleteEvents needs DELETE.
BatchWorks(c, v) ==
    /\ {c.EVENT_ID, c.EVENT_TARGET, c.EVENT_DESTINATION} \ {""} \subseteq Columns(v)
    /\ \A privilege \in {"select", "update", "delete"} : May(v, Run, privilege, "events")

\* What the INSERT meets that the metadata do not show: the default of a column it
\* leaves out draws from a sequence the role may not use, or the table refuses the row.
Unchecked(v) ==
    /\ Exists(v, "dlq")
    /\ \/ Shape(v).refuses
       \/ /\ \E n \in DOMAIN Shape(v).columns \ {"event"} : Shape(v).columns[n].value = "sequence"
          /\ ~Owns(v, Run, "dlq") /\ ~May(v, Run, "usage", "sequence")

\* insertDeadLetters: INSERT INTO dlq (event) SELECT jsonb.  Columns it leaves out
\* take their default, identity or generated value, or NULL.
DeadLetterWorks(v) ==
    LET columns == Shape(v).columns
    IN  /\ Exists(v, "dlq") /\ May(v, Run, "insert", "dlq") /\ Shape(v).relkind \in {"r", "p"}
        /\ "event" \in DOMAIN columns /\ columns["event"].typeName \in {"json", "jsonb"}
        /\ columns["event"].value # "generated"
        /\ \A n \in DOMAIN columns \ {"event"} : columns[n].notNull => columns[n].value # "none"
        /\ ~Unchecked(v)

Ready(c, v) ==
    /\ StartupPasses(c, v) /\ BatchWorks(c, v)
    /\ c.DLQ_TABLE # "" => DeadLetterWorks(v)

\* The objects an apply with configuration c works on belong to its role.
OwnsAll(c) ==
    \A object \in {"schema", "events"} \cup (IF c.DLQ_TABLE # "" THEN {"dlq"} ELSE {}) :
        Owns(db, connUser(c), object)

\* specs/init_requirements.md, the binding invariant: where init created the
\* event table (and its role owns the rest, of which a DLQ table found there has
\* nothing the check does not see), a relay with the same configuration passes its
\* startup checks, can select, lock, delete and dead-letter, and is woken by the
\* trigger, then and after whatever other applies do, succeed or fail.
RoundTrip ==
    \A i \in Inits :
        /\ phase[i] = "done" /\ validateRuntime(cfg[i]) /\ OwnsAll(cfg[i])
        /\ <<"owner", connUser(cfg[i]), "events">> \in added[i]
        /\ cfg[i].DLQ_TABLE # "" => ~Unchecked(db)
        => Ready(cfg[i], db) /\ <<"trigger", "events">> \in db

\* A relay with a DLQ table passes its startup checks.
Starts(v) == \E c \in Configs : c.DLQ_TABLE # "" /\ StartupPasses(c, v)

\* checkDLQWorks against insertDeadLetters: a relay that starts can write its dead
\* letters, and goes on to be able to through every apply that follows; otherwise
\* one poison event would roll every batch back.  What the check does not look at
\* it lets pass: those tables are the exception.
StartupMeansWritable ==
    [][DeadLetterWorks(db) \/ (~Unchecked(db) /\ Starts(db)) => DeadLetterWorks(db')]_vars

\* INIT-IDEM-02 and 05 (init.go): no apply, complete, failed or concurrent with
\* another, ever takes a committed column, privilege or trigger away, not even
\* between DROP TRIGGER and CREATE TRIGGER.  Not so the autovacuum settings of an
\* event table found there: ALTER TABLE overwrites them, though
\* specs/init_requirements.md:270 has init leave the tables alone.
NonDestructive == [][db \ db' \subseteq {<<"storage", "own">>}]_vars

\* execInitStatement: an apply ends, committed or rolled back, even while a relay's
\* batch or another apply keeps the event table.
ApplyEnds == \A i \in Inits : Open(i) ~> phase[i] \in {"done", "failed"}

\* specs/init_scenarios.md, INIT-IDEM-06: "a successful apply guarantees a
\* relay-ready schema, never a deferred surprise".
NoDeferredSurprise ==
    \A i \in Inits : phase[i] = "done" /\ validateRuntime(cfg[i]) => Ready(cfg[i], db)
=============================================================================
