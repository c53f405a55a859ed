------------------------- MODULE Provisioning_proofs -------------------------
(***************************************************************************)
(* init --apply, for any number of concurrent applies, of configurations   *)
(* and of catalogs they may find: nothing committed is taken away, and     *)
(* where init made the event table the relay can start and work.  Then the *)
(* collection query, for every relay that runs there, row and table: it    *)
(* computes the routing classification.                                    *)
(***************************************************************************)
EXTENDS Selection, SequenceTheorems, FiniteSetTheorems, TLAPS

Creates == {"schema", "events", "dlq"}
Grants == {"grant_usage", "grant_select", "grant_update", "grant_dlq", "grant_producers"}
Statements == {"role", "storage", "function", "drop_trigger", "create_trigger"} \cup Creates \cup Grants

Trigger == <<"trigger", "events">>

\* Autovacuum settings of the event table that are not init's.
Settings == <<"storage", "own">>

\* What each statement grants the relay's role, and on which object.
RunGrants == {<<"grant_usage", "usage", "schema">>, <<"grant_select", "select", "events">>,
              <<"grant_select", "delete", "events">>, <<"grant_update", "update", "events">>,
              <<"grant_dlq", "insert", "dlq">>}

\* A list of n statements restores the trigger right after it drops it, and grants
\* only when everything is created.
InOrder(s, n) ==
    /\ \A k \in 1..n : s[k] = "drop_trigger" => k < n /\ s[k + 1] = "create_trigger"
    /\ \A k, m \in 1..n : k < m /\ s[k] \in Grants => s[m] \in Grants

Planned(s) == s \in Seq(Statements) /\ InOrder(s, Len(s))

Members(s) == {s[k] : k \in 1..Len(s)}

\* What an apply's transaction sees, but for what it has dropped.
Known(i) == db \cup added[i]

Managed(c) == c.PG_INIT_USER # ""

Plans ==
    \A i \in Inits :
        /\ Planned(todo[i])
        /\ phase[i] # "applying" => todo[i] = <<>>
        /\ ~Open(i) => added[i] \subseteq db
        /\ phase[i] = "idle" => added[i] = {}

\* A dropped trigger is back when the next statement is done; an apply that has come
\* so far has dropped it; settings of others are not brought back.
Triggers ==
    \A i \in Inits :
        /\ dropped[i] \subseteq {Trigger, Settings}
        /\ Settings \notin added[i]
        /\ Trigger \in dropped[i] =>
              Trigger \in added[i] \/ (todo[i] # <<>> /\ Head(todo[i]) = "create_trigger")
        /\ Open(i) /\ "drop_trigger" \notin Members(todo[i]) => Trigger \in dropped[i]
        /\ phase[i] = "done" => Trigger \in db

Views == Consistent(db) /\ \A i \in Inits : Consistent(Known(i))

\* No two applies under way create the same object.
Separate ==
    \A i, j \in Inits : i # j /\ Open(i) /\ Open(j) =>
        \A f \in added[i], g \in added[j] : f[1] = "owner" /\ g[1] = "owner" => f[3] # g[3]

\* A DLQ table is made with its definition.
Defined ==
    \A i \in Inits : \A f \in added[i] :
        f[1] = "shape" => f = <<"shape", "init">> /\ <<"owner", connUser(cfg[i]), "dlq">> \in added[i]

\* What the executed statements have brought about.  A grant is left out only where the
\* object has another owner.
Effects(i) ==
    LET c == cfg[i]
        me == connUser(c)
        executed == Statements \ Members(todo[i])
    IN  /\ me \in Roles(Known(i))
        /\ Managed(c) /\ "role" \in executed => Run \in Roles(Known(i))
        /\ \A o \in Creates \cap executed : (o = "dlq" => c.DLQ_TABLE # "") => Exists(Known(i), o)
        /\ <<"owner", me, "events">> \in added[i] => createEventTable(c) \subseteq Known(i)
        /\ \A g \in RunGrants :
              Managed(c) /\ g[1] \in executed /\ (g[3] = "dlq" => c.DLQ_TABLE # "") =>
                 \/ <<"grant", Run, g[2], g[3]>> \in Known(i)
                 \/ \E f \in Known(i) : f[1] = "owner" /\ f[3] = g[3] /\ f[2] # me

\* The definition of a DLQ table called n, and whether an insert of the event works.
Named(n) == IF n = "init" THEN InitShape ELSE ShapeOf[n]

Insertable(shape) ==
    /\ shape.relkind \in {"r", "p"}
    /\ {"id", "event"} \subseteq DOMAIN shape.columns
    /\ shape.columns["event"].value # "generated"
    /\ shape.columns["event"].typeName \in {"json", "jsonb"}
    /\ \A n \in DOMAIN shape.columns \ {"event"} : canOmitColumnFromInsert(shape.columns[n])

\* What an apply has validated.
Checked(i) ==
    /\ validateEventColumns(cfg[i], Columns(Known(i)))
    /\ cfg[i].DLQ_TABLE # "" =>
          \E n \in DOMAIN ShapeOf \cup {"init"} : <<"shape", n>> \in Known(i) /\ Insertable(Named(n))

Outcomes ==
    \A i \in Inits :
        /\ phase[i] \in {"applying", "valid", "done"} => Effects(i)
        /\ phase[i] \in {"valid", "done"} => Checked(i)

TypeOK ==
    /\ phase \in [Inits -> {"idle", "applying", "valid", "done", "failed"}]
    /\ DOMAIN cfg = Inits
    /\ DOMAIN todo = Inits
    /\ DOMAIN added = Inits
    /\ DOMAIN dropped = Inits

IInv ==
    /\ TypeOK
    /\ Plans
    /\ Triggers
    /\ Views
    /\ Separate
    /\ Defined
    /\ Outcomes
-----------------------------------------------------------------------------
(* The list of statements.                                                 *)

\* A part that comes before grants has none itself.
LEMMA SplicedInOrder ==
    ASSUME NEW p \in Nat, NEW q \in Nat, NEW s, NEW t, NEW u, InOrder(s, p), InOrder(t, q),
           \A k \in 1..(p + q) : u[k] = IF k <= p THEN s[k] ELSE t[k - p],
           (\A k \in 1..p : s[k] \notin Grants) \/ (\A k \in 1..q : t[k] \in Grants)
    PROVE  InOrder(u, p + q)
<1>1. ASSUME NEW k \in 1..(p + q), u[k] = "drop_trigger"
      PROVE  k < p + q /\ u[k + 1] = "create_trigger"
  <2>1. CASE k <= p
    BY <1>1, <2>1 DEF InOrder
  <2>2. CASE ~(k <= p)
    BY <1>1, <2>2 DEF InOrder
  <2>. QED  BY <2>1, <2>2
<1>2. ASSUME NEW k \in 1..(p + q), NEW m \in 1..(p + q), k < m, u[k] \in Grants
      PROVE  u[m] \in Grants
  BY <1>2 DEF InOrder
<1>. QED  BY <1>1, <1>2 DEF InOrder

\* The same of two lists, one appended to the other.
LEMMA ConcatPlanned ==
    ASSUME NEW s, NEW t, Planned(s), Planned(t),
           Members(s) \cap Grants = {} \/ Members(t) \subseteq Grants
    PROVE  Planned(s \o t) /\ Members(s \o t) = Members(s) \cup Members(t)
<1>1. s \in Seq(Statements) /\ t \in Seq(Statements) /\ Len(s) \in Nat /\ Len(t) \in Nat
  BY LenProperties DEF Planned
<1>2. /\ s \o t \in Seq(Statements)
      /\ Len(s \o t) = Len(s) + Len(t)
      /\ \A k \in 1..(Len(s) + Len(t)) : (s \o t)[k] = IF k <= Len(s) THEN s[k] ELSE t[k - Len(s)]
  BY <1>1, ConcatProperties
<1>3. Members(s \o t) = Members(s) \cup Members(t)
  <2>1. ASSUME NEW k \in 1..Len(s) PROVE s[k] = (s \o t)[k] /\ k \in 1..Len(s \o t)
    BY <1>1, <1>2
  <2>2. ASSUME NEW k \in 1..Len(t)
        PROVE  t[k] = (s \o t)[k + Len(s)] /\ k + Len(s) \in 1..Len(s \o t)
    BY <1>1, <1>2
  <2>3. ASSUME NEW k \in 1..Len(s \o t)
        PROVE  \/ k \in 1..Len(s) /\ (s \o t)[k] = s[k]
               \/ k - Len(s) \in 1..Len(t) /\ (s \o t)[k] = t[k - Len(s)]
    BY <1>1, <1>2
  <2>. QED  BY <2>1, <2>2, <2>3 DEF Members
<1>4. (\A k \in 1..Len(s) : s[k] \notin Grants) \/ (\A k \in 1..Len(t) : t[k] \in Grants)
  BY DEF Members
<1>5. InOrder(s, Len(s)) /\ InOrder(t, Len(t))
  BY DEF Planned
<1>6. InOrder(s \o t, Len(s) + Len(t))
  BY <1>1, <1>2, <1>4, <1>5, SplicedInOrder
<1>. QED  BY <1>2, <1>3, <1>6 DEF Planned

\* A list of one statement, which is not the one that drops the trigger.
LEMMA SinglePlanned ==
    ASSUME NEW x \in Statements \ {"drop_trigger"}
    PROVE  Planned(<<x>>) /\ Members(<<x>>) = {x}
<1>1. <<x>> \in Seq(Statements) /\ Len(<<x>>) = 1
  OBVIOUS
<1>2. \A k \in 1..1 : k = 1
  OBVIOUS
<1>. QED  BY <1>1, <1>2 DEF Planned, InOrder, Members

\* A list of three that is in order.
LEMMA TriplePlanned ==
    ASSUME NEW x \in Statements, NEW y \in Statements, NEW z \in Statements,
           x # "drop_trigger" \/ y = "create_trigger", y # "drop_trigger" \/ z = "create_trigger",
           z # "drop_trigger", {x, y, z} \cap Grants = {} \/ {x, y, z} \subseteq Grants
    PROVE  Planned(<<x, y, z>>) /\ Members(<<x, y, z>>) = {x, y, z}
<1>1. <<x, y, z>> \in Seq(Statements) /\ Len(<<x, y, z>>) = 3
  OBVIOUS
<1>2. \A k \in 1..3 : k = 1 \/ k = 2 \/ k = 3
  OBVIOUS
<1>3. <<x, y, z>>[1] = x /\ <<x, y, z>>[2] = y /\ <<x, y, z>>[3] = z
  OBVIOUS
<1>4. Members(<<x, y, z>>) = {x, y, z}
  BY <1>1, <1>2, <1>3 DEF Members
<1>5. InOrder(<<x, y, z>>, 3)
  BY <1>2, <1>3 DEF InOrder
<1>. QED  BY <1>1, <1>4, <1>5 DEF Planned

\* buildInitStatements: DROP TRIGGER is followed by CREATE TRIGGER, and the grants come last;
\* what the configuration calls for is in the list.
LEMMA BuildPlanned ==
    ASSUME NEW c
    PROVE  /\ Planned(buildInitStatements(c))
           /\ {"schema", "events", "drop_trigger"} \subseteq Members(buildInitStatements(c))
           /\ c.DLQ_TABLE # "" => "dlq" \in Members(buildInitStatements(c))
           /\ Managed(c) => {"role", "grant_usage", "grant_select", "grant_update"}
                                 \subseteq Members(buildInitStatements(c))
           /\ Managed(c) /\ c.DLQ_TABLE # "" => "grant_dlq" \in Members(buildInitStatements(c))
<1>. DEFINE first == When(Managed(c), <<"role">>)
            tables == <<"schema", "events", "storage">>
            dlq == When(c.DLQ_TABLE # "", <<"dlq">>)
            notify == <<"function", "drop_trigger", "create_trigger">>
            run == <<"grant_usage", "grant_select", "grant_update">>
            runDlq == When(c.DLQ_TABLE # "", <<"grant_dlq">>)
            producers == When(c.PG_PRODUCER_ROLES # {}, <<"grant_producers">>)
            grants == When(Managed(c), (run \o runDlq) \o producers)
<1>. USE DEF When, Statements, Creates, Grants
<1>1. Planned(<<>>) /\ Members(<<>>) = {}
  <2>1. <<>> \in Seq(Statements) /\ Len(<<>>) = 0
    OBVIOUS
  <2>. QED  BY <2>1 DEF Planned, InOrder, Members
<1>2. \A x \in Statements \ {"drop_trigger"} : Planned(<<x>>) /\ Members(<<x>>) = {x}
  BY SinglePlanned
<1>3. Planned(tables) /\ Members(tables) = {"schema", "events", "storage"}
  BY TriplePlanned
<1>4. Planned(notify) /\ Members(notify) = {"function", "drop_trigger", "create_trigger"}
  BY TriplePlanned
<1>5. Planned(run) /\ Members(run) = {"grant_usage", "grant_select", "grant_update"}
  BY TriplePlanned
<1>6. Planned(first) /\ Members(first) = IF Managed(c) THEN {"role"} ELSE {}
  BY <1>1, <1>2
<1>7. Planned(dlq) /\ Members(dlq) = IF c.DLQ_TABLE # "" THEN {"dlq"} ELSE {}
  BY <1>1, <1>2
<1>8. Planned(runDlq) /\ Members(runDlq) = IF c.DLQ_TABLE # "" THEN {"grant_dlq"} ELSE {}
  BY <1>1, <1>2
<1>9. Planned(producers) /\ Members(producers) \subseteq {"grant_producers"}
  BY <1>1, <1>2
<1>. HIDE DEF first, tables, dlq, notify, run, runDlq, producers
<1>10. Planned(run \o runDlq) /\ Members(run \o runDlq) = Members(run) \cup Members(runDlq)
  BY <1>5, <1>8, ConcatPlanned
<1>11. /\ Planned((run \o runDlq) \o producers)
       /\ Members((run \o runDlq) \o producers) = Members(run) \cup Members(runDlq) \cup Members(producers)
  BY <1>9, <1>10, ConcatPlanned
<1>12. /\ Planned(grants)
       /\ Members(grants) \subseteq Grants
       /\ Managed(c) => Members(run) \cup Members(runDlq) \subseteq Members(grants)
  BY <1>1, <1>5, <1>8, <1>9, <1>11
<1>13. Planned(first \o tables) /\ Members(first \o tables) = Members(first) \cup Members(tables)
  BY <1>3, <1>6, ConcatPlanned
<1>14. /\ Planned((first \o tables) \o dlq)
       /\ Members((first \o tables) \o dlq) = Members(first) \cup Members(tables) \cup Members(dlq)
  <2>1. Members(first \o tables) \cap Grants = {}
    BY <1>3, <1>6, <1>13
  <2>. QED  BY <1>7, <1>13, <2>1, ConcatPlanned
<1>15. /\ Planned(((first \o tables) \o dlq) \o notify)
       /\ Members(((first \o tables) \o dlq) \o notify) =
             Members(first) \cup Members(tables) \cup Members(dlq) \cup Members(notify)
  <2>1. Members((first \o tables) \o dlq) \cap Grants = {}
    BY <1>3, <1>6, <1>7, <1>14
  <2>. QED  BY <1>4, <1>14, <2>1, ConcatPlanned
<1>16. /\ Planned((((first \o tables) \o dlq) \o notify) \o grants)
       /\ Members((((first \o tables) \o dlq) \o notify) \o grants) =
             Members(first) \cup Members(tables) \cup Members(dlq) \cup Members(notify) \cup Members(grants)
  BY <1>12, <1>15, ConcatPlanned
<1>17. buildInitStatements(c) = (((first \o tables) \o dlq) \o notify) \o grants
  BY Zenon DEF buildInitStatements, runRoleGrantStatements, first, tables, dlq, notify, run, runDlq,
               producers, Managed
<1>. QED  BY <1>3, <1>4, <1>5, <1>6, <1>7, <1>8, <1>12, <1>16, <1>17

\* What is left of a list in order is in order.
LEMMA TailInOrder ==
    ASSUME NEW n \in Nat \ {0}, NEW s, NEW u, InOrder(s, n), \A k \in 1..(n - 1) : u[k] = s[k + 1]
    PROVE  InOrder(u, n - 1)
BY DEF InOrder

\* An apply works its list off from the head.
LEMMA TailPlanned ==
    ASSUME NEW s, Planned(s), s # <<>>
    PROVE  /\ Planned(Tail(s))
           /\ Head(s) \in Statements
           /\ Members(s) = Members(Tail(s)) \cup {Head(s)}
           /\ Head(s) = "drop_trigger" => Tail(s) # <<>> /\ Head(Tail(s)) = "create_trigger"
           /\ Head(s) \in Grants => Members(s) \subseteq Grants
<1>1. /\ s \in Seq(Statements) /\ Len(s) \in Nat /\ Len(s) > 0
      /\ Head(s) = s[1]
  BY DEF Planned
<1>2. /\ Head(s) \in Statements
      /\ Tail(s) \in Seq(Statements) /\ Len(Tail(s)) = Len(s) - 1
      /\ \A k \in 1..Len(Tail(s)) : Tail(s)[k] = s[k + 1]
  BY <1>1, HeadTailProperties
<1>3. Members(s) = Members(Tail(s)) \cup {Head(s)}
  <2>1. \A k \in 1..Len(s) : k = 1 \/ (k - 1 \in 1..Len(Tail(s)) /\ Tail(s)[k - 1] = s[k])
    BY <1>1, <1>2
  <2>2. 1 \in 1..Len(s) /\ \A k \in 1..Len(Tail(s)) : k + 1 \in 1..Len(s)
    BY <1>1, <1>2
  <2>. QED  BY <1>1, <1>2, <2>1, <2>2 DEF Members
<1>4. InOrder(s, Len(s))
  BY DEF Planned
<1>5. InOrder(Tail(s), Len(Tail(s)))
  <2>1. Len(s) \in Nat \ {0} /\ \A k \in 1..(Len(s) - 1) : Tail(s)[k] = s[k + 1]
    BY <1>1, <1>2
  <2>2. InOrder(Tail(s), Len(s) - 1)
    BY <1>4, <2>1, TailInOrder, Zenon
  <2>. QED  BY <1>2, <2>2
<1>6. Head(s) = "drop_trigger" => Tail(s) # <<>> /\ Head(Tail(s)) = "create_trigger"
  <2>. SUFFICES ASSUME Head(s) = "drop_trigger"
                PROVE  Tail(s) # <<>> /\ Head(Tail(s)) = "create_trigger"
    OBVIOUS
  <2>1. 1 < Len(s) /\ s[1 + 1] = "create_trigger"
    BY <1>1, <1>4 DEF InOrder
  <2>2. Len(Tail(s)) \in Nat /\ Len(Tail(s)) > 0 /\ Tail(s)[1] = "create_trigger"
    BY <1>1, <1>2, <2>1
  <2>3. Tail(s) # <<>>
    BY <2>2
  <2>. QED  BY <1>2, <2>2, <2>3
<1>7. Head(s) \in Grants => Members(s) \subseteq Grants
  <2>. SUFFICES ASSUME s[1] \in Grants, NEW k \in 1..Len(s) PROVE s[k] \in Grants
    BY <1>1 DEF Members
  <2>1. 1 \in 1..Len(s) /\ (k = 1 \/ 1 < k)
    BY <1>1
  <2>. QED  BY <1>4, <2>1 DEF InOrder
<1>. QED  BY <1>2, <1>3, <1>5, <1>6, <1>7 DEF Planned

-----------------------------------------------------------------------------
(* Facts.                                                                  *)

\* Whatever is there stays there when facts are added and settings changed.
LEMMA Grows ==
    ASSUME NEW v, NEW w, \A f \in v : f \in w \/ f = Settings
    PROVE  /\ Roles(v) \subseteq Roles(w)
           /\ Columns(v) \subseteq Columns(w)
           /\ \A o : Exists(v, o) => Exists(w, o)
<1>1. \A f \in v : f[1] # "storage" => f \in w
  BY DEF Settings
<1>2. Roles(v) \subseteq Roles(w) /\ Columns(v) \subseteq Columns(w)
  BY <1>1 DEF Roles, Columns
<1>3. \A r, o : <<"owner", r, o>>[1] # "storage"
  OBVIOUS
<1>. QED  BY <1>1, <1>2, <1>3 DEF Exists

\* Settings of the event table are in no object's way.
LEMMA SettingsApart ==
    ASSUME NEW v, NEW w, Consistent(v), w \subseteq v, \A f \in v : f \in w \/ f = Settings
    PROVE  Consistent(w)
<1>1. \A f \in v : f[1] # "storage" => f \in w
  BY DEF Settings
<1>2. Roles(v) = Roles(w)
  BY <1>1 DEF Roles
<1>3. \A r, n : <<"owner", r, n>>[1] # "storage" /\ <<"shape", n>>[1] # "storage"
  OBVIOUS
<1>4. \A o : Exists(v, o) <=> Exists(w, o)
  BY <1>1, <1>2, <1>3 DEF Exists
<1>5. \A n : <<"shape", n>> \in v <=> <<"shape", n>> \in w
  BY <1>1, <1>3
<1>. QED  BY <1>2, <1>4, <1>5 DEF Consistent

\* An apply's view lacks at most the trigger and the settings it dropped.
LEMMA ViewKnown ==
    ASSUME NEW i \in Inits, dropped[i] \subseteq {Trigger, Settings}
    PROVE  /\ View(i) \subseteq Known(i)
           /\ \A f \in Known(i) : f[1] \notin {"trigger", "storage"} => f \in View(i)
           /\ Roles(View(i)) = Roles(Known(i))
           /\ Columns(View(i)) = Columns(Known(i))
           /\ \A o : Exists(View(i), o) <=> Exists(Known(i), o)
           /\ \A r, o : Owns(View(i), r, o) <=> Owns(Known(i), r, o)
<1>1. View(i) \subseteq Known(i)
  BY DEF View, Known
<1>2. \A f \in Known(i) : f[1] \notin {"trigger", "storage"} => f \in View(i)
  <2>1. Trigger[1] = "trigger" /\ Settings[1] = "storage"
    BY DEF Trigger, Settings
  <2>. QED  BY <2>1 DEF View, Known
<1>3. Roles(View(i)) = Roles(Known(i))
  BY <1>1, <1>2 DEF Roles
<1>4. Columns(View(i)) = Columns(Known(i))
  BY <1>1, <1>2 DEF Columns
<1>5. ASSUME NEW r, NEW o
      PROVE  <<"owner", r, o>> \in View(i) <=> <<"owner", r, o>> \in Known(i)
  <2>1. <<"owner", r, o>>[1] = "owner"
    OBVIOUS
  <2>. QED  BY <1>1, <1>2, <2>1
<1>6. \A o : Exists(View(i), o) <=> Exists(Known(i), o)
  BY <1>3, <1>5 DEF Exists
<1>. QED  BY <1>1, <1>2, <1>3, <1>4, <1>5, <1>6 DEF Owns

\* Objects without an owner that is a role have no owner at all.
LEMMA Ownerless ==
    ASSUME NEW v, NEW o, Consistent(v), ~Exists(v, o)
    PROVE  \A f \in v : f[1] = "owner" => f[3] # o
BY DEF Consistent, Exists

\* buildInitStatements: what each statement creates and grants.
LEMMA AddsFacts ==
    ASSUME NEW s \in Statements, NEW c, NEW v
    PROVE  /\ \A f \in Adds(s, c, v) : f[1] = "owner" =>
                 f = <<"owner", connUser(c), s>> /\ (s \in Creates => ~Exists(v, s)) /\ s \in Creates \cup {"function"}
           /\ \A f \in Adds(s, c, v) : f[1] = "shape" =>
                 f = <<"shape", "init">> /\ s = "dlq" /\ ~Exists(v, "dlq")
           /\ s \in Creates /\ ~Exists(v, s) => <<"owner", connUser(c), s>> \in Adds(s, c, v)
           /\ s = "dlq" /\ ~Exists(v, s) => <<"shape", "init">> \in Adds(s, c, v)
           /\ s = "events" /\ ~Exists(v, s) => createEventTable(c) \subseteq Adds(s, c, v)
           /\ s = "create_trigger" => Trigger \in Adds(s, c, v)
           /\ Settings \notin Adds(s, c, v)
           /\ s = "role" => <<"role", Run>> \in Adds(s, c, v)
           /\ \A g \in RunGrants : s = g[1] /\ Owns(v, connUser(c), g[3]) =>
                 <<"grant", Run, g[2], g[3]>> \in Adds(s, c, v)
<1>. DEFINE me == connUser(c)
<1>. USE DEF Creates, Grants, Settings
<1>1. CASE s = "role"
  <2>1. Adds(s, c, v) = {<<"role", Run>>}
    BY <1>1 DEF Adds
  <2>. QED  BY <1>1, <2>1 DEF RunGrants
<1>2. CASE s = "schema"
  <2>1. Adds(s, c, v) = IF Exists(v, s) THEN {} ELSE {<<"owner", me, s>>}
    BY <1>2 DEF Adds
  <2>. QED  BY <1>2, <2>1 DEF RunGrants
<1>3. CASE s = "events"
  <2>1. Adds(s, c, v) = IF Exists(v, s) THEN {} ELSE createEventTable(c)
    BY <1>3 DEF Adds
  <2>2. <<"owner", me, s>> \in createEventTable(c)
    BY <1>3 DEF createEventTable
  <2>3. \A f \in createEventTable(c) : f = <<"owner", me, s>> \/ f[1] = "column"
    <3>. SUFFICES ASSUME NEW f \in createEventTable(c), f # <<"owner", me, s>>
                  PROVE  f[1] = "column"
      OBVIOUS
    <3>1. PICK t \in ColumnSettings : f = <<"column", c[t]>>
      BY <1>3 DEF createEventTable
    <3>. QED  BY <3>1
  <2>. QED  BY <1>3, <2>1, <2>2, <2>3 DEF RunGrants
<1>4. CASE s = "storage" \/ s = "drop_trigger"
  <2>1. Adds(s, c, v) \subseteq {<<"storage", "init">>}
    BY <1>4 DEF Adds
  <2>. QED  BY <1>4, <2>1 DEF RunGrants
<1>5. CASE s = "dlq"
  <2>1. Adds(s, c, v) = IF Exists(v, s) THEN {} ELSE {<<"owner", me, s>>, <<"shape", "init">>}
    BY <1>5 DEF Adds
  <2>. QED  BY <1>5, <2>1 DEF RunGrants
<1>6. CASE s = "function"
  <2>1. Adds(s, c, v) = {<<"owner", me, s>>}
    BY <1>6 DEF Adds
  <2>. QED  BY <1>6, <2>1 DEF RunGrants
<1>7. CASE s = "create_trigger"
  <2>1. Adds(s, c, v) = {<<"trigger", "events">>}
    BY <1>7 DEF Adds
  <2>. QED  BY <1>7, <2>1 DEF RunGrants, Trigger
<1>8. CASE s \in Grants
  <2>1. \A f \in Adds(s, c, v) : f[1] = "grant"
    BY <1>8 DEF Adds, Granted
  <2>2. \A g \in RunGrants : s = g[1] /\ Owns(v, me, g[3]) => <<"grant", Run, g[2], g[3]>> \in Adds(s, c, v)
    BY <1>8 DEF Adds, Granted, RunGrants
  <2>. QED  BY <1>8, <2>1, <2>2
<1>. QED  BY <1>1, <1>2, <1>3, <1>4, <1>5, <1>6, <1>7, <1>8 DEF Statements


\* A statement that creates an object finds none of that name, or fails.
LEMMA ExecutedIsConsistent ==
    ASSUME NEW s \in Statements, NEW c, NEW v, NEW w, v \subseteq w, Consistent(w),
           \A o : Exists(v, o) <=> Exists(w, o), connUser(c) \in Roles(w), Permitted(s, c, v)
    PROVE  Consistent(w \cup (Adds(s, c, v) \ v))
<1>. DEFINE me == connUser(c)
            A == Adds(s, c, v) \ v
            u == w \cup A
<1>1. \A f \in A : f[1] = "owner" =>
         f = <<"owner", me, s>> /\ \A g \in w : g[1] = "owner" => g[3] # s
  <2>. SUFFICES ASSUME NEW f \in A, f[1] = "owner"
                PROVE  f = <<"owner", me, s>> /\ \A g \in w : g[1] = "owner" => g[3] # s
    OBVIOUS
  <2>1. f = <<"owner", me, s>> /\ (s \in Creates => ~Exists(v, s)) /\ s \in Creates \cup {"function"}
    BY AddsFacts
  <2>2. s = "function" => ~Exists(v, s)
    <3>. SUFFICES ASSUME s = "function", Exists(v, s) PROVE FALSE
      OBVIOUS
    <3>1. Owns(v, me, s)
      BY DEF Permitted
    <3>. QED  BY <2>1, <3>1 DEF Owns
  <2>. QED  BY <2>1, <2>2, Ownerless
<1>2. \A f \in A : f[1] = "shape" =>
         f = <<"shape", "init">> /\ s = "dlq" /\ ~Exists(w, "dlq") /\ <<"owner", me, "dlq">> \in u
  <2>. SUFFICES ASSUME NEW f \in A, f[1] = "shape"
                PROVE  /\ f = <<"shape", "init">> /\ s = "dlq" /\ ~Exists(w, "dlq")
                       /\ <<"owner", me, "dlq">> \in u
    OBVIOUS
  <2>1. f = <<"shape", "init">> /\ s = "dlq" /\ ~Exists(v, "dlq")
    BY AddsFacts
  <2>2. <<"owner", me, s>> \in Adds(s, c, v)
    BY <2>1, AddsFacts DEF Creates
  <2>. QED  BY <2>1, <2>2
<1>3. Roles(w) \subseteq Roles(u) /\ \A o : Exists(w, o) => Exists(u, o)
  BY Grows
<1>4. \A f \in u : f[1] = "owner" => f[2] \in Roles(u) /\ f = <<"owner", f[2], f[3]>>
  <2>1. \A f \in w : f[1] = "owner" => f[2] \in Roles(u) /\ f = <<"owner", f[2], f[3]>>
    BY <1>3 DEF Consistent
  <2>2. \A f \in A : f[1] = "owner" => f[2] \in Roles(u) /\ f = <<"owner", f[2], f[3]>>
    <3>1. <<"owner", me, s>>[2] = me /\ <<"owner", me, s>>[3] = s
      OBVIOUS
    <3>. QED  BY <1>1, <1>3, <3>1
  <2>. QED  BY <2>1, <2>2
<1>5. \A f, g \in u : f[1] = "owner" /\ g[1] = "owner" /\ f[3] = g[3] => f = g
  <2>1. \A f, g \in w : f[1] = "owner" /\ g[1] = "owner" /\ f[3] = g[3] => f = g
    BY DEF Consistent
  <2>2. \A f \in A : f[1] = "owner" => f[3] = s
    BY <1>1
  <2>. QED  BY <1>1, <2>1, <2>2
<1>6. \A f \in w : f[1] = "shape" => Exists(w, "dlq")
  BY DEF Consistent
<1>7. \A f \in u : f[1] = "shape" => \E n \in DOMAIN ShapeOf \cup {"init"} : f = <<"shape", n>>
  BY <1>2 DEF Consistent
<1>8. \A f, g \in u : f[1] = "shape" /\ g[1] = "shape" => f = g
  BY <1>2, <1>6 DEF Consistent
<1>9. Exists(u, "dlq") <=> \E n \in DOMAIN ShapeOf \cup {"init"} : <<"shape", n>> \in u
  <2>1. ASSUME Exists(u, "dlq"), ~Exists(w, "dlq")
        PROVE  <<"shape", "init">> \in u
    <3>1. PICK r \in Roles(u) : <<"owner", r, "dlq">> \in u
      BY <2>1 DEF Exists
    <3>2. <<"owner", r, "dlq">> \notin w
      BY <2>1, Ownerless
    <3>3. s = "dlq"
      BY <1>1, <3>1, <3>2
    <3>. QED  BY <2>1, <3>3, AddsFacts
  <2>2. ASSUME NEW n \in DOMAIN ShapeOf \cup {"init"}, <<"shape", n>> \in A
        PROVE  Exists(u, "dlq")
    BY <1>2, <1>3, <2>2 DEF Exists
  <2>. QED  BY <1>3, <2>1, <2>2 DEF Consistent
<1>. QED  BY <1>4, <1>5, <1>7, <1>8, <1>9 DEF Consistent

\* Two applies that create different objects leave a catalog that is consistent.
LEMMA MergedIsConsistent ==
    ASSUME NEW d, NEW a, NEW b, Consistent(d \cup a), Consistent(d \cup b),
           \A f \in a, g \in b : f[1] = "owner" /\ g[1] = "owner" => f[3] # g[3],
           \A f \in a : f[1] = "shape" => \E r : <<"owner", r, "dlq">> \in a,
           \A f \in b : f[1] = "shape" => \E r : <<"owner", r, "dlq">> \in b
    PROVE  Consistent((d \cup a) \cup b)
<1>. DEFINE u == (d \cup a) \cup b
<1>1. /\ Roles(d \cup a) \subseteq Roles(u) /\ Roles(d \cup b) \subseteq Roles(u)
      /\ \A o : (Exists(d \cup a, o) => Exists(u, o)) /\ (Exists(d \cup b, o) => Exists(u, o))
  BY Grows
<1>2. \A f \in u : f \in d \cup a \/ f \in d \cup b
  OBVIOUS
<1>3. \A f \in u : f[1] = "owner" => f[2] \in Roles(u) /\ f = <<"owner", f[2], f[3]>>
  BY <1>1, <1>2 DEF Consistent
<1>4. \A f, g \in u : f[1] = "owner" /\ g[1] = "owner" /\ f[3] = g[3] => f = g
  BY DEF Consistent
<1>5. \A f \in u : f[1] = "shape" => \E n \in DOMAIN ShapeOf \cup {"init"} : f = <<"shape", n>>
  BY <1>2 DEF Consistent
<1>6. \A f \in a, g \in b : ~(f[1] = "shape" /\ g[1] = "shape")
  <2>. SUFFICES ASSUME NEW f \in a, NEW g \in b, f[1] = "shape", g[1] = "shape" PROVE FALSE
    OBVIOUS
  <2>1. PICK r : <<"owner", r, "dlq">> \in a
    OBVIOUS
  <2>2. PICK q : <<"owner", q, "dlq">> \in b
    OBVIOUS
  <2>3. <<"owner", r, "dlq">>[3] # <<"owner", q, "dlq">>[3]
    BY <2>1, <2>2
  <2>. QED  BY <2>3
<1>7. \A f, g \in u : f[1] = "shape" /\ g[1] = "shape" => f = g
  BY <1>6 DEF Consistent
<1>8. Exists(u, "dlq") <=> \E n \in DOMAIN ShapeOf \cup {"init"} : <<"shape", n>> \in u
  <2>1. Exists(u, "dlq") => Exists(d \cup a, "dlq") \/ Exists(d \cup b, "dlq")
    BY <1>2, Ownerless DEF Exists
  <2>. QED  BY <1>1, <1>2, <2>1 DEF Consistent
<1>. QED  BY <1>3, <1>4, <1>5, <1>7, <1>8 DEF Consistent

-----------------------------------------------------------------------------
(* One lemma per action.                                                   *)

\* What an apply has brought about and validated stays so while it stands still and the
\* catalog only grows.
LEMMA OutcomeKept ==
    ASSUME NEW j \in Inits, cfg'[j] = cfg[j], added'[j] = added[j], todo'[j] = todo[j],
           \A f \in db : f \in db' \/ f = Settings
    PROVE  (Effects(j) => Effects(j)') /\ (Checked(j) => Checked(j)')
<1>1. \A f \in Known(j) : f \in Known(j)' \/ f = Settings
  BY DEF Known
<1>2. /\ Roles(Known(j)) \subseteq Roles(Known(j)')
      /\ Columns(Known(j)) \subseteq Columns(Known(j)')
      /\ \A o : Exists(Known(j), o) => Exists(Known(j)', o)
  BY <1>1, Grows
<1>3. \A f \in Known(j) : f[1] \in {"owner", "column", "grant", "shape"} => f \in Known(j)'
  BY <1>1 DEF Settings
<1>4. \A r, p, o : /\ <<"grant", r, p, o>> \in Known(j) => <<"grant", r, p, o>> \in Known(j)'
                   /\ <<"shape", o>> \in Known(j) => <<"shape", o>> \in Known(j)'
  <2>1. \A r, p, o : <<"grant", r, p, o>>[1] = "grant" /\ <<"shape", o>>[1] = "shape"
    OBVIOUS
  <2>. QED  BY <1>3, <2>1
<1>5. createEventTable(cfg[j]) \subseteq Known(j) => createEventTable(cfg[j]) \subseteq Known(j)'
  <2>1. ASSUME NEW f \in createEventTable(cfg[j])
        PROVE  f[1] \in {"owner", "column"}
    <3>1. CASE f = <<"owner", connUser(cfg[j]), "events">>
      BY <3>1
    <3>2. CASE f # <<"owner", connUser(cfg[j]), "events">>
      <4>1. PICK t \in ColumnSettings : f = <<"column", cfg[j][t]>>
        BY <3>2 DEF createEventTable
      <4>. QED  BY <4>1
    <3>. QED  BY <3>1, <3>2
  <2>. QED  BY <1>3, <2>1
<1>6. Effects(j) => Effects(j)'
  BY <1>2, <1>3, <1>4, <1>5 DEF Effects
<1>7. Checked(j) => Checked(j)'
  BY <1>2, <1>4 DEF Checked, validateEventColumns
<1>. QED  BY <1>6, <1>7

\* An apply starts with its whole list ahead of it.
LEMMA BeginInv ==
    ASSUME IInv, NEW i \in Inits, NEW c \in Configs, Begin(i, c)
    PROVE  IInv'
<1>1. /\ db' = db /\ added' = added /\ dropped' = dropped
      /\ phase'[i] = "applying" /\ cfg'[i] = c /\ todo'[i] = buildInitStatements(c)
      /\ \A j \in Inits \ {i} : phase'[j] = phase[j] /\ cfg'[j] = cfg[j] /\ todo'[j] = todo[j]
  BY DEF Begin, IInv, TypeOK
<1>2. ~Open(i) /\ added[i] = {}
  BY DEF Begin, Open, IInv, Plans
<1>3. TypeOK'
  BY DEF Begin, IInv, TypeOK
<1>4. Plans'
  BY <1>1, BuildPlanned DEF IInv, Plans, Open
<1>5. Triggers'
  <2>1. Trigger \in dropped[i] => Trigger \in added[i]
    BY DEF Begin, IInv, Plans, Triggers
  <2>2. "drop_trigger" \in Members(todo'[i])
    BY <1>1, BuildPlanned
  <2>. QED  BY <1>1, <2>1, <2>2 DEF IInv, Triggers, Open
<1>6. Views'
  BY <1>1 DEF IInv, Views, Known
<1>7. Separate'
  BY <1>1, <1>2 DEF IInv, Separate, Open
<1>8. Defined'
  BY <1>1, <1>2 DEF IInv, Defined
<1>9. Effects(i)'
  <2>1. connUser(c) \in Roles(Known(i)')
    <3>1. <<"role", connUser(c)>> \in Known(i)'
      BY <1>1 DEF Begin, Known
    <3>. QED  BY <3>1 DEF Roles
  <2>2. /\ Managed(c) => "role" \in Members(todo'[i])
        /\ \A o \in Creates : (o = "dlq" => c.DLQ_TABLE # "") => o \in Members(todo'[i])
    BY <1>1, BuildPlanned DEF Creates
  <2>3. \A g \in RunGrants : Managed(c) /\ (g[3] = "dlq" => c.DLQ_TABLE # "") => g[1] \in Members(todo'[i])
    <3>1. \A g \in RunGrants : \/ g[1] \in {"grant_usage", "grant_select", "grant_update"}
                               \/ g[1] = "grant_dlq" /\ g[3] = "dlq"
      BY DEF RunGrants
    <3>. QED  BY <1>1, <3>1, BuildPlanned
  <2>. QED  BY <1>1, <1>2, <2>1, <2>2, <2>3 DEF Effects
<1>10. Outcomes'
  BY <1>1, <1>9, OutcomeKept DEF IInv, Outcomes
<1>. QED  BY <1>3, <1>4, <1>5, <1>6, <1>7, <1>8, <1>10 DEF IInv

\* A transaction that is rolled back leaves nothing.
LEMMA RollbackInv ==
    ASSUME IInv, NEW i \in Inits, Open(i), Rollback(i)
    PROVE  IInv'
<1>1. /\ db' = db /\ cfg' = cfg
      /\ phase'[i] = "failed" /\ todo'[i] = <<>> /\ added'[i] = {} /\ dropped'[i] = {}
      /\ \A j \in Inits \ {i} : /\ phase'[j] = phase[j] /\ todo'[j] = todo[j]
                                /\ added'[j] = added[j] /\ dropped'[j] = dropped[j]
  BY DEF Rollback, IInv, TypeOK
<1>2. TypeOK'
  BY DEF Rollback, IInv, TypeOK
<1>3. Plans'
  <2>1. Planned(<<>>)
    BY DEF Planned, InOrder
  <2>. QED  BY <1>1, <2>1 DEF IInv, Plans, Open
<1>4. Triggers'
  BY <1>1 DEF IInv, Triggers, Open
<1>5. Views'
  BY <1>1 DEF IInv, Views, Known
<1>6. Separate'
  BY <1>1 DEF IInv, Separate, Open
<1>7. Defined'
  BY <1>1 DEF IInv, Defined
<1>8. Outcomes'
  BY <1>1, OutcomeKept DEF IInv, Outcomes
<1>. QED  BY <1>2, <1>3, <1>4, <1>5, <1>6, <1>7, <1>8 DEF IInv


\* execInitStatement: a statement that is neither blocked nor refused.
LEMMA ExecuteInv ==
    ASSUME IInv, NEW i \in Inits, Execute(i)
    PROVE  IInv'
<1>. DEFINE s == Head(todo[i])
            c == cfg[i]
            me == connUser(c)
            v == View(i)
            w == Known(i)
            A == Adds(s, c, v) \ v
<1>1. CASE ~Permitted(s, c, v)
  <2>1. Open(i) /\ Rollback(i)
    BY <1>1 DEF Execute, Open
  <2>. QED  BY <2>1, RollbackInv
<1>2. CASE Permitted(s, c, v)
  <2>1. /\ db' = db /\ cfg' = cfg /\ phase' = phase /\ phase[i] = "applying" /\ ~Blocked(i)
        /\ todo'[i] = Tail(todo[i]) /\ added'[i] = added[i] \cup A
        /\ dropped'[i] = dropped[i] \cup Drops(s)
        /\ \A j \in Inits \ {i} : todo'[j] = todo[j] /\ added'[j] = added[j] /\ dropped'[j] = dropped[j]
    BY <1>2 DEF Execute, IInv, TypeOK
  <2>2. /\ s \in Statements
        /\ Planned(todo'[i])
        /\ Members(todo[i]) = Members(todo'[i]) \cup {s}
        /\ s = "drop_trigger" => todo'[i] # <<>> /\ Head(todo'[i]) = "create_trigger"
        /\ s \in Grants => Members(todo[i]) \subseteq Grants
    BY <2>1, TailPlanned DEF Execute, IInv, Plans
  <2>3. /\ v \subseteq w
        /\ Roles(v) = Roles(w)
        /\ \A o : Exists(v, o) <=> Exists(w, o)
        /\ \A r, o : Owns(v, r, o) <=> Owns(w, r, o)
    BY ViewKnown DEF IInv, Triggers
  <2>4. me \in Roles(w) /\ Effects(i)
    BY <2>1 DEF IInv, Outcomes, Effects
  <2>5. Known(i)' = w \cup A /\ Adds(s, c, v) \subseteq Known(i)' /\ w \subseteq Known(i)'
    BY <2>1, <2>3 DEF Known
  <2>6. Roles(w) \subseteq Roles(Known(i)') /\ \A o : Exists(w, o) => Exists(Known(i)', o)
    BY <2>5, Grows
  <2>. HIDE DEF s, c, v, w
  <2>7. \A f \in A : f[1] = "owner" => f = <<"owner", me, s>> /\ (s \in Creates => ~Exists(v, s))
    BY <2>2, AddsFacts
  <2>8. TypeOK'
    BY <1>2 DEF Execute, IInv, TypeOK, s, c, v
  <2>9. Plans'
    BY <2>1, <2>2 DEF IInv, Plans, Open
  <2>10. Triggers'
    <3>1. /\ dropped[i] \subseteq {Trigger, Settings} /\ Settings \notin added[i]
          /\ Trigger \in dropped[i] => Trigger \in added[i] \/ s = "create_trigger"
          /\ "drop_trigger" \notin Members(todo[i]) => Trigger \in dropped[i]
      BY <2>1 DEF IInv, Triggers, Open, s
    <3>2. /\ s = "create_trigger" => Trigger \in Adds(s, c, v)
          /\ Settings \notin Adds(s, c, v)
      BY <2>2, AddsFacts
    <3>3. /\ Drops(s) \subseteq {Trigger, Settings}
          /\ Trigger \in Drops(s) <=> s = "drop_trigger"
      BY DEF Drops, Trigger, Settings
    <3>4. Trigger \in dropped[i] => (Trigger \in v => Trigger \in added[i])
      BY DEF v, View
    <3>5. dropped'[i] \subseteq {Trigger, Settings} /\ Settings \notin added'[i]
      BY <2>1, <3>1, <3>2, <3>3
    <3>6. Trigger \in dropped'[i] =>
             Trigger \in added'[i] \/ (todo'[i] # <<>> /\ Head(todo'[i]) = "create_trigger")
      BY <2>1, <2>2, <3>1, <3>2, <3>3, <3>4
    <3>7. "drop_trigger" \notin Members(todo'[i]) => Trigger \in dropped'[i]
      BY <2>1, <2>2, <3>1, <3>3
    <3>. QED  BY <2>1, <3>5, <3>6, <3>7 DEF IInv, Triggers, Open
  <2>11. Views'
    <3>1. Consistent(Known(i)')
      BY <1>2, <2>2, <2>3, <2>4, <2>5, ExecutedIsConsistent DEF IInv, Views, w
    <3>. QED  BY <2>1, <3>1 DEF IInv, Views, Known
  <2>12. Separate'
    <3>1. ASSUME NEW j \in Inits \ {i}, Open(j), NEW f \in A, NEW g \in added[j],
                 f[1] = "owner", g[1] = "owner", f[3] = g[3]
          PROVE  FALSE
      <4>1. g = <<"owner", g[2], g[3]>>
        BY <3>1 DEF IInv, Views, Consistent, Known
      <4>2. f = <<"owner", me, s>>
        BY <2>7, <3>1
      <4>3. f[Len(f)] = f[3] /\ g[Len(g)] = g[3]
        BY <4>1, <4>2
      <4>4. f \in Adds(Head(todo[i]), cfg[i], View(i))
        BY DEF s, c, v
      <4>. QED  BY <2>1, <3>1, <4>3, <4>4 DEF Blocked
    <3>. QED  BY <2>1, <3>1 DEF IInv, Separate, Open
  <2>13. Defined'
    <3>1. ASSUME NEW f \in A, f[1] = "shape"
          PROVE  f = <<"shape", "init">> /\ <<"owner", me, "dlq">> \in added'[i]
      <4>1. f \in Adds(s, c, v)
        OBVIOUS
      <4>2. \A h \in Adds(s, c, v) : h[1] = "shape" =>
                h = <<"shape", "init">> /\ s = "dlq" /\ ~Exists(v, "dlq")
        BY <2>2, AddsFacts, Zenon
      <4>3. f = <<"shape", "init">> /\ s = "dlq" /\ ~Exists(v, s)
        BY <3>1, <4>1, <4>2
      <4>4. <<"owner", me, "dlq">> \in Adds(s, c, v)
        BY <2>2, <4>3, AddsFacts DEF Creates
      <4>5. <<"owner", me, "dlq">> \notin v
        BY <2>3, <2>4, <4>3 DEF Exists
      <4>. QED  BY <2>1, <4>3, <4>4, <4>5
    <3>. QED  BY <2>1, <3>1 DEF IInv, Defined, c
  <2>14. Effects(i)'
    <3>. DEFINE executed == Statements \ Members(todo[i])
                executedNow == Statements \ Members(todo'[i])
    <3>1. executedNow \subseteq executed \cup {s}
      BY <2>2
    <3>2. Managed(c) /\ "role" \in executedNow => Run \in Roles(Known(i)')
      <4>1. s = "role" => <<"role", Run>> \in Known(i)'
        BY <2>2, <2>5, AddsFacts
      <4>2. s = "role" => Run \in Roles(Known(i)')
        BY <4>1 DEF Roles
      <4>. QED  BY <2>4, <2>6, <3>1, <4>2 DEF Effects, c, w
    <3>3. \A o \in Creates \cap executedNow : (o = "dlq" => c.DLQ_TABLE # "") => Exists(Known(i)', o)
      <4>1. s \in Creates => Exists(Known(i)', s)
        <5>1. s \in Creates /\ ~Exists(v, s) => <<"owner", me, s>> \in Known(i)'
          BY <2>2, <2>5, AddsFacts
        <5>. QED  BY <2>3, <2>4, <2>6, <5>1 DEF Exists
      <4>. QED  BY <2>4, <2>6, <3>1, <4>1 DEF Effects, c, w
    <3>4. <<"owner", me, "events">> \in added'[i] => createEventTable(c) \subseteq Known(i)'
      <4>1. CASE <<"owner", me, "events">> \in added[i]
        BY <2>4, <2>5, <4>1 DEF Effects, c, w
      <4>2. CASE <<"owner", me, "events">> \in A
        <5>1. s = "events" /\ ~Exists(v, s)
          BY <2>7, <4>2 DEF Creates
        <5>. QED  BY <2>2, <2>5, <5>1, AddsFacts
      <4>. QED  BY <2>1, <4>1, <4>2
    <3>5. ASSUME NEW g \in RunGrants, Managed(c), g[1] \in executedNow, g[3] = "dlq" => c.DLQ_TABLE # ""
          PROVE  \/ <<"grant", Run, g[2], g[3]>> \in Known(i)'
                 \/ \E f \in Known(i)' : f[1] = "owner" /\ f[3] = g[3] /\ f[2] # me
      <4>1. CASE g[1] \in executed
        BY <2>4, <2>5, <3>5, <4>1 DEF Effects, c, w
      <4>2. CASE g[1] = s /\ Owns(v, me, g[3])
        BY <2>2, <2>5, <4>2, AddsFacts
      <4>3. CASE g[1] = s /\ ~Owns(v, me, g[3])
        <5>1. g[1] \in Grants /\ g[3] \in Creates
          BY DEF RunGrants, Grants, Creates
        <5>2. g[3] \in Creates \cap executed
          BY <2>2, <4>3, <5>1 DEF Creates, Grants, Statements
        <5>3. PICK r \in Roles(w) : <<"owner", r, g[3]>> \in w
          BY <2>4, <3>5, <5>2 DEF Effects, Exists, c, w
        <5>4. r # me
          BY <2>3, <4>3, <5>3 DEF Owns
        <5>5. <<"owner", r, g[3]>>[1] = "owner" /\ <<"owner", r, g[3]>>[2] = r /\ <<"owner", r, g[3]>>[3] = g[3]
          OBVIOUS
        <5>. QED  BY <2>5, <5>3, <5>4, <5>5
      <4>. QED  BY <3>1, <3>5, <4>1, <4>2, <4>3
    <3>6. me \in Roles(Known(i)')
      BY <2>4, <2>6
    <3>. QED  BY <2>1, <3>2, <3>3, <3>4, <3>5, <3>6 DEF Effects, c
  <2>15. Outcomes'
    BY <2>1, <2>14, OutcomeKept DEF IInv, Outcomes
  <2>. QED  BY <2>8, <2>9, <2>10, <2>11, <2>12, <2>13, <2>15 DEF IInv
<1>. QED  BY <1>1, <1>2


\* A catalog with one definition of the DLQ table gives that one.
LEMMA ShapeIsNamed ==
    ASSUME NEW v, NEW n \in DOMAIN ShapeOf \cup {"init"}, <<"shape", n>> \in v,
           \A f, g \in v : f[1] = "shape" /\ g[1] = "shape" => f = g
    PROVE  Shape(v) = Named(n)
<1>. DEFINE P(m) == <<"shape", m>> \in v
            name == CHOOSE m \in DOMAIN ShapeOf \cup {"init"} : P(m)
<1>1. name \in DOMAIN ShapeOf \cup {"init"} /\ P(name)
  BY Zenon
<1>2. \A m : P(m) => m = n
  <2>. SUFFICES ASSUME NEW m, <<"shape", m>> \in v PROVE m = n
    OBVIOUS
  <2>1. <<"shape", m>>[1] = "shape" /\ <<"shape", n>>[1] = "shape"
    OBVIOUS
  <2>2. <<"shape", m>> = <<"shape", n>>
    BY <2>1
  <2>. QED  BY <2>2
<1>3. name = n
  BY <1>1, <1>2
<1>4. Shape(v) = IF name = "init" THEN InitShape ELSE ShapeOf[name]
  BY Zenon DEF Shape
<1>. HIDE DEF name
<1>. QED  BY <1>3, <1>4 DEF Named

\* validateProvisionedSchema: what the apply checks is what it has recorded.
LEMMA ValidateInv ==
    ASSUME IInv, NEW i \in Inits, Validate(i)
    PROVE  IInv'
<1>. DEFINE c == cfg[i]
<1>1. CASE ~validateProvisionedSchema(c, View(i))
  <2>1. Open(i) /\ Rollback(i)
    BY <1>1 DEF Validate, Open
  <2>. QED  BY <2>1, RollbackInv
<1>2. CASE validateProvisionedSchema(c, View(i))
  <2>1. /\ UNCHANGED <<db, cfg, todo, added, dropped>>
        /\ phase'[i] = "valid" /\ phase[i] = "applying" /\ todo[i] = <<>>
        /\ \A j \in Inits \ {i} : phase'[j] = phase[j]
    BY <1>2 DEF Validate, IInv, TypeOK
  <2>2. Checked(i)
    <3>1. /\ View(i) \subseteq Known(i)
          /\ \A f \in Known(i) : f[1] \notin {"trigger", "storage"} => f \in View(i)
          /\ Columns(View(i)) = Columns(Known(i))
          /\ \A o : Exists(View(i), o) <=> Exists(Known(i), o)
      BY ViewKnown DEF IInv, Triggers
    <3>2. validateEventColumns(c, Columns(Known(i)))
      BY <1>2, <3>1 DEF validateProvisionedSchema
    <3>3. ASSUME c.DLQ_TABLE # ""
          PROVE  \E n \in DOMAIN ShapeOf \cup {"init"} : <<"shape", n>> \in Known(i) /\ Insertable(Named(n))
      <4>1. validateDLQTableMetadata(View(i), connUser(c))
        BY <1>2, <3>3 DEF validateProvisionedSchema
      <4>2. PICK n \in DOMAIN ShapeOf \cup {"init"} : <<"shape", n>> \in Known(i)
        BY <3>1, <4>1 DEF validateDLQTableMetadata, IInv, Views, Consistent
      <4>3. <<"shape", n>>[1] = "shape"
        OBVIOUS
      <4>4. <<"shape", n>> \in View(i)
        BY <3>1, <4>2, <4>3
      <4>5. Shape(View(i)) = Named(n)
        BY <3>1, <4>4, ShapeIsNamed DEF IInv, Views, Consistent
      <4>. QED  BY <4>1, <4>2, <4>5 DEF validateDLQTableMetadata, Insertable
    <3>. QED  BY <3>2, <3>3 DEF Checked
  <2>3. TypeOK'
    BY <1>2 DEF Validate, IInv, TypeOK
  <2>4. Plans' /\ Triggers' /\ Separate'
    BY <2>1 DEF IInv, Plans, Triggers, Separate, Open
  <2>5. Views' /\ Defined'
    BY <2>1 DEF IInv, Views, Known, Defined
  <2>6. Outcomes'
    BY <2>1, <2>2, OutcomeKept DEF IInv, Outcomes
  <2>. QED  BY <2>3, <2>4, <2>5, <2>6 DEF IInv
<1>. QED  BY <1>1, <1>2

\* A commit takes nothing away but settings: the trigger it dropped is there again.
LEMMA CommitGrows ==
    ASSUME IInv, NEW i \in Inits, Commit(i)
    PROVE  /\ db' \subseteq Known(i) /\ added[i] \subseteq db' /\ Trigger \in db'
           /\ \A f \in Known(i) : f \in db' \/ f = Settings
<1>1. todo[i] = <<>> /\ Open(i)
  BY DEF IInv, Plans, Commit, Open
<1>2. Members(todo[i]) = {}
  BY <1>1 DEF Members
<1>3. Trigger \in added[i] /\ dropped[i] \subseteq {Trigger, Settings}
  BY <1>1, <1>2 DEF IInv, Triggers
<1>. QED  BY <1>3 DEF Commit, View, Known

\* The commit, answered or not.
LEMMA CommitInv ==
    ASSUME IInv, NEW i \in Inits, Commit(i)
    PROVE  IInv'
<1>1. /\ UNCHANGED <<cfg, todo, added, dropped>>
      /\ phase[i] = "valid" /\ phase'[i] \in {"done", "failed"}
      /\ \A j \in Inits \ {i} : phase'[j] = phase[j]
      /\ phase' \in [Inits -> {"idle", "applying", "valid", "done", "failed"}]
  BY DEF Commit, IInv, TypeOK
<1>2. /\ db' \subseteq db \cup added[i] /\ added[i] \subseteq db' /\ Trigger \in db'
      /\ \A f \in db \cup added[i] : f \in db' \/ f = Settings
  BY CommitGrows DEF Known
<1>3. TypeOK'
  BY <1>1 DEF IInv, TypeOK
<1>4. Plans'
  <2>1. \A j \in Inits : added[j] \subseteq db => added[j] \subseteq db'
    BY <1>2 DEF IInv, Triggers
  <2>. QED  BY <1>1, <1>2, <2>1 DEF IInv, Plans, Open
<1>5. Triggers' /\ Defined'
  BY <1>1, <1>2 DEF IInv, Triggers, Defined, Open
<1>6. Separate'
  BY <1>1 DEF IInv, Separate, Open
<1>7. Views'
  <2>1. Consistent(db')
    <3>1. Consistent(db \cup added[i])
      BY DEF IInv, Views, Known
    <3>. QED  BY <1>2, <3>1, SettingsApart
  <2>2. ASSUME NEW j \in Inits
        PROVE  Consistent(Known(j)')
    <3>1. /\ Known(j)' = db' \cup added[j]
          /\ Known(j)' \subseteq (db \cup added[i]) \cup added[j]
          /\ \A f \in (db \cup added[i]) \cup added[j] : f \in Known(j)' \/ f = Settings
      BY <1>1, <1>2 DEF Known
    <3>2. CASE j = i \/ ~Open(j)
      <4>1. Known(j)' = db'
        <5>1. added[j] \subseteq db'
          BY <1>2, <3>2 DEF IInv, Plans, Triggers
        <5>. QED  BY <3>1, <5>1
      <4>. QED  BY <2>1, <4>1
    <3>3. CASE j # i /\ Open(j)
      <4>1. \A f \in added[i], g \in added[j] : f[1] = "owner" /\ g[1] = "owner" => f[3] # g[3]
        BY <1>1, <3>3 DEF IInv, Separate, Open
      <4>2. /\ \A f \in added[i] : f[1] = "shape" => \E r : <<"owner", r, "dlq">> \in added[i]
            /\ \A f \in added[j] : f[1] = "shape" => \E r : <<"owner", r, "dlq">> \in added[j]
        BY DEF IInv, Defined
      <4>3. Consistent(db \cup added[i]) /\ Consistent(db \cup added[j])
        BY DEF IInv, Views, Known
      <4>4. Consistent((db \cup added[i]) \cup added[j])
        BY <4>1, <4>2, <4>3, MergedIsConsistent, Zenon
      <4>. QED  BY <3>1, <4>4, SettingsApart
    <3>. QED  BY <3>2, <3>3
  <2>. QED  BY <2>1, <2>2 DEF Views
<1>8. Outcomes'
  BY <1>1, <1>2, OutcomeKept DEF IInv, Outcomes
<1>. QED  BY <1>3, <1>4, <1>5, <1>6, <1>7, <1>8 DEF IInv

-----------------------------------------------------------------------------
(* The theorems.                                                           *)

\* No apply has started.
LEMMA InitInv ==
    ASSUME Init
    PROVE  IInv
<1>1. \A i \in Inits : phase[i] = "idle" /\ todo[i] = <<>> /\ added[i] = {} /\ dropped[i] = {}
  BY DEF Init
<1>2. Planned(<<>>)
  BY DEF Planned, InOrder
<1>3. Consistent(db)
  BY CatalogAssumption DEF Init
<1>4. TypeOK
  BY DEF Init, TypeOK
<1>5. Plans /\ Triggers /\ Separate /\ Defined /\ Outcomes
  BY <1>1, <1>2 DEF Plans, Triggers, Separate, Defined, Outcomes, Open
<1>6. Views
  BY <1>1, <1>3 DEF Views, Known
<1>. QED  BY <1>4, <1>5, <1>6 DEF IInv

\* Every view of the catalog is consistent, applies under way create different objects, a
\* dropped trigger is restored by the next statement, and a grant is left out only on an
\* object of another owner.
THEOREM ProvisioningInvariant == Spec => []IInv
<1>1. ASSUME IInv, [Next]_vars
      PROVE  IInv'
  <2>1. ASSUME NEW i \in Inits, TimeOut(i) \/ Abort(i)
        PROVE  IInv'
    <3>1. Open(i) /\ Rollback(i)
      BY <2>1 DEF TimeOut, Abort, Open
    <3>. QED  BY <1>1, <3>1, RollbackInv
  <2>2. CASE BeginBatch \/ EndBatch \/ UNCHANGED vars
    <3>1. UNCHANGED <<db, phase, cfg, todo, added, dropped>>
      BY <2>2 DEF BeginBatch, EndBatch, vars
    <3>2. TypeOK' /\ Plans' /\ Triggers' /\ Separate' /\ Defined'
      BY <1>1, <3>1 DEF IInv, TypeOK, Plans, Triggers, Separate, Defined, Open
    <3>3. Views' /\ Outcomes'
      BY <1>1, <3>1, OutcomeKept DEF IInv, Views, Known, Outcomes
    <3>. QED  BY <3>2, <3>3 DEF IInv
  <2>. QED  BY <1>1, <2>1, <2>2, BeginInv, ExecuteInv, ValidateInv, CommitInv DEF Next
<1>. QED  BY <1>1, InitInv, PTL DEF Spec

\* A step changes the catalog only by a commit, which takes settings away and nothing else.
LEMMA StepGrows ==
    ASSUME IInv, [Next]_vars
    PROVE  \A f \in db : f \in db' \/ f = Settings
<1>1. ASSUME NEW i \in Inits, Commit(i)
      PROVE  \A f \in db : f \in db' \/ f = Settings
  BY <1>1, CommitGrows DEF Known
<1>. QED  BY <1>1 DEF Next, Begin, Execute, TimeOut, Abort, Validate, Rollback, BeginBatch, EndBatch, vars

\* INIT-IDEM-02 and 05 (init.go): however many applies run, fail or are lost, no committed
\* column, privilege or trigger is ever taken away; of what was there only the event table's
\* autovacuum settings may be replaced.
THEOREM AppliesOnlyAdd == Spec => NonDestructive
<1>1. IInv /\ [Next]_vars => db \ db' \subseteq {<<"storage", "own">>}
  BY StepGrows DEF Settings
<1>2. IInv /\ [Next]_vars => [db \ db' \subseteq {<<"storage", "own">>}]_vars
  BY <1>1
<1>. QED  BY <1>2, ProvisioningInvariant, PTL DEF Spec, NonDestructive

\* checkDLQWorks against insertDeadLetters: the startup check of the DLQ table is enough for
\* the insert, whatever definition the table has, but for what the check does not see.
LEMMA CheckedIsWritable ==
    ASSUME NEW v, validateDLQTableMetadata(v, Run), ~Unchecked(v)
    PROVE  DeadLetterWorks(v)
BY DEF validateDLQTableMetadata, DeadLetterWorks, canOmitColumnFromInsert

\* insertDeadLetters: a table that takes dead letters goes on taking them as the catalog grows.
LEMMA WritableStays ==
    ASSUME NEW v, NEW w, Consistent(v), Consistent(w), \A f \in v : f \in w \/ f = Settings,
           DeadLetterWorks(v)
    PROVE  DeadLetterWorks(w)
<1>1. Exists(v, "dlq") /\ May(v, Run, "insert", "dlq") /\ ~Unchecked(v)
  BY DEF DeadLetterWorks
<1>2. PICK n \in DOMAIN ShapeOf \cup {"init"} : <<"shape", n>> \in v
  BY <1>1 DEF Consistent
<1>3. \A f \in v : f[1] \in {"owner", "grant", "shape"} => f \in w
  BY DEF Settings
<1>4. \A r, p, o : /\ <<"owner", r, o>> \in v => <<"owner", r, o>> \in w
                   /\ <<"grant", r, p, o>> \in v => <<"grant", r, p, o>> \in w
                   /\ <<"shape", o>> \in v => <<"shape", o>> \in w
  <2>1. \A r, p, o : /\ <<"owner", r, o>>[1] = "owner" /\ <<"grant", r, p, o>>[1] = "grant"
                     /\ <<"shape", o>>[1] = "shape"
    OBVIOUS
  <2>. QED  BY <1>3, <2>1
<1>5. Shape(v) = Named(n)
  BY <1>2, ShapeIsNamed DEF Consistent
<1>6. Shape(w) = Named(n)
  BY <1>2, <1>4, ShapeIsNamed DEF Consistent
<1>7. Exists(w, "dlq")
  BY <1>1, Grows
<1>8. \A p, o : May(v, Run, p, o) => May(w, Run, p, o)
  BY <1>4 DEF May, Owns
<1>9. ~Unchecked(w)
  BY <1>1, <1>4, <1>5, <1>6, <1>8 DEF Unchecked, Owns
<1>. QED  BY <1>1, <1>5, <1>6, <1>7, <1>8, <1>9 DEF DeadLetterWorks

\* checkDLQWorks, insertDeadLetters: a relay that starts can write its dead letters and goes
\* on to be able to, for every configuration, catalog and number of applies, but for a table
\* whose sequence it may not use or that refuses the row.
THEOREM StartedRelayCanDeadLetter == Spec => StartupMeansWritable
<1>1. ASSUME NEW v, Starts(v), ~Unchecked(v)
      PROVE  DeadLetterWorks(v)
  BY <1>1, CheckedIsWritable DEF Starts, StartupPasses
<1>2. ASSUME IInv, IInv', [Next]_vars, DeadLetterWorks(db)
      PROVE  DeadLetterWorks(db')
  <2>1. Consistent(db) /\ Consistent(db')
    BY <1>2 DEF IInv, Views
  <2>. QED  BY <1>2, <2>1, StepGrows, WritableStays
<1>3. IInv /\ IInv' /\ [Next]_vars =>
         [DeadLetterWorks(db) \/ (~Unchecked(db) /\ Starts(db)) => DeadLetterWorks(db')]_vars
  BY <1>1, <1>2
<1>. QED  BY <1>3, ProvisioningInvariant, PTL DEF Spec, StartupMeansWritable

\* specs/init_requirements.md, the binding invariant: where init created the event table and
\* its role owns the rest, a relay with the same configuration passes its startup checks, can
\* select, lock, delete and dead-letter, and has its trigger, whatever other applies do.
THEOREM ApplyThenRun == Spec => []RoundTrip
<1>1. ASSUME IInv, NEW i \in Inits, phase[i] = "done", OwnsAll(cfg[i]),
             <<"owner", connUser(cfg[i]), "events">> \in added[i],
             cfg[i].DLQ_TABLE # "" => ~Unchecked(db)
      PROVE  Ready(cfg[i], db)
  <2>. DEFINE c == cfg[i]
              me == connUser(c)
  <2>1. Known(i) = db /\ todo[i] = <<>> /\ Effects(i) /\ Checked(i) /\ Consistent(db)
    BY <1>1 DEF IInv, Plans, Open, Known, Outcomes, Views
  <2>2. Statements \ Members(todo[i]) = Statements
    BY <2>1 DEF Members
  <2>3. ~Managed(c) => me = Run
    BY DEF Managed, connUser
  <2>4. Run \in Roles(db)
    BY <2>1, <2>2, <2>3 DEF Effects, Statements
  <2>5. /\ Owns(db, me, "schema") /\ Owns(db, me, "events")
        /\ c.DLQ_TABLE # "" => Owns(db, me, "dlq")
    BY <1>1 DEF OwnsAll
  <2>6. \A o : Owns(db, me, o) => \A f \in db : f[1] = "owner" /\ f[3] = o => f[2] = me
    <3>. SUFFICES ASSUME NEW o, <<"owner", me, o>> \in db, NEW f \in db, f[1] = "owner", f[3] = o
                  PROVE  f[2] = me
      BY DEF Owns
    <3>1. <<"owner", me, o>>[1] = "owner" /\ <<"owner", me, o>>[2] = me /\ <<"owner", me, o>>[3] = o
      OBVIOUS
    <3>2. f = <<"owner", me, o>>
      BY <2>1, <3>1 DEF Consistent
    <3>. QED  BY <3>1, <3>2
  <2>7. ASSUME NEW g \in RunGrants, g[3] = "dlq" => c.DLQ_TABLE # ""
        PROVE  May(db, Run, g[2], g[3])
    <3>1. Owns(db, me, g[3]) /\ g[1] \in Statements
      <4>1. g[1] \in Grants /\ g[3] \in {"schema", "events", "dlq"}
        BY DEF RunGrants, Grants
      <4>. QED  BY <2>5, <2>7, <4>1 DEF Statements
    <3>2. Managed(c) => <<"grant", Run, g[2], g[3]>> \in db
      BY <2>1, <2>2, <2>6, <2>7, <3>1 DEF Effects
    <3>. QED  BY <2>3, <3>1, <3>2 DEF May
  <2>8. /\ May(db, Run, "usage", "schema")
        /\ \A p \in {"select", "update", "delete"} : May(db, Run, p, "events")
        /\ c.DLQ_TABLE # "" => May(db, Run, "insert", "dlq")
    BY <2>7 DEF RunGrants
  <2>9. {c.EVENT_ID, c.EVENT_TARGET, c.EVENT_DESTINATION} \ {""} \subseteq Columns(db)
    <3>1. \A t \in ColumnSettings : c[t] # "" => <<"column", c[t]>> \in db
      BY <1>1, <2>1 DEF Effects, createEventTable
    <3>2. \A t \in ColumnSettings : c[t] # "" => c[t] \in Columns(db)
      <4>. SUFFICES ASSUME NEW t \in ColumnSettings, c[t] # "" PROVE c[t] \in Columns(db)
        OBVIOUS
      <4>1. <<"column", c[t]>>[1] = "column" /\ <<"column", c[t]>>[2] = c[t]
        OBVIOUS
      <4>. QED  BY <3>1, <4>1 DEF Columns
    <3>3. {"EVENT_ID", "EVENT_TARGET", "EVENT_DESTINATION"} \subseteq ColumnSettings
      BY DEF ColumnSettings
    <3>4. c.EVENT_ID # "" => c.EVENT_ID \in Columns(db)
      BY <3>2, <3>3, Zenon
    <3>5. c.EVENT_TARGET # "" => c.EVENT_TARGET \in Columns(db)
      BY <3>2, <3>3, Zenon
    <3>6. c.EVENT_DESTINATION # "" => c.EVENT_DESTINATION \in Columns(db)
      BY <3>2, <3>3, Zenon
    <3>7. ASSUME NEW x \in {c.EVENT_ID, c.EVENT_TARGET, c.EVENT_DESTINATION}, x # ""
          PROVE  x \in Columns(db)
      <4>1. x = c.EVENT_ID \/ x = c.EVENT_TARGET \/ x = c.EVENT_DESTINATION
        BY <3>7
      <4>2. CASE x = c.EVENT_ID  BY <3>7, <3>4, <4>2, Zenon
      <4>3. CASE x = c.EVENT_TARGET  BY <3>7, <3>5, <4>3, Zenon
      <4>4. CASE x = c.EVENT_DESTINATION  BY <3>7, <3>6, <4>4, Zenon
      <4>. QED  BY <4>1, <4>2, <4>3, <4>4
    <3>. QED  BY <3>7
  <2>10. c.DLQ_TABLE # "" => validateDLQTableMetadata(db, Run)
    <3>. SUFFICES ASSUME c.DLQ_TABLE # "" PROVE validateDLQTableMetadata(db, Run)
      OBVIOUS
    <3>1. PICK n \in DOMAIN ShapeOf \cup {"init"} : <<"shape", n>> \in db /\ Insertable(Named(n))
      BY <2>1 DEF Checked
    <3>2. Shape(db) = Named(n) /\ Exists(db, "dlq")
      BY <2>1, <3>1, ShapeIsNamed DEF Consistent
    <3>. QED  BY <2>8, <3>1, <3>2 DEF validateDLQTableMetadata, Insertable
  <2>11. StartupPasses(c, db)
    BY <2>1, <2>4, <2>8, <2>10 DEF StartupPasses, Uses, Checked
  <2>12. BatchWorks(c, db)
    BY <2>8, <2>9 DEF BatchWorks
  <2>. QED  BY <1>1, <2>10, <2>11, <2>12, CheckedIsWritable DEF Ready
<1>2. ASSUME IInv, NEW i \in Inits, phase[i] = "done"
      PROVE  <<"trigger", "events">> \in db
  BY <1>2 DEF IInv, Triggers, Trigger
<1>3. IInv => RoundTrip
  BY <1>1, <1>2 DEF RoundTrip
<1>. QED  BY <1>3, ProvisioningInvariant, PTL
-----------------------------------------------------------------------------
(* The collection query and the routing classification.                    *)

\* One provider is enabled or both are.
LEMMA SingleIsOne ==
    ASSUME NEW c
    PROVE  /\ Single(c) => enabled(c) = {Only(c)}
           /\ \A p \in enabled(c) : enabled(c) = {p} => Single(c) /\ Only(c) = p
<1>1. IsFiniteSet(enabled(c))
  <2>1. IsFiniteSet(Targets)
    <3>1. Targets = {"pubsub"} \cup {"sqs"}
      BY DEF Targets
    <3>. QED  BY <3>1, FS_Singleton, FS_AddElement
  <2>. QED  BY <2>1, FS_Subset DEF enabled
<1>2. Single(c) <=> \E p : enabled(c) = {p}
  BY <1>1, FS_Singleton DEF Single
<1>3. ASSUME NEW p, enabled(c) = {p} PROVE Only(c) = p
  BY <1>3 DEF Only
<1>. QED  BY <1>2, <1>3

\* resolvedTargetSQL and targetPredicateSQL compute the classification's provider.
LEMMA TargetIsClassified ==
    ASSUME NEW c \in Relays, NEW r \in Rows
    PROVE  IF TargetPredicate(c, r) = "true"
           THEN ResolvedTarget(c, r) \in enabled(c) /\ ClassifiedTarget(c, r) = {ResolvedTarget(c, r)}
           ELSE ClassifiedTarget(c, r) = {}
<1>1. enabled(c) \subseteq Targets /\ Null \notin Targets /\ "" \notin Targets /\ Null # ""
  BY RoutingAssumption DEF enabled, Targets
<1>2. enabled(c) # {} /\ (~Single(c) => c.EVENT_TARGET # "")
  BY SelectionAssumption DEF validateRuntime
<1>3. CASE Single(c)
  <2>1. enabled(c) = {Only(c)}
    BY <1>3, SingleIsOne
  <2>2. Only(c) # Null /\ Only(c) # ""
    BY <1>1, <2>1
  <2>3. CASE c.EVENT_TARGET = ""
    BY <1>3, <2>1, <2>3 DEF TargetPredicate, ResolvedTarget, ClassifiedTarget
  <2>4. CASE c.EVENT_TARGET # "" /\ r.target \in {"", Null}
    BY <1>1, <1>3, <2>1, <2>2, <2>4
      DEF TargetPredicate, ResolvedTarget, ClassifiedTarget, Equal, Coalesce, NullIfEmpty
  <2>5. CASE c.EVENT_TARGET # "" /\ r.target \notin {"", Null}
    BY <1>1, <1>3, <2>1, <2>2, <2>5
      DEF TargetPredicate, ResolvedTarget, ClassifiedTarget, Equal, Coalesce, NullIfEmpty
  <2>. QED  BY <2>3, <2>4, <2>5
<1>4. CASE ~Single(c)
  <2>1. \A p \in enabled(c) : enabled(c) # {p}
    BY <1>4, SingleIsOne
  <2>2. CASE r.target \in {"", Null}
    BY <1>1, <1>2, <1>4, <2>1, <2>2
      DEF TargetPredicate, ResolvedTarget, ClassifiedTarget, In, NullIfEmpty
  <2>3. CASE r.target \notin {"", Null}
    BY <1>1, <1>2, <1>4, <2>1, <2>3
      DEF TargetPredicate, ResolvedTarget, ClassifiedTarget, In, NullIfEmpty
  <2>. QED  BY <2>2, <2>3
<1>. QED  BY <1>3, <1>4

\* The destination of a row of provider p, by the classification.
Goes(c, r, p) ==
    IF c.EVENT_DESTINATION # "" /\ r.destination \notin {"", Null}
    THEN r.destination ELSE defaultDestination(c, p)

\* resolvedDestinationSQL computes the classification's destination.
LEMMA DestinationIsClassified ==
    ASSUME NEW c \in Relays, NEW r \in Rows, ResolvedTarget(c, r) \in enabled(c)
    PROVE  /\ ResolvedDestination(c, r) = Goes(c, r, ResolvedTarget(c, r))
           /\ DefaultDestination(c, r) = defaultDestination(c, ResolvedTarget(c, r))
           /\ Goes(c, r, ResolvedTarget(c, r)) \in {""} \cup Destinations
<1>. DEFINE p == ResolvedTarget(c, r)
<1>1. DefaultDestination(c, r) = defaultDestination(c, p)
  BY DEF DefaultDestination
<1>2. p \in Targets
  BY DEF enabled
<1>3. defaultDestination(c, p) \in {""} \cup Destinations
  BY <1>2, SelectionAssumption
<1>4. r.destination \in {Null, ""} \cup Destinations
  BY DEF Rows
<1>5. Single(c) => p = Only(c)
  BY SingleIsOne
<1>6. Null \notin {""} \cup Destinations
  BY RoutingAssumption
<1>. HIDE DEF p
<1>. QED  BY <1>1, <1>3, <1>4, <1>5, <1>6 DEF ResolvedDestination, Goes, Coalesce, NullIfEmpty, p

\* routeOwnershipSQL: of a row of provider p, only p's list counts.
LEMMA OwnershipIsOfTarget ==
    ASSUME NEW c \in Relays, NEW r \in Rows, NEW p, p = ResolvedTarget(c, r), p \in enabled(c),
           NEW d, d = ResolvedDestination(c, r), d # Null
    PROVE  RouteOwnership(c, r) = "true" <=> (ownedDestinations(c, p) # {} => d \in ownedDestinations(c, p))
<1>1. enabled(c) \subseteq Targets /\ Null \notin Targets
  BY RoutingAssumption DEF enabled
<1>2. ASSUME NEW q \in Sharded(c), q # p PROVE OwnedBy(c, r, q) = "true"
  <2>1. Equal(p, q) = "false" /\ Not("false") = "true"
    BY <1>1, <1>2 DEF Equal, Not, Sharded
  <2>. QED  BY <2>1 DEF OwnedBy, AnyOf
<1>3. OwnedBy(c, r, p) = IF d \in ownedDestinations(c, p) THEN "true" ELSE "false"
  <2>1. Equal(p, p) = "true" /\ Not("true") = "false"
    BY <1>1 DEF Equal, Not
  <2>2. In(d, ownedDestinations(c, p)) = IF d \in ownedDestinations(c, p) THEN "true" ELSE "false"
    BY DEF In
  <2>. QED  BY <2>1, <2>2 DEF OwnedBy, AnyOf
<1>4. p \in Sharded(c) <=> ownedDestinations(c, p) # {}
  BY DEF Sharded
<1>. DEFINE parts == {OwnedBy(c, r, q) : q \in Sharded(c)}
<1>5. AllOf(parts) = "true" <=> "false" \notin parts /\ "unknown" \notin parts
  BY DEF AllOf
<1>6. \A q \in Sharded(c) : OwnedBy(c, r, q) \in {"true", "false"}
  BY <1>2, <1>3
<1>7. "false" \in parts <=> ownedDestinations(c, p) # {} /\ d \notin ownedDestinations(c, p)
  BY <1>2, <1>3, <1>4
<1>8. "unknown" \notin parts
  BY <1>6
<1>. QED  BY <1>5, <1>7, <1>8 DEF RouteOwnership

\* routableSQL: the select keeps exactly the rows with a route, and gives them that route.
LEMMA RoutableIsClassified ==
    ASSUME NEW c \in Relays, NEW r \in Rows
    PROVE  /\ Classified(c, r) = IF Routable(c, r) THEN {Route(c, r)} ELSE {}
           /\ Routable(c, r) => /\ TargetPredicate(c, r) = "true"
                                /\ ResolvedTarget(c, r) \in enabled(c)
                                /\ ResolvedDestination(c, r) \in Destinations
<1>. DEFINE p == ResolvedTarget(c, r)
            d == ResolvedDestination(c, r)
            owned == ownedDestinations(c, p) # {} => d \in ownedDestinations(c, p)
<1>1. Routable(c, r) <=> /\ TargetPredicate(c, r) = "true"
                         /\ Not(Equal(Coalesce(d, ""), "")) = "true"
                         /\ RouteOwnership(c, r) = "true"
  <2>1. TargetPredicate(c, r) \in {"true", "false", "unknown"}
    BY DEF TargetPredicate, Equal, In
  <2>2. Not(Equal(Coalesce(d, ""), "")) \in {"true", "false", "unknown"}
    BY DEF Not
  <2>3. RouteOwnership(c, r) \in {"true", "false", "unknown"}
    BY DEF RouteOwnership, AllOf
  <2>. QED  BY <2>1, <2>2, <2>3 DEF Routable, AllOf
<1>2. CASE TargetPredicate(c, r) # "true"
  <2>1. ClassifiedTarget(c, r) = {}
    BY <1>2, TargetIsClassified
  <2>. QED  BY <1>1, <1>2, <2>1 DEF Classified
<1>3. CASE TargetPredicate(c, r) = "true"
  <2>1. p \in enabled(c) /\ ClassifiedTarget(c, r) = {p}
    BY <1>3, TargetIsClassified
  <2>2. d = Goes(c, r, p) /\ d \in {""} \cup Destinations /\ d # Null
    BY <2>1, DestinationIsClassified, RoutingAssumption
  <2>3. RouteOwnership(c, r) = "true" <=> owned
    BY <2>1, <2>2, OwnershipIsOfTarget
  <2>4. Not(Equal(Coalesce(d, ""), "")) = "true" <=> d # ""
    BY <2>2, RoutingAssumption DEF Not, Equal, Coalesce
  <2>5. Routable(c, r) <=> d \in Destinations /\ owned
    BY <1>1, <1>3, <2>2, <2>3, <2>4, RoutingAssumption
  <2>6. Classified(c, r) = {rt \in [target : {p}, destination : Destinations] :
                               rt.destination = d /\ (ownedDestinations(c, rt.target) # {} =>
                                   rt.destination \in ownedDestinations(c, rt.target))}
    <3>1. \A rt \in [target : {p}, destination : Destinations] : rt.target = p
      OBVIOUS
    <3>. QED  BY <2>1, <2>2, <3>1 DEF Classified, Goes
  <2>. HIDE DEF p, d
  <2>7. Classified(c, r) = IF d \in Destinations /\ owned THEN {[target |-> p, destination |-> d]} ELSE {}
    BY <2>6
  <2>. QED  BY <1>3, <2>1, <2>5, <2>7 DEF Route, p, d
<1>. QED  BY <1>2, <1>3

\* routeMatchSQL: of the routes of the routes CTE, a row joins its own.
LEMMA MatchIsRoute ==
    ASSUME NEW c \in Relays, NEW r \in Rows, Routable(c, r), NEW q \in Rows, Routable(c, q)
    PROVE  RouteMatch(c, r, Route(c, q)) <=> Route(c, r) = Route(c, q)
<1>. DEFINE rt == Route(c, q)
            p == ResolvedTarget(c, r)
            d == ResolvedDestination(c, r)
<1>1. /\ p \in enabled(c) /\ d \in Destinations /\ TargetPredicate(c, r) = "true"
      /\ rt.target \in enabled(c) /\ rt.destination \in Destinations
  BY RoutableIsClassified DEF Route
<1>2. Null \notin Targets /\ Null \notin Destinations /\ Null # "" /\ enabled(c) \subseteq Targets /\ "" \notin Targets
  BY RoutingAssumption DEF enabled, Targets
<1>. HIDE DEF rt, p, d
<1>3. TargetMatch(c, r, rt) \in {"true", "false", "unknown"} /\ DestinationMatch(c, r, rt) \in {"true", "false", "unknown"}
  BY DEF TargetMatch, DestinationMatch, AnyOf, Equal
<1>4. TargetMatch(c, r, rt) = "true" <=> p = rt.target
  <2>1. CASE c.EVENT_TARGET = ""
    BY <1>1, <1>2, <2>1 DEF TargetMatch, Equal, p
  <2>2. CASE c.EVENT_TARGET # "" /\ Single(c)
    <3>1. p = Only(c) /\ rt.target = Only(c)
      BY <1>1, <2>2, SingleIsOne
    <3>2. CASE NullIfEmpty(r.target) = Null
      BY <1>1, <1>2, <2>2, <3>1, <3>2 DEF TargetMatch, Equal, AnyOf, AllOf, IsNull
    <3>3. CASE NullIfEmpty(r.target) # Null
      <4>1. NullIfEmpty(r.target) = p
        BY <2>2, <3>3 DEF p, ResolvedTarget, Coalesce
      <4>. QED  BY <1>1, <1>2, <2>2, <3>1, <4>1 DEF TargetMatch, Equal, AnyOf
    <3>. QED  BY <3>2, <3>3
  <2>3. CASE c.EVENT_TARGET # "" /\ ~Single(c)
    <3>1. p = r.target
      BY <1>1, <1>2, <2>3 DEF p, ResolvedTarget, NullIfEmpty
    <3>. QED  BY <1>1, <1>2, <2>3, <3>1 DEF TargetMatch, Equal
  <2>. QED  BY <2>1, <2>2, <2>3
<1>5. DestinationMatch(c, r, rt) = "true" <=> d = rt.destination
  <2>1. CASE c.EVENT_DESTINATION = ""
    BY <1>1, <1>2, <2>1 DEF DestinationMatch, Equal, d
  <2>2. CASE c.EVENT_DESTINATION # "" /\ NullIfEmpty(r.destination) = Null
    <3>1. d = DefaultDestination(c, r)
      BY <2>2 DEF d, ResolvedDestination, Coalesce
    <3>2. Equal(NullIfEmpty(r.destination), rt.destination) = "unknown" /\ IsNull(NullIfEmpty(r.destination)) = "true"
      BY <2>2 DEF Equal, IsNull
    <3>3. Equal(d, rt.destination) = IF d = rt.destination THEN "true" ELSE "false"
      BY <1>1, <1>2 DEF Equal
    <3>4. AllOf({"true", Equal(d, rt.destination)}) = Equal(d, rt.destination)
      BY <3>3 DEF AllOf
    <3>. QED  BY <2>2, <3>1, <3>2, <3>3, <3>4 DEF DestinationMatch, AnyOf
  <2>3. CASE c.EVENT_DESTINATION # "" /\ NullIfEmpty(r.destination) # Null
    <3>1. d = NullIfEmpty(r.destination)
      BY <2>3 DEF d, ResolvedDestination, Coalesce
    <3>2. IsNull(d) = "false" /\ \A v : AllOf({"false", v}) = "false"
      BY <1>1, <1>2 DEF IsNull, AllOf
    <3>3. Equal(d, rt.destination) = IF d = rt.destination THEN "true" ELSE "false"
      BY <1>1, <1>2 DEF Equal
    <3>. QED  BY <2>3, <3>1, <3>2, <3>3 DEF DestinationMatch, AnyOf
  <2>. QED  BY <2>1, <2>2, <2>3
<1>6. RouteMatch(c, r, rt) <=> p = rt.target /\ d = rt.destination
  BY <1>3, <1>4, <1>5 DEF RouteMatch, AllOf
<1>7. Route(c, r) = rt <=> p = rt.target /\ d = rt.destination
  BY DEF Route, p, d, rt
<1>. QED  BY <1>6, <1>7 DEF rt

\* Of some rows, one is the oldest.
LEMMA OldestRow ==
    ASSUME NEW S \in SUBSET Nat, S # {}
    PROVE  \E x \in S : \A y \in S : x <= y
<1>1. PICK x \in S : \A y \in S : ~(<<y, x>> \in OpToRel(<, Nat))
  BY WFMin, NatLessThanWellFounded
<1>2. \A y \in S : ~(y < x)
  BY <1>1 DEF OpToRel
<1>3. \A y \in S : x <= y
  BY <1>2
<1>. QED  BY <1>3

\* The LIMIT is at least one, however many routes there are.
LEMMA ShareIsPositive ==
    ASSUME NEW c \in Relays, NEW n \in Nat
    PROVE  EvenShare(c, n) \in Nat /\ EvenShare(c, n) >= 1
<1>1. c.COLLECT_BATCH_TARGET \in Nat
  BY SelectionAssumption
<1>2. n # 0 => (c.COLLECT_BATCH_TARGET + n - 1) \div n \in Int
  BY <1>1
<1>. QED  BY <1>2 DEF EvenShare

\* The select of a table, in the terms of the classification.
LEMMA SelectIsClassification ==
    ASSUME NEW c \in Relays, NEW t \in Tables
    PROVE  LET routes == UNION {Classified(c, t[e]) : e \in DOMAIN t}
           IN  Selected(c, t) = {s \in [id : DOMAIN t, route : routes] :
                   /\ s.id \in RowsOf(c, t, s.route)
                   /\ Cardinality({f \in RowsOf(c, t, s.route) : f < s.id})
                         < EvenShare(c, Cardinality(routes))}
<1>. DEFINE owned == {f \in DOMAIN t : Routable(c, t[f])}
            queried == {Route(c, t[e]) : e \in owned}
            routes == UNION {Classified(c, t[e]) : e \in DOMAIN t}
            match(rt) == {e \in DOMAIN t : Routable(c, t[e]) /\ RouteMatch(c, t[e], rt)}
            picked(rt) == {e \in match(rt) :
                              Cardinality({f \in match(rt) : f < e}) < EvenShare(c, Cardinality(queried))}
<1>1. \A e \in DOMAIN t : t[e] \in Rows
  <2>1. t \in Seq(Rows)
    BY SelectionAssumption
  <2>. QED  BY <2>1
<1>2. \A e \in DOMAIN t : Classified(c, t[e]) = IF e \in owned THEN {Route(c, t[e])} ELSE {}
  BY <1>1, RoutableIsClassified
<1>3. routes = queried
  BY <1>2
<1>4. ASSUME NEW rt \in queried PROVE match(rt) = RowsOf(c, t, rt)
  <2>1. PICK q \in owned : rt = Route(c, t[q])
    OBVIOUS
  <2>2. \A e \in owned : RouteMatch(c, t[e], rt) <=> Route(c, t[e]) = rt
    BY <1>1, <2>1, MatchIsRoute
  <2>3. \A e \in DOMAIN t : rt \in Classified(c, t[e]) <=> e \in owned /\ Route(c, t[e]) = rt
    BY <1>2
  <2>. QED  BY <2>2, <2>3 DEF RowsOf
<1>5. Selected(c, t) = UNION {{[id |-> e, route |-> rt] : e \in picked(rt)} : rt \in queried}
  BY DEF Selected
<1>6. \A rt \in queried : picked(rt) = {e \in RowsOf(c, t, rt) :
          Cardinality({f \in RowsOf(c, t, rt) : f < e}) < EvenShare(c, Cardinality(routes))}
  BY <1>3, <1>4
<1>7. \A rt : RowsOf(c, t, rt) \subseteq DOMAIN t
  BY DEF RowsOf
<1>. HIDE DEF owned, queried, routes, match, picked
<1>8. Selected(c, t) \subseteq {s \in [id : DOMAIN t, route : routes] :
                   /\ s.id \in RowsOf(c, t, s.route)
                   /\ Cardinality({f \in RowsOf(c, t, s.route) : f < s.id})
                         < EvenShare(c, Cardinality(routes))}
  <2>1. ASSUME NEW rt \in queried, NEW e \in picked(rt)
        PROVE  [id |-> e, route |-> rt] \in {s \in [id : DOMAIN t, route : routes] :
                   /\ s.id \in RowsOf(c, t, s.route)
                   /\ Cardinality({f \in RowsOf(c, t, s.route) : f < s.id})
                         < EvenShare(c, Cardinality(routes))}
    BY <1>3, <1>6, <1>7, <2>1
  <2>. QED  BY <1>5, <2>1
<1>9. ASSUME NEW s \in [id : DOMAIN t, route : routes], s.id \in RowsOf(c, t, s.route),
             Cardinality({f \in RowsOf(c, t, s.route) : f < s.id}) < EvenShare(c, Cardinality(routes))
      PROVE  s \in Selected(c, t)
  <2>1. s.route \in queried /\ s.id \in picked(s.route)
    BY <1>3, <1>6, <1>9
  <2>2. s = [id |-> s.id, route |-> s.route]
    OBVIOUS
  <2>. QED  BY <1>5, <2>1, <2>2
<1>. QED  BY <1>8, <1>9 DEF routes

\* selectEventsQuerySQL is the classification of specs/requirements.md, for every relay
\* configuration that validation lets pass and every table, of any length.
THEOREM QueryIsClassification == Spec => []SelectsClassified
<1>1. SelectsClassified
  BY SelectIsClassification DEF SelectsClassified
<1>. QED  BY <1>1, PTL

\* LIMIT GREATEST(1, ...): no route starves, whatever the batch target.
THEOREM EveryRouteIsServed == Spec => []NoRouteStarves
<1>1. ASSUME NEW c \in Relays, NEW t \in Tables, NEW e \in DOMAIN t, NEW rt \in Classified(c, t[e])
      PROVE  \E s \in Selected(c, t) : s.route = rt /\ \A f \in RowsOf(c, t, rt) : s.id <= f
  <2>. DEFINE routes == UNION {Classified(c, t[f]) : f \in DOMAIN t}
  <2>1. t \in Seq(Rows) /\ Len(t) \in Nat /\ DOMAIN t = 1..Len(t) /\ DOMAIN t \subseteq Nat
    <3>1. t \in Seq(Rows)
      BY SelectionAssumption
    <3>. QED  BY <3>1
  <2>2. RowsOf(c, t, rt) \subseteq DOMAIN t /\ e \in RowsOf(c, t, rt) /\ rt \in routes
    BY DEF RowsOf
  <2>3. PICK m \in RowsOf(c, t, rt) : \A f \in RowsOf(c, t, rt) : m <= f
    BY <2>1, <2>2, OldestRow
  <2>4. Cardinality(routes) \in Nat
    <3>1. IsFiniteSet(DOMAIN t)
      BY <2>1, FS_Interval
    <3>2. \A f \in DOMAIN t : Classified(c, t[f]) \subseteq {Route(c, t[f])}
      BY <2>1, RoutableIsClassified
    <3>3. routes \subseteq {Route(c, t[f]) : f \in DOMAIN t}
      BY <3>2
    <3>4. IsFiniteSet({Route(c, t[f]) : f \in DOMAIN t})
      <4>. DEFINE T == {Route(c, t[f]) : f \in DOMAIN t}
                  F == [f \in DOMAIN t |-> Route(c, t[f])]
      <4>1. F \in Surjection(DOMAIN t, T)
        BY DEF Surjection
      <4>. QED  BY <3>1, <4>1, FS_Surjection
    <3>. QED  BY <3>3, <3>4, FS_Subset, FS_CardinalityType
  <2>5. {f \in RowsOf(c, t, rt) : f < m} = {}
    BY <2>1, <2>2, <2>3
  <2>6. Cardinality({f \in RowsOf(c, t, rt) : f < m}) < EvenShare(c, Cardinality(routes))
    <3>1. EvenShare(c, Cardinality(routes)) \in Nat /\ EvenShare(c, Cardinality(routes)) >= 1
      BY <2>4, ShareIsPositive
    <3>2. Cardinality({f \in RowsOf(c, t, rt) : f < m}) = 0
      BY <2>5, FS_EmptySet, Zenon
    <3>. QED  BY <3>1, <3>2
  <2>. DEFINE s == [id |-> m, route |-> rt]
  <2>7. s \in Selected(c, t)
    <3>1. s \in [id : DOMAIN t, route : routes] /\ s.id = m /\ s.route = rt
      BY <2>2, <2>3
    <3>. QED  BY <2>3, <2>6, <3>1, SelectIsClassification
  <2>. QED  BY <2>3, <2>7
<1>2. NoRouteStarves
  BY <1>1 DEF NoRouteStarves
<1>. QED  BY <1>2, PTL

\* routeOwnershipSQL: shards never collect the same row, however the destinations are dealt.
THEOREM ShardsNeverOverlap == Spec => []ShardsDisjoint
<1>1. ASSUME NEW c \in Relays, NEW d \in Relays, SameRoutes(c, d), NEW r \in Rows,
             \A p \in enabled(c) : /\ ownedDestinations(c, p) # {} /\ ownedDestinations(d, p) # {}
                                  /\ ownedDestinations(c, p) \cap ownedDestinations(d, p) = {},
             Routable(c, r), Routable(d, r)
      PROVE  FALSE
  <2>1. Classified(c, r) = {Route(c, r)} /\ Classified(d, r) = {Route(d, r)}
    BY <1>1, RoutableIsClassified
  <2>2. ResolvedTarget(c, r) \in ClassifiedTarget(c, r) /\ ResolvedTarget(d, r) \in ClassifiedTarget(d, r)
    BY <1>1, TargetIsClassified, RoutableIsClassified
  <2>3. ClassifiedTarget(c, r) = ClassifiedTarget(d, r)
    BY <1>1 DEF SameRoutes, ClassifiedTarget
  <2>4. ResolvedTarget(c, r) = ResolvedTarget(d, r) /\ ResolvedTarget(c, r) \in enabled(c)
    BY <1>1, <2>2, <2>3, TargetIsClassified, RoutableIsClassified
  <2>5. ResolvedDestination(c, r) = ResolvedDestination(d, r)
    BY <1>1, <2>4, DestinationIsClassified DEF SameRoutes, Goes
  <2>6. /\ ResolvedDestination(c, r) \in ownedDestinations(c, ResolvedTarget(c, r))
        /\ ResolvedDestination(d, r) \in ownedDestinations(d, ResolvedTarget(d, r))
    <3>1. Route(c, r) \in Classified(c, r) /\ Route(d, r) \in Classified(d, r)
      BY <2>1
    <3>2. \A x \in {c, d} : /\ Route(x, r).target = ResolvedTarget(x, r)
                            /\ Route(x, r).destination = ResolvedDestination(x, r)
      BY DEF Route
    <3>3. ASSUME NEW x \in {c, d}
          PROVE  ownedDestinations(x, Route(x, r).target) # {} =>
                     Route(x, r).destination \in ownedDestinations(x, Route(x, r).target)
      BY <3>1 DEF Classified
    <3>. QED  BY <1>1, <2>4, <3>2, <3>3
  <2>. QED  BY <1>1, <2>4, <2>5, <2>6
<1>2. ShardsDisjoint
  BY <1>1 DEF ShardsDisjoint
<1>. QED  BY <1>2, PTL

\* validateRuntime: what it lets pass is what the query can serve.
THEOREM EveryProviderIsReachable == Spec => []ProvidersReachable
<1>1. ASSUME NEW c \in Relays, NEW p \in enabled(c),
             ~(c.EVENT_DESTINATION = "" /\ p \in Sharded(c)
                 /\ defaultDestination(c, p) \notin ownedDestinations(c, p))
      PROVE  \E r \in Rows : Routable(c, r) /\ Route(c, r).target = p
  <2>1. p \in Targets /\ p # "" /\ p # Null
    BY RoutingAssumption DEF enabled, Targets
  <2>2. PICK d \in Destinations :
            /\ c.EVENT_DESTINATION = "" => d = defaultDestination(c, p)
            /\ ownedDestinations(c, p) # {} => d \in ownedDestinations(c, p)
    <3>1. defaultDestination(c, p) \in {""} \cup Destinations /\ ownedDestinations(c, p) \subseteq Destinations
      BY <2>1, SelectionAssumption
    <3>2. defaultDestination(c, p) # "" \/ c.EVENT_DESTINATION # ""
      BY SelectionAssumption DEF validateRuntime
    <3>3. Destinations # {}
      BY SelectionAssumption
    <3>. QED  BY <1>1, <3>1, <3>2, <3>3 DEF Sharded
  <2>. DEFINE r == [target |-> p, destination |-> d]
  <2>3. r \in Rows /\ r.target = p /\ r.destination = d /\ d # "" /\ d # Null
    BY <2>1, RoutingAssumption, SelectionAssumption DEF Rows
  <2>. HIDE DEF r
  <2>4. p \in ClassifiedTarget(c, r)
    <3>1. c.EVENT_TARGET = "" => enabled(c) = {p}
      BY SelectionAssumption, SingleIsOne DEF validateRuntime
    <3>. QED  BY <2>1, <2>3, <3>1 DEF ClassifiedTarget
  <2>5. [target |-> p, destination |-> d] \in Classified(c, r)
    BY <2>2, <2>3, <2>4 DEF Classified
  <2>6. Routable(c, r) /\ Route(c, r) = [target |-> p, destination |-> d]
    BY <2>3, <2>5, RoutableIsClassified
  <2>7. Route(c, r).target = p
    BY <2>6
  <2>. QED  BY <2>3, <2>6, <2>7
<1>2. ProvidersReachable
  BY <1>1 DEF ProvidersReachable
<1>. QED  BY <1>2, PTL
=============================================================================
