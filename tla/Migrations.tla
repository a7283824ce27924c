----------------------------- MODULE Migrations -----------------------------
(***************************************************************************)
(* Opening the SQLite database: New applies the migrations the ledger does *)
(* not name.  Every statement of a migration commits by itself, and the    *)
(* record in the ledger is one more statement, so a process can end, and   *)
(* another one can act, between any two of them.                           *)
(*                                                                         *)
(* A table is the set of its columns that some migration adds, drops or    *)
(* fills, the statuses its CHECK admits and its rows, a row being its      *)
(* status; an index is the table it belongs to.  Tables go without awm_.   *)
(***************************************************************************)
EXTENDS Naturals, Sequences, FiniteSets, SequencesExt

CONSTANTS
    Procs,      \* processes that open the database
    Starts      \* records [v, opens]: the older release applied the migrations
                \* 1..v; opens bounds the calls of New after it

VARIABLES
    tables,     \* sqlite_master: the tables with their rows
    indexes,    \* sqlite_master: index name -> table
    ledger,     \* awm_schema_migrations, as numbers
    calls,      \* per process: where its call of New stands
    opens,      \* number of calls still to come
    cutIn,      \* history: the migrations some call began and did not finish
    overlap,    \* history: two calls were under way at once
    original    \* history: per table, the rows of the older release to keep

vars == <<tables, indexes, ledger, calls, opens, cutIn, overlap, original>>

(***************************************************************************)
(* Statements.                                                             *)
(***************************************************************************)
OldStatuses == {"pending", "complete"}
NewStatuses == OldStatuses \cup {"superseded"}
AnyStatus == NewStatuses \cup {"completed", "row", "orphan"}

Create(t, cols, check) ==
    [op |-> "create", t |-> t, cols |-> cols, check |-> check, lax |-> FALSE]
CreateAbsent(t, cols, check) == [Create(t, cols, check) EXCEPT !.lax = TRUE]
Index(t, names)   == [op |-> "index", t |-> t, names |-> names]
AddColumn(t, c)   == [op |-> "add", t |-> t, c |-> c]
DropColumn(t, c)  == [op |-> "dropcol", t |-> t, c |-> c]
Fill(t, c, from)  == [op |-> "fill", t |-> t, c |-> c, from |-> from]
Rename(t, to)     == [op |-> "rename", t |-> t, to |-> to]
Copy(from, to)    == [op |-> "copy", t |-> from, to |-> to, how |-> "same"]
CopyValid(from, to)     == [Copy(from, to) EXCEPT !.how = "valid"]
Drop(t)           == [op |-> "drop", t |-> t, lax |-> FALSE]
DropPresent(t)    == [Drop(t) EXCEPT !.lax = TRUE]

(***************************************************************************)
(* The migrations.  Consecutive CREATE INDEX IF NOT EXISTS on one table    *)
(* are one statement here.  PRAGMA foreign_keys only keeps the DROPs of a  *)
(* rebuild from cascading, and they cascade to nothing here.               *)
(***************************************************************************)
M0001 == << CreateAbsent("pointers", {}, AnyStatus),
            Index("pointers", {"pointers_updated", "pointers_path"}),
            CreateAbsent("pointer_links", {}, AnyStatus),
            Index("pointer_links", {"links_to"}),
            CreateAbsent("memories", {}, AnyStatus),
            Index("memories", {"memories_active", "memories_dedupe"}),
            CreateAbsent("receipts", {"memory_ids"}, AnyStatus),
            Index("receipts", {"receipts_created"}),
            CreateAbsent("runs", {}, AnyStatus),
            Index("runs", {"runs_created"}) >>

M0002 == << CreateAbsent("memory_candidates", {}, AnyStatus),
            Index("memory_candidates", {"candidates_created", "candidates_status",
                                        "candidates_receipt", "candidates_dedupe"}) >>

M0003 == << CreateAbsent("pointer_candidates", {}, AnyStatus),
            Index("pointer_candidates", {"pc_created", "pc_updated", "pc_hash"}) >>

ItemIndexes == {"items_receipt", "items_status", "items_updated"}
PlanIndexes == {"plans_status", "plans_receipt"}
TaskIndexes == {"tasks_status", "tasks_updated"}

M0004 == << CreateAbsent("work_items", {}, OldStatuses),
            Index("work_items", ItemIndexes) >>

M0005 == << CreateAbsent("work_plans", {}, OldStatuses),
            Index("work_plans", PlanIndexes),
            CreateAbsent("work_plan_tasks", {}, OldStatuses),
            Index("work_plan_tasks", TaskIndexes) >>

M0006 == << AddColumn("work_plans", "kind"),
            AddColumn("work_plans", "parent_plan_key"),
            AddColumn("work_plans", "external_refs"),
            Index("work_plans", {"plans_parent"}),
            AddColumn("work_plan_tasks", "parent_task_key"),
            AddColumn("work_plan_tasks", "external_refs"),
            Index("work_plan_tasks", {"tasks_parent"}) >>

M0007 == << CreateAbsent("verification_batches", {}, AnyStatus),
            Index("verification_batches", {"batches_created", "batches_receipt", "batches_plan"}),
            CreateAbsent("verification_results", {}, AnyStatus),
            Index("verification_results", {"results_batch", "results_test"}) >>

M0008 == << CreateAbsent("pointer_links_new", {}, AnyStatus),
            CopyValid("pointer_links", "pointer_links_new"),
            Drop("pointer_links"),
            Rename("pointer_links_new", "pointer_links"),
            Index("pointer_links", {"links_to"}),
            CreateAbsent("memory_candidates_new", {}, AnyStatus),
            CopyValid("memory_candidates", "memory_candidates_new"),
            Drop("memory_candidates"),
            Rename("memory_candidates_new", "memory_candidates"),
            Index("memory_candidates", {"candidates_created", "candidates_status",
                                        "candidates_receipt", "candidates_dedupe"}) >>

M0009 == << Index("runs", {"runs_receipt"}) >>

M0010 == << CreateAbsent("review_attempts", {}, AnyStatus),
            Index("review_attempts", {"attempts_created", "attempts_fingerprint"}) >>

M0011 == << AddColumn("receipts", "pointer_paths"),
            Fill("receipts", "pointer_paths", {}) >>

M0012 == << AddColumn("receipts", "initial_scope"),
            AddColumn("receipts", "baseline_paths"),
            AddColumn("receipts", "baseline_captured"),
            Fill("receipts", "initial_scope", {"pointer_paths"}),
            AddColumn("work_plans", "discovered_paths") >>

PlanColumns == {"kind", "parent_plan_key", "external_refs", "discovered_paths"}
TaskColumns == {"parent_task_key", "external_refs"}

(* Mutant: what an earlier attempt left is dropped first. *)
RebuildItemsClean(old, check, how) ==
    << DropPresent(old), Rename("work_items", old), Create("work_items", {}, check),
       [Copy(old, "work_items") EXCEPT !.how = how], Drop(old),
       Index("work_items", ItemIndexes) >>
\* The two rebuilds of the status columns, by 0013 and 0014.
RebuildItems(old, check, how) ==
    << Rename("work_items", old), Create("work_items", {}, check),
       [Copy(old, "work_items") EXCEPT !.how = how], Drop(old),
       Index("work_items", ItemIndexes) >>

RebuildPlans(oldPlans, oldTasks, check, how) ==
    << Rename("work_plans", oldPlans), Rename("work_plan_tasks", oldTasks),
       Create("work_plans", PlanColumns, check),
       [Copy(oldPlans, "work_plans") EXCEPT !.how = how],
       Index("work_plans", PlanIndexes \cup {"plans_parent"}),
       Create("work_plan_tasks", TaskColumns, check),
       [Copy(oldTasks, "work_plan_tasks") EXCEPT !.how = how],
       Index("work_plan_tasks", TaskIndexes \cup {"tasks_parent"}),
       Drop(oldTasks), Drop(oldPlans) >>

M0013 ==
    RebuildItems("work_items_legacy_completed", OldStatuses, "completed")
    \o RebuildPlans("work_plans_legacy_completed", "work_plan_tasks_legacy_completed",
                    OldStatuses, "completed")

M0014 ==
    RebuildItems("work_items_legacy_superseded", NewStatuses, "same")
    \o RebuildPlans("work_plans_legacy_superseded", "work_plan_tasks_legacy_superseded",
                    NewStatuses, "same")

M0015 == << DropPresent("memory_candidates"),
            DropPresent("memories"),
            DropColumn("receipts", "memory_ids") >>

ActorColumns(t) == << AddColumn(t, "actor_harness"), AddColumn(t, "actor_model"),
                      AddColumn(t, "actor_session") >>
M0016 == ActorColumns("receipts") \o ActorColumns("runs")
         \o ActorColumns("verification_batches") \o ActorColumns("review_attempts")

M0017 == << AddColumn("runs", "vcs_sha"), AddColumn("runs", "vcs_branch") >>

Script == << M0001, M0002, M0003, M0004, M0005, M0006, M0007, M0008, M0009,
             M0010, M0011, M0012, M0013, M0014, M0015, M0016, M0017 >>
LastMigration   == Len(Script)

(***************************************************************************)
(* What SQLite does with a statement.  The schema is a record of tables    *)
(* and indexes.                                                            *)
(***************************************************************************)
Exists(s, t) == t \in DOMAIN s.tables
Put(s, t, r) == [s EXCEPT !.tables = [x \in DOMAIN @ \cup {t} |-> IF x = t THEN r ELSE @[x]]]
Without(s, t) == [s EXCEPT !.tables = [x \in DOMAIN @ \ {t} |-> @[x]]]

\* f, and g where f has nothing.
Joined(f, g) == [x \in DOMAIN f \cup DOMAIN g |-> IF x \in DOMAIN f THEN f[x] ELSE g[x]]

NewTable(st) == [cols |-> st.cols, filled |-> {}, check |-> st.check, rows |-> <<>>]

\* The rows INSERT INTO ... SELECT inserts.
Selected(rows, how) ==
    CASE how = "same" -> rows
      [] how = "valid" -> [i \in {j \in DOMAIN rows : rows[j] # "orphan"} |-> rows[i]]
      [] how = "completed" -> [i \in DOMAIN rows |->
                                  IF rows[i] = "completed" THEN "complete" ELSE rows[i]]

Possible(s, st) ==
    CASE st.op = "create"  -> st.lax \/ ~Exists(s, st.t)
      [] st.op = "drop"    -> st.lax \/ Exists(s, st.t)
      [] st.op = "index"   -> Exists(s, st.t)
      [] st.op = "add"     -> Exists(s, st.t) /\ st.c \notin s.tables[st.t].cols
      [] st.op \in {"dropcol", "fill"} ->
            Exists(s, st.t) /\ st.c \in s.tables[st.t].cols
      [] st.op = "rename"  -> Exists(s, st.t) /\ ~Exists(s, st.to)
      [] st.op = "copy"    ->
            /\ Exists(s, st.t) /\ Exists(s, st.to)
            /\ s.tables[st.to].cols \subseteq s.tables[st.t].cols
            /\ LET rows == Selected(s.tables[st.t].rows, st.how)
               IN /\ DOMAIN rows \cap DOMAIN s.tables[st.to].rows = {}
                  /\ \A i \in DOMAIN rows : rows[i] \in s.tables[st.to].check

Effect(s, st) ==
    CASE st.op = "create" -> IF Exists(s, st.t) THEN s ELSE Put(s, st.t, NewTable(st))
      [] st.op = "drop"   -> [Without(s, st.t) EXCEPT
                                !.indexes = [i \in {j \in DOMAIN @ : @[j] # st.t} |-> @[i]]]
      \* IF NOT EXISTS looks for the name of the index, whatever table it is on.
      [] st.op = "index"  -> [s EXCEPT !.indexes = Joined(@, [i \in st.names |-> st.t])]
      [] st.op = "add"    -> [s EXCEPT !.tables[st.t].cols = @ \cup {st.c}]
      [] st.op = "dropcol"-> [s EXCEPT !.tables[st.t].cols = @ \ {st.c}]
      [] st.op = "fill"   -> IF st.from \subseteq s.tables[st.t].filled
                             THEN [s EXCEPT !.tables[st.t].filled = @ \cup {st.c}]
                             ELSE s
      [] st.op = "rename" -> [Put(Without(s, st.t), st.to, s.tables[st.t]) EXCEPT
                                !.indexes = [i \in DOMAIN @ |-> IF @[i] = st.t THEN st.to ELSE @[i]]]
      [] st.op = "copy"   -> [s EXCEPT !.tables[st.to].rows =
                                Joined(@, Selected(s.tables[st.t].rows, st.how))]

(***************************************************************************)
(* The database an older release leaves: the first v migrations, and two   *)
(* rows in every table.  Before 0013 a status was spelled "completed",     *)
(* which 0013 translates; its test builds such a database.                 *)
(***************************************************************************)
Statused == {"work_items", "work_plans", "work_plan_tasks"}
Doomed   == {"memories", "memory_candidates"}   \* dropped on purpose by 0015

Empty == [tables |-> <<>>, indexes |-> <<>>]
\* The first v migrations; a set, so that TLC evaluates each one before the next.
Passed[v \in 0..LastMigration] ==
    IF v = 0 THEN {Empty} ELSE {FoldLeft(Effect, s, Script[v]) : s \in Passed[v - 1]}
Migrated(v) == CHOOSE s \in Passed[v] : TRUE

LeftRows(v, t) ==
    IF t \in Statused
    THEN IF v < 13 THEN <<"completed", "pending">> ELSE <<"complete", "pending">>
    ELSE IF t = "pointer_links" /\ v < 8 THEN <<"row", "orphan">> ELSE <<"row", "row">>

Left(v) ==
    LET s == Migrated(v)
    IN  [tables |-> [t \in DOMAIN s.tables |->
            [cols |-> s.tables[t].cols, filled |-> s.tables[t].filled,
             check |-> IF v < 13 THEN AnyStatus ELSE s.tables[t].check, rows |-> LeftRows(v, t)]],
         indexes |-> s.indexes]

FinalTables == {"pointers", "pointer_links", "pointer_candidates", "receipts", "runs",
                "work_items", "work_plans", "work_plan_tasks", "verification_batches",
                "verification_results", "review_attempts"}

\* The statements of one kind on a table, and the columns they give it.
Issued(op, t) == {st \in UNION {Range(Script[m]) : m \in DOMAIN Script} : st.op = op /\ st.t = t}
GivenColumns(t) ==
    (UNION {st.cols : st \in Issued("create", t)}) \cup {st.c : st \in Issued("add", t)}
FilledColumns == {"pointer_paths", "initial_scope"}

\* What a statement did is still there to be seen.
Stands(tabs, st) ==
    /\ st.t \in DOMAIN tabs
    /\ st.op = "add" => st.c \in tabs[st.t].cols
    /\ st.op = "dropcol" => st.c \notin tabs[st.t].cols
    /\ st.op = "fill" => st.c \in tabs[st.t].filled

\* The tables no migration rebuilds or drops.
Ordinary == FinalTables \ ({"pointer_links"} \cup Statused)

\* What the last rebuild of t leaves.
RebuiltColumns(t) ==
    CASE t = "work_items" -> {} [] t = "work_plans" -> PlanColumns [] t = "work_plan_tasks" -> TaskColumns
Rebuilt(tabs, t) ==
    t \in DOMAIN tabs /\ tabs[t].check = NewStatuses /\ RebuiltColumns(t) \subseteq tabs[t].cols

\* A migration that may run again whatever part of it has run.
Repeatable(m) ==
    \A i \in DOMAIN Script[m] :
        \/ Script[m][i].op = "index"
        \/ Script[m][i].op \in {"create", "drop"} /\ Script[m][i].lax

FinalIndexes == UNION {st.names : st \in UNION {Issued("index", t) : t \in FinalTables}}

(* An older release applied a prefix of the script. *)
ASSUME StartsAssumption == \A start \in Starts : start.v \in 0..LastMigration

(* What Left computes, for every prefix: a release leaves no table of a rebuild behind and has
   no table at all when the prefix is empty; what its statements did stands in the tables that
   are never rebuilt, and so does the last rebuild of the others. *)
ASSUME LeftAssumption ==
    \A v \in 0..LastMigration :
        LET tabs == Left(v).tables
        IN  /\ DOMAIN tabs \subseteq FinalTables \cup (IF v < 15 THEN Doomed ELSE {})
            /\ v = 0 => DOMAIN tabs = {}
            /\ \A m \in 1..v : \A s \in DOMAIN Script[m] :
                  Script[m][s].t \in Ordinary => Stands(tabs, Script[m][s])
            /\ v >= 8 => "pointer_links" \in DOMAIN tabs
            /\ v >= 14 => \A t \in Statused : Rebuilt(tabs, t)
            /\ \A t \in DOMAIN tabs \cap FinalTables : tabs[t].cols \subseteq GivenColumns(t)
            /\ "receipts" \in DOMAIN tabs => tabs["receipts"].filled \subseteq FilledColumns

(***************************************************************************)
(* The schemas a call of New meets before each statement when no two calls *)
(* overlap and only migrations of C are cut or refused, from whatever      *)
(* release.  A migration that was begins again with its first statement.   *)
(***************************************************************************)
\* What statement st makes of the schemas it is not refused on.
After(schemas, st) == {Effect(s, st) : s \in {x \in schemas : Possible(x, st)}}
\* The schemas before each statement of mig, and those after the last.
Along(schemas, mig) ==
    FoldLeft(LAMBDA met, st : Append(met, After(met[Len(met)], st)), <<schemas>>, mig)
Rerun(schemas, mig) == schemas \cup UNION Range(Along(schemas, mig))
Reruns == 4     \* more of them meet nothing new (Covers)
Met(C) ==
    LET first(met, m) ==
            {Left(m - 1)} \cup IF m = 1 THEN {} ELSE met[m - 1][Len(Script[m - 1]) + 1]
        start(met, m) ==
            FoldLeft(LAMBDA schemas, i : Rerun(schemas, Script[m]), first(met, m),
                     IF m \in C THEN [i \in 1..Reruns |-> i] ELSE <<>>)
    IN  FoldLeft(LAMBDA met, m : Append(met, Along(start(met, m), Script[m])),
                 <<>>, [m \in 1..LastMigration |-> m])

\* met has all of these schemas, and outside C nothing is refused.
Covers(met, C) ==
    \A m \in 1..LastMigration :
        /\ Left(m - 1) \in met[m][1]
        /\ m < LastMigration => met[m][Len(Script[m]) + 1] \subseteq met[m + 1][1]
        /\ m \in C => \A s \in 1 .. Len(Script[m]) + 1 : met[m][s] \subseteq met[m][1]
        /\ \A s \in DOMAIN Script[m] : \A schema \in met[m][s] :
              IF Possible(schema, Script[m][s])
              THEN Effect(schema, Script[m][s]) \in met[m][s + 1] ELSE m \in C

Repeatables == {m \in 1..LastMigration : Repeatable(m)}
MetRepeating == Met(Repeatables)
(* What comes of the script when only repeatable migrations are cut: no statement is refused. *)
ASSUME RepeatAssumption ==
    /\ Covers(MetRepeating, Repeatables)
    /\ \A m \in 1..LastMigration : \A s \in DOMAIN Script[m] :
          \A schema \in MetRepeating[m][s] : Possible(schema, Script[m][s])

\* All but the rebuilds of the status columns.
Elsewhere == 1..LastMigration \ {13, 14}
MetElsewhere == Met(Elsewhere)
(* And when 0013 and 0014 alone are not cut: every index is there at the end, as it is in the
   database of the last release. *)
ASSUME RestoreAssumption ==
    /\ Covers(MetElsewhere, Elsewhere)
    /\ \A schema \in {Left(LastMigration)}
                       \cup MetElsewhere[LastMigration][Len(Script[LastMigration]) + 1] :
          DOMAIN schema.indexes = FinalIndexes

NoCall == [pc |-> "idle", m |-> 0, s |-> 0]

Init ==
    \E start \in Starts :
        /\ tables = Left(start.v).tables
        /\ indexes = Left(start.v).indexes
        /\ ledger = 1..start.v
        /\ opens = start.opens
        /\ original = [t \in DOMAIN tables \ Doomed |->
                          {i \in DOMAIN tables[t].rows : tables[t].rows[i] # "orphan"}]
        /\ calls = [p \in Procs |-> NoCall]
        /\ cutIn = {}
        /\ overlap = FALSE

(***************************************************************************)
(* New and applyMigrations.                                                *)
(***************************************************************************)
Schema == [tables |-> tables, indexes |-> indexes]
Open(p) == calls[p].pc \in {"check", "exec", "record"}
Current(p) == Script[calls[p].m][calls[p].s]

\* The process opens the database: idle, or again after a call that ended.
StartOpen(p) ==
    /\ calls[p].pc \in {"idle", "failed", "cut"}
    /\ opens > 0
    /\ opens' = opens - 1
    /\ calls' = [calls EXCEPT ![p] = [pc |-> "check", m |-> 1, s |-> 1]]
    /\ overlap' = (overlap \/ \E q \in Procs \ {p} : Open(q))
    /\ UNCHANGED <<tables, indexes, ledger, cutIn, original>>

(* Mutant: a migration is recorded before it is applied. *)
CheckRecords(p) ==
    /\ calls[p].pc = "check"
    /\ calls' = [calls EXCEPT ![p] =
            IF @.m > LastMigration THEN [@ EXCEPT !.pc = "ready"]
            ELSE IF @.m \in ledger THEN [pc |-> "check", m |-> @.m + 1, s |-> 1]
            ELSE [pc |-> "exec", m |-> @.m, s |-> 1]]
    /\ ledger' = IF calls[p].m > LastMigration THEN ledger ELSE ledger \cup {calls[p].m}
    /\ UNCHANGED <<tables, indexes, opens, cutIn, overlap, original>>

(* Mutant: 0013 is passed over, since 0014 rebuilds the same tables. *)
CheckPassesOver(p) ==
    /\ calls[p].pc = "check"
    /\ calls' = [calls EXCEPT ![p] =
            IF @.m > LastMigration THEN [@ EXCEPT !.pc = "ready"]
            ELSE IF @.m \in ledger \cup {13} THEN [pc |-> "check", m |-> @.m + 1, s |-> 1]
            ELSE [pc |-> "exec", m |-> @.m, s |-> 1]]
    /\ UNCHANGED <<tables, indexes, ledger, opens, cutIn, overlap, original>>

\* SELECT COUNT(1) FROM awm_schema_migrations, for one migration.
Check(p) ==
    /\ calls[p].pc = "check"
    /\ calls' = [calls EXCEPT ![p] =
            IF @.m > LastMigration THEN [@ EXCEPT !.pc = "ready"]
            ELSE IF @.m \in ledger THEN [pc |-> "check", m |-> @.m + 1, s |-> 1]
            ELSE [pc |-> "exec", m |-> @.m, s |-> 1]]
    /\ UNCHANGED <<tables, indexes, ledger, opens, cutIn, overlap, original>>

\* One statement of the migration, committed by itself.
Exec(p) ==
    /\ calls[p].pc = "exec"
    /\ Possible(Schema, Current(p))
    /\ LET s == Effect(Schema, Current(p))
       IN  tables' = s.tables /\ indexes' = s.indexes
    /\ calls' = [calls EXCEPT ![p] =
            IF @.s = Len(Script[@.m]) THEN [@ EXCEPT !.pc = "record"]
            ELSE [pc |-> "exec", m |-> @.m, s |-> @.s + 1]]
    /\ UNCHANGED <<ledger, opens, cutIn, overlap, original>>

\* The statement is an error, and New returns it.
Refuse(p) ==
    /\ calls[p].pc = "exec"
    /\ ~Possible(Schema, Current(p))
    /\ calls' = [calls EXCEPT ![p].pc = "failed"]
    /\ UNCHANGED <<tables, indexes, ledger, opens, cutIn, overlap, original>>

(* Mutant: the migration is not recorded. *)
RecordForgets(p) ==
    /\ calls[p].pc = "record"
    /\ calls' = [calls EXCEPT ![p] = [pc |-> "check", m |-> @.m + 1, s |-> 1]]
    /\ UNCHANGED <<tables, indexes, ledger, opens, cutIn, overlap, original>>

\* INSERT OR IGNORE INTO awm_schema_migrations.
Record(p) ==
    /\ calls[p].pc = "record"
    /\ ledger' = ledger \cup {calls[p].m}
    /\ calls' = [calls EXCEPT ![p] = [pc |-> "check", m |-> @.m + 1, s |-> 1]]
    /\ UNCHANGED <<tables, indexes, opens, cutIn, overlap, original>>

\* A crash, a cancelled context or SQLITE_BUSY, between any two statements.
Cut(p) ==
    /\ Open(p)
    /\ calls' = [calls EXCEPT ![p].pc = "cut"]
    /\ cutIn' = IF calls[p].pc = "record" \/ (calls[p].pc = "exec" /\ calls[p].s > 1)
                THEN cutIn \cup {calls[p].m} ELSE cutIn
    /\ UNCHANGED <<tables, indexes, ledger, opens, overlap, original>>

\* A process with an open database supersedes a work item.
Supersede(p) ==
    /\ calls[p].pc = "ready"
    /\ Exists(Schema, "work_items")
    /\ 1 \in DOMAIN tables["work_items"].rows
    /\ "superseded" \in tables["work_items"].check
    /\ tables' = [tables EXCEPT !["work_items"].rows[1] = "superseded"]
    /\ UNCHANGED <<indexes, ledger, calls, opens, cutIn, overlap, original>>

Next == \E p \in Procs :
    \/ StartOpen(p) \/ Check(p) \/ Exec(p) \/ Refuse(p) \/ Record(p) \/ Cut(p)
    \/ Supersede(p)

Spec == Init /\ [][Next]_vars

(***************************************************************************)
(* Properties.                                                             *)
(***************************************************************************)
Homes(t) == {t} \cup
    CASE t = "pointer_links"   -> {"pointer_links_new"}
      [] t = "work_items"      -> {"work_items_legacy_completed", "work_items_legacy_superseded"}
      [] t = "work_plans"      -> {"work_plans_legacy_completed", "work_plans_legacy_superseded"}
      [] t = "work_plan_tasks" -> {"work_plan_tasks_legacy_completed",
                                   "work_plan_tasks_legacy_superseded"}
      [] OTHER -> {}

FinalColumns(t) == GivenColumns(t) \ {st.c : st \in Issued("dropcol", t)}

TypeOK ==
    /\ \A t \in DOMAIN tables : /\ tables[t].filled \subseteq tables[t].cols
                              /\ tables[t].check \subseteq AnyStatus
                              /\ \A i \in DOMAIN tables[t].rows : tables[t].rows[i] \in tables[t].check
    /\ \A i \in DOMAIN indexes : indexes[i] \in DOMAIN tables
    /\ ledger \subseteq 1..LastMigration
    /\ cutIn \subseteq 1..LastMigration
    /\ opens \in Nat
    /\ overlap \in BOOLEAN
    /\ \A p \in Procs : calls[p].pc \in {"idle", "check", "exec", "record", "ready", "failed", "cut"}

\* Rebuilding a table never drops the last copy of a row: wherever a call is cut
\* short, and whatever two calls at once do, every row of the older release is in its
\* table or in the copy it was renamed to or is copied from (0008, 0013, 0014).
NoRowLost ==
    \A t \in DOMAIN original : \A i \in original[t] :
        \E h \in Homes(t) : h \in DOMAIN tables /\ i \in DOMAIN tables[h].rows

\* An open that returns success leaves the schema the last migration describes, with
\* every row where the queries look for it, no leftover of a rebuild and no status of the
\* older release, although earlier calls may have been cut anywhere (New).
Settled ==
    /\ DOMAIN tables = FinalTables
    /\ \A t \in FinalTables :
          /\ tables[t].cols = FinalColumns(t)
          /\ t \in Statused => tables[t].check = NewStatuses
          /\ t \in DOMAIN original => original[t] \subseteq DOMAIN tables[t].rows
    /\ tables["receipts"].filled = FilledColumns
ReadyMeansSettled ==
    \A p \in Procs : calls[p].pc = "ready" /\ ~overlap => Settled

\* Opening fails for no reason of its own: a statement is refused only after a call was
\* cut inside a migration that alters tables in place, or two calls overlapped.
RefusedOnlyAfterCut ==
    \A p \in Procs : calls[p].pc = "failed" =>
        overlap \/ \E m \in cutIn : ~Repeatable(m)

\* Every index is there after an open, which 0013 alone does not see to: its CREATE INDEX
\* find the names still taken by the renamed tables, and the DROPs after them take the
\* indexes away; 0014 then finds the names free.  A second run of either turns that around.
IndexesRestored ==
    \A p \in Procs : calls[p].pc = "ready" /\ ~overlap /\ cutIn \cap {13, 14} = {} =>
        FinalIndexes = DOMAIN indexes
=============================================================================
