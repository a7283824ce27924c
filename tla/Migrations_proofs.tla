------------------------- MODULE Migrations_proofs -------------------------
(***************************************************************************)
(* NoRowLost for any number of processes, of calls of New and of cuts, and *)
(* whatever release the database comes from.                               *)
(*                                                                         *)
(* Three facts carry it.  Of the statements of the script, only those of   *)
(* the rebuilds drop or rename a table whose rows are kept (ScriptFits).   *)
(* What a statement does to the rows of every other table is to keep them  *)
(* (EffectDoes).  And the statements of a rebuild guard themselves: RENAME *)
(* needs its new name free and INSERT its keys, so a rebuild is never      *)
(* between its first and last statement in two processes at once, and the  *)
(* one that is there has copied the rows before it drops them (IInv).      *)
(*                                                                         *)
(* And ReadyMeansSettled: what the statements of the ledger's migrations   *)
(* did is still there when an open returns success (Settling).  And        *)
(* RefusedOnlyAfterCut and IndexesRestored, which depend on the exact      *)
(* schema at each statement: it is one the script meets (Meets).           *)
(***************************************************************************)
EXTENDS Migrations, TLAPS

(***************************************************************************)
(* The inductive invariant.                                                *)
(***************************************************************************)
(* Where migration m keeps the rows of t while it rebuilds it (migrations 0013 and 0014). *)
Legacy(m, t) ==
    CASE t = "work_items"      -> IF m = 13 THEN "work_items_legacy_completed"
                                            ELSE "work_items_legacy_superseded"
      [] t = "work_plans"      -> IF m = 13 THEN "work_plans_legacy_completed"
                                            ELSE "work_plans_legacy_superseded"
      [] t = "work_plan_tasks" -> IF m = 13 THEN "work_plan_tasks_legacy_completed"
                                            ELSE "work_plan_tasks_legacy_superseded"

(* The statements of 0013 and of 0014 that rename t away, copy its rows back and drop the
   table they came from. *)
RenamedAt(t) == CASE t = "work_items" -> 1 [] t = "work_plans" -> 6  [] t = "work_plan_tasks" -> 7
CopiedAt(t)  == CASE t = "work_items" -> 3 [] t = "work_plans" -> 9  [] t = "work_plan_tasks" -> 12
DroppedAt(t) == CASE t = "work_items" -> 4 [] t = "work_plans" -> 15 [] t = "work_plan_tasks" -> 14

(* The rows of x to keep: those 0008 does not leave out as orphans. *)
Valid(tabs, x) ==
    IF x \in DOMAIN tabs THEN {i \in DOMAIN tabs[x].rows : tabs[x].rows[i] # "orphan"} ELSE {}

(* Where a process stands: in migration m, about to issue statement s; in the rebuild of t,
   between its RENAME and its DROP; past the copy, with only the DROP to come. *)
Executes(p, m) == calls[p].pc = "exec" /\ calls[p].m = m
At(p, m, s) == Executes(p, m) /\ calls[p].s = s
Inside(p, m, t) == Executes(p, m) /\ calls[p].s \in RenamedAt(t) + 1 .. DroppedAt(t)
Dropping(p, m, t) == Executes(p, m) /\ calls[p].s \in CopiedAt(t) + 1 .. DroppedAt(t)

(* The shapes of a table and of a call. *)
IsTable(r) == r = [cols |-> r.cols, filled |-> r.filled, check |-> r.check, rows |-> r.rows]
IsCall(c) == c = [pc |-> c.pc, m |-> c.m, s |-> c.s]

(* A call stands at a migration of the script and at one of its statements. *)
CallOK(c) ==
    /\ IsCall(c)
    /\ c.pc \in {"idle", "check", "exec", "record", "ready", "failed", "cut"}
    /\ c.pc = "check" => c.m \in 1..LastMigration + 1
    /\ c.pc \in {"exec", "record"} => c.m \in 1..LastMigration
    /\ c.pc = "exec" => c.s \in DOMAIN Script[c.m]

(* The types the proof needs. *)
Typed ==
    /\ \A x \in DOMAIN tables : IsTable(tables[x])
    /\ calls = [p \in Procs |-> calls[p]]
    /\ \A p \in Procs : CallOK(calls[p])
    /\ DOMAIN original \subseteq FinalTables

(* A table that no migration rebuilds keeps its rows. *)
OrdinarySafe ==
    \A t \in Ordinary \cap DOMAIN original :
        t \in DOMAIN tables /\ original[t] \subseteq Valid(tables, t)

(* 0001 creates pointer_links only when the ledger does not name it, and every release with
   links has recorded it: no call brings an empty table back between the DROP and the RENAME
   of 0008. *)
FirstDone ==
    "pointer_links" \in DOMAIN original => 1 \in ledger /\ \A p \in Procs : ~Executes(p, 1)

(* A link is in pointer_links while that table is there and in the copy while it is not; who is
   about to drop the table has copied the link, and only one call gets so far, because the
   INSERT of a second one finds the key taken. *)
LinkSafe(i) ==
    /\ i \in Valid(tables, IF "pointer_links" \in DOMAIN tables THEN "pointer_links"
                                                                ELSE "pointer_links_new")
    /\ \A p \in Procs :
          /\ At(p, 8, 3) => "pointer_links" \in DOMAIN tables
                            /\ i \in Valid(tables, "pointer_links_new")
          /\ At(p, 8, 4) => "pointer_links" \notin DOMAIN tables
    /\ \A p, q \in Procs :
          (At(p, 8, 3) \/ At(p, 8, 4)) /\ (At(q, 8, 3) \/ At(q, 8, 4)) => p = q

(* Every link of the older release. *)
LinksSafe == "pointer_links" \in DOMAIN original => \A i \in original["pointer_links"] : LinkSafe(i)

(* While a process rebuilds t the old name is taken, which is why no other one can. *)
OneInside(m, t) ==
    /\ \A p \in Procs : Inside(p, m, t) => Legacy(m, t) \in DOMAIN tables
    /\ \A p, q \in Procs : Inside(p, m, t) /\ Inside(q, m, t) => p = q

(* A row of a table with a status is in the table or in what one of the two rebuilds renamed.
   A process that may drop the latter has it somewhere else, whichever way 0013 and 0014
   overlap. *)
RowSafe(t, i) ==
    LET new == i \in Valid(tables, t)
        completed == i \in Valid(tables, Legacy(13, t))
        superseded == i \in Valid(tables, Legacy(14, t))
    IN  /\ new \/ completed \/ superseded
        /\ \A p \in Procs : Dropping(p, 13, t) => new \/ superseded
        /\ \A p \in Procs : Dropping(p, 14, t) => new \/ completed
        /\ \A p, q \in Procs : Dropping(p, 13, t) /\ Dropping(q, 14, t) => new

(* Both for every table with a status. *)
StatusedSafe ==
    \A t \in Statused :
        /\ OneInside(13, t) /\ OneInside(14, t)
        /\ t \in DOMAIN original => \A i \in original[t] : RowSafe(t, i)

(* The inductive invariant. *)
IInv == Typed /\ OrdinarySafe /\ FirstDone /\ LinksSafe /\ StatusedSafe

(***************************************************************************)
(* The statements of the script.                                           *)
(***************************************************************************)
(* A statement takes a table away, and a statement makes one. *)
Takes(st, x) == st.op \in {"drop", "rename"} /\ st.t = x
Makes(st, x) == (st.op = "create" /\ st.t = x) \/ (st.op = "rename" /\ st.to = x)

(* The kinds of statements, and of copies. *)
Ops == {"create", "drop", "index", "add", "dropcol", "fill", "rename", "copy"}
Hows == {"same", "valid", "completed"}

(* The names the rebuilds of the status columns rename to. *)
Legacies == {"work_items_legacy_completed", "work_items_legacy_superseded",
             "work_plans_legacy_completed", "work_plans_legacy_superseded",
             "work_plan_tasks_legacy_completed", "work_plan_tasks_legacy_superseded"}
(* The tables that hold rows to keep at some time. *)
Kept == Ordinary \cup Statused \cup {"pointer_links", "pointer_links_new"} \cup Legacies

(* INSERT INTO y SELECT FROM x, and ALTER TABLE x RENAME TO y. *)
IsCopy(st, x, y) == st.op = "copy" /\ st.t = x /\ st.to = y /\ st.how \in Hows
IsRename(st, x, y) == st.op = "rename" /\ st.t = x /\ st.to = y

(* A statement the model knows. *)
WellFormed(st) ==
    /\ st.op \in Ops
    /\ st.op = "copy" => st.how \in Hows

(* A statement that neither takes a kept table away nor makes a legacy one. *)
Aside(st) ==
    /\ st.op = "create" => st.t \notin Legacies
    /\ st.op = "drop" => st.t \notin Kept
    /\ st.op = "rename" => st.t \notin Kept /\ st.to \notin Kept

(* A migration has a first statement, and a next one after every statement but the last. *)
IsScript(mig) == DOMAIN mig = 1..Len(mig) /\ Len(mig) \in Nat \ {0}

(* And does not create pointer_links either. *)
Plain(st) == WellFormed(st) /\ Aside(st) /\ ~Makes(st, "pointer_links")

(* What statement s of 0008 is. *)
LinkStep(s, st) ==
    /\ s = 2 => IsCopy(st, "pointer_links", "pointer_links_new")
    /\ s = 3 => st.op = "drop" /\ st.t = "pointer_links"
    /\ s = 4 => IsRename(st, "pointer_links_new", "pointer_links")
    /\ s \notin {3, 4} => Aside(st) /\ ~Makes(st, "pointer_links")

(* What statement s of 0013 or 0014 is. *)
RebuildStep(m, s, st) ==
    /\ \A t \in Statused :
          /\ s = RenamedAt(t) => IsRename(st, t, Legacy(m, t))
          /\ s = CopiedAt(t) => IsCopy(st, Legacy(m, t), t)
          /\ s = DroppedAt(t) => st.op = "drop" /\ st.t = Legacy(m, t)
    /\ (\A t \in Statused : s \notin {RenamedAt(t), DroppedAt(t)}) =>
          Aside(st) /\ ~Makes(st, "pointer_links")

(* 0001 creates the tables, pointer_links among them, when they are absent. *)
LEMMA Plain01 ==
    IsScript(M0001) /\ \A s \in DOMAIN M0001 : WellFormed(M0001[s]) /\ Aside(M0001[s])
BY DEF M0001, IsScript, WellFormed, Aside, Ops, Legacies, CreateAbsent, Create, Index

(* 0002 (memory candidates) takes no table a row is kept in. *)
LEMMA Plain02 == IsScript(M0002) /\ \A s \in DOMAIN M0002 : Plain(M0002[s])
BY DEF M0002, IsScript, Plain, WellFormed, Aside, Makes, Ops, Legacies, CreateAbsent,
       Create, Index

(* 0003 (pointer candidates) takes no table a row is kept in. *)
LEMMA Plain03 == IsScript(M0003) /\ \A s \in DOMAIN M0003 : Plain(M0003[s])
BY DEF M0003, IsScript, Plain, WellFormed, Aside, Makes, Ops, Legacies, CreateAbsent,
       Create, Index

(* 0004 (work items) takes no table a row is kept in. *)
LEMMA Plain04 == IsScript(M0004) /\ \A s \in DOMAIN M0004 : Plain(M0004[s])
BY DEF M0004, IsScript, Plain, WellFormed, Aside, Makes, Ops, Legacies, CreateAbsent,
       Create, Index

(* 0005 (plans and tasks) takes no table a row is kept in. *)
LEMMA Plain05 == IsScript(M0005) /\ \A s \in DOMAIN M0005 : Plain(M0005[s])
BY DEF M0005, IsScript, Plain, WellFormed, Aside, Makes, Ops, Legacies, CreateAbsent,
       Create, Index

(* 0006 (the hierarchy of plans) takes no table a row is kept in. *)
LEMMA Plain06 == IsScript(M0006) /\ \A s \in DOMAIN M0006 : Plain(M0006[s])
BY DEF M0006, IsScript, Plain, WellFormed, Aside, Makes, Ops, Legacies, Index, AddColumn

(* 0007 (verification) takes no table a row is kept in. *)
LEMMA Plain07 == IsScript(M0007) /\ \A s \in DOMAIN M0007 : Plain(M0007[s])
BY DEF M0007, IsScript, Plain, WellFormed, Aside, Makes, Ops, Legacies, CreateAbsent,
       Create, Index

(* 0009 (an index) takes no table a row is kept in. *)
LEMMA Plain09 == IsScript(M0009) /\ \A s \in DOMAIN M0009 : Plain(M0009[s])
BY DEF M0009, IsScript, Plain, WellFormed, Aside, Makes, Ops, Legacies, Index

(* 0010 (review attempts) takes no table a row is kept in. *)
LEMMA Plain10 == IsScript(M0010) /\ \A s \in DOMAIN M0010 : Plain(M0010[s])
BY DEF M0010, IsScript, Plain, WellFormed, Aside, Makes, Ops, Legacies, CreateAbsent,
       Create, Index

(* 0011 (pointer paths) takes no table a row is kept in. *)
LEMMA Plain11 == IsScript(M0011) /\ \A s \in DOMAIN M0011 : Plain(M0011[s])
BY DEF M0011, IsScript, Plain, WellFormed, Aside, Makes, Ops, Legacies, AddColumn, Fill

(* 0012 (the scope of a receipt) takes no table a row is kept in. *)
LEMMA Plain12 == IsScript(M0012) /\ \A s \in DOMAIN M0012 : Plain(M0012[s])
BY DEF M0012, IsScript, Plain, WellFormed, Aside, Makes, Ops, Legacies, AddColumn, Fill

(* 0015 (memories dropped) takes no table a row is kept in. *)
LEMMA Plain15 == IsScript(M0015) /\ \A s \in DOMAIN M0015 : Plain(M0015[s])
BY DEF M0015, IsScript, Plain, WellFormed, Aside, Makes, Ops, Legacies, Kept, Ordinary,
       Statused, FinalTables, DropColumn, DropPresent, Drop

(* 0016 (the actor) takes no table a row is kept in. *)
LEMMA Plain16 == IsScript(M0016) /\ \A s \in DOMAIN M0016 : Plain(M0016[s])
BY DEF M0016, ActorColumns, IsScript, Plain, WellFormed, Aside, Makes, Ops, Legacies,
       AddColumn

(* 0017 (the commit of a run) takes no table a row is kept in. *)
LEMMA Plain17 == IsScript(M0017) /\ \A s \in DOMAIN M0017 : Plain(M0017[s])
BY DEF M0017, IsScript, Plain, WellFormed, Aside, Makes, Ops, Legacies, AddColumn

(* 0008 rebuilds pointer_links in statements 1 to 5 and memory_candidates after them. *)
LEMMA Links08 ==
    IsScript(M0008) /\ \A s \in DOMAIN M0008 : WellFormed(M0008[s]) /\ LinkStep(s, M0008[s])
BY DEF M0008, IsScript, LinkStep, WellFormed, Aside, Makes, IsCopy, IsRename, Ops, Hows,
       Legacies, Kept, Ordinary, Statused, FinalTables, CreateAbsent, Create, Index, Rename,
       CopyValid, Drop, Copy

(* 0013 rebuilds the three tables with a status, each at its positions. *)
LEMMA Rebuild13 ==
    /\ IsScript(M0013)
    /\ \A s \in DOMAIN M0013 : WellFormed(M0013[s]) /\ RebuildStep(13, s, M0013[s])
BY DEF M0013, RebuildItems, RebuildPlans, RebuildStep, RenamedAt, CopiedAt, DroppedAt,
       Legacy, IsScript, WellFormed, Aside, Makes, IsCopy, IsRename, Ops, Hows, Legacies,
       Kept, Ordinary, Statused, FinalTables, Create, Index, Rename, Copy, Drop

(* 0014 rebuilds the three tables with a status, each at its positions. *)
LEMMA Rebuild14 ==
    /\ IsScript(M0014)
    /\ \A s \in DOMAIN M0014 : WellFormed(M0014[s]) /\ RebuildStep(14, s, M0014[s])
BY DEF M0014, RebuildItems, RebuildPlans, RebuildStep, RenamedAt, CopiedAt, DroppedAt,
       Legacy, IsScript, WellFormed, Aside, Makes, IsCopy, IsRename, Ops, Hows, Legacies,
       Kept, Ordinary, Statused, FinalTables, Create, Index, Rename, Copy, Drop

(* What statement s of migration m may be, for all the proof needs to know. *)
Fits(m, s, st) ==
    /\ s \in Nat
    /\ WellFormed(st)
    /\ m \notin {8, 13, 14} => Aside(st)
    /\ m \notin {1, 8, 13, 14} => ~Makes(st, "pointer_links")
    /\ m = 8 => LinkStep(s, st)
    /\ m \in {13, 14} => RebuildStep(m, s, st)

(* The script has seventeen migrations (schemaMigrations). *)
LEMMA Seventeen == LastMigration = 17
BY DEF LastMigration, Script

(* Every statement of the script is one of these. *)
LEMMA ScriptFits ==
    ASSUME NEW m \in 1..LastMigration, NEW s \in DOMAIN Script[m]
    PROVE  Fits(m, s, Script[m][s])
<1> m \in 1..17 BY Seventeen
<1>1. CASE m = 1
  <2>1. Script[m] = M0001 BY <1>1 DEF Script
  <2> QED BY <1>1, <2>1, Plain01 DEF Fits, IsScript
<1>8. CASE m = 8
  <2>1. Script[m] = M0008 BY <1>8 DEF Script
  <2> QED BY <1>8, <2>1, Links08 DEF Fits, IsScript
<1>13. CASE m = 13
  <2>1. Script[m] = M0013 BY <1>13 DEF Script
  <2> QED BY <1>13, <2>1, Rebuild13 DEF Fits, IsScript
<1>14. CASE m = 14
  <2>1. Script[m] = M0014 BY <1>14 DEF Script
  <2> QED BY <1>14, <2>1, Rebuild14 DEF Fits, IsScript
<1>2. CASE m \in {2, 3, 4, 5, 6, 7}
  <2>1. IsScript(Script[m]) /\ \A k \in DOMAIN Script[m] : Plain(Script[m][k])
    BY <1>2, Plain02, Plain03, Plain04, Plain05, Plain06, Plain07 DEF Script
  <2> QED BY <1>2, <2>1 DEF Fits, Plain, IsScript
<1>9. CASE m \in {9, 10, 11, 12, 15, 16, 17}
  <2>1. IsScript(Script[m]) /\ \A k \in DOMAIN Script[m] : Plain(Script[m][k])
    BY <1>9, Plain09, Plain10, Plain11, Plain12, Plain15, Plain16, Plain17 DEF Script
  <2> QED BY <1>9, <2>1 DEF Fits, Plain, IsScript
<1> QED BY <1>1, <1>2, <1>8, <1>9, <1>13, <1>14

(* No migration is empty. *)
LEMMA ScriptShapes ==
    ASSUME NEW m \in 1..LastMigration
    PROVE  IsScript(Script[m])
<1> m \in 1..17 BY Seventeen
<1>1. /\ Script[1] = M0001 /\ Script[2] = M0002 /\ Script[3] = M0003 /\ Script[4] = M0004
      /\ Script[5] = M0005 /\ Script[6] = M0006 /\ Script[7] = M0007 /\ Script[8] = M0008
      /\ Script[9] = M0009 /\ Script[10] = M0010 /\ Script[11] = M0011 /\ Script[12] = M0012
      /\ Script[13] = M0013 /\ Script[14] = M0014 /\ Script[15] = M0015 /\ Script[16] = M0016
      /\ Script[17] = M0017
  BY DEF Script
<1>2. CASE m \in 1..8
  BY <1>1, <1>2, Plain01, Plain02, Plain03, Plain04, Plain05, Plain06, Plain07, Links08
<1>3. CASE m \in 9..17
  BY <1>1, <1>3, Plain09, Plain10, Plain11, Plain12, Rebuild13, Rebuild14, Plain15, Plain16, Plain17
<1> QED BY <1>2, <1>3

(***************************************************************************)
(* What a statement does to the rows.                                      *)
(***************************************************************************)
(* Table x stays and keeps its rows. *)
Grows(old, new, x) ==
    /\ x \in DOMAIN old => x \in DOMAIN new
    /\ Valid(old, x) \subseteq Valid(new, x)

(* What the proof needs of a statement's effect: a table is lost by DROP and RENAME alone and
   appears by CREATE and RENAME alone; RENAME carries the rows along, and needs its new name
   free; INSERT adds the rows to keep, and needs their keys free. *)
Does(old, new, st) ==
    /\ \A x \in DOMAIN new : IsTable(new[x])
    /\ \A x : ~Takes(st, x) => Grows(old, new, x)
    /\ \A x \in DOMAIN new : x \in DOMAIN old \/ Makes(st, x)
    /\ \A x : Takes(st, x) => x \notin DOMAIN new
    /\ st.op = "rename" => /\ st.t \in DOMAIN old /\ st.to \notin DOMAIN old
                           /\ st.to \in DOMAIN new
                           /\ Valid(new, st.to) = Valid(old, st.t)
    /\ st.op = "copy" => /\ st.t \in DOMAIN old /\ st.to \in DOMAIN old
                         /\ Valid(old, st.t) \cap Valid(old, st.to) = {}
                         /\ Valid(old, st.t) \subseteq Valid(new, st.to)

(* SQLite's effect of every kind of statement, when it is possible. *)
LEMMA EffectDoes ==
    ASSUME NEW tabs, NEW idx, NEW st, WellFormed(st),
           \A x \in DOMAIN tabs : IsTable(tabs[x]),
           Possible([tables |-> tabs, indexes |-> idx], st)
    PROVE  Does(tabs, Effect([tables |-> tabs, indexes |-> idx], st).tables, st)
<1> DEFINE s == [tables |-> tabs, indexes |-> idx]
           new == Effect(s, st).tables
<1> SUFFICES Does(tabs, new, st) OBVIOUS
<1>1. CASE st.op = "create"
  <2>1. CASE Exists(s, st.t)
    <3>1. new = tabs BY <1>1, <2>1 DEF Effect
    <3> HIDE DEF new
    <3> QED BY <1>1, <3>1 DEF Does, Grows, Takes, Valid
  <2>2. CASE ~Exists(s, st.t)
    <3>1. new = [x \in DOMAIN tabs \cup {st.t} |-> IF x = st.t THEN NewTable(st) ELSE tabs[x]]
      BY <1>1, <2>2 DEF Effect, Put
    <3>2. IsTable(NewTable(st)) BY DEF IsTable, NewTable
    <3>3. st.t \notin DOMAIN tabs
      BY <2>2 DEF Exists
    <3> HIDE DEF new
    <3>4. \A x \in DOMAIN new : IsTable(new[x])
      BY <3>1, <3>2
    <3>5. \A x : Grows(tabs, new, x)
      BY <3>1, <3>3 DEF Grows, Valid
    <3> QED BY <1>1, <3>1, <3>4, <3>5 DEF Does, Takes, Makes
  <2> QED BY <2>1, <2>2
<1>2. CASE st.op = "drop"
  <2>1. new = [x \in DOMAIN tabs \ {st.t} |-> tabs[x]]
    BY <1>2 DEF Effect, Without
  <2> HIDE DEF new
  <2>2. \A x : x # st.t => Grows(tabs, new, x)
    BY <2>1 DEF Grows, Valid
  <2>3. \A x \in DOMAIN new : IsTable(new[x])
    BY <2>1
  <2> QED BY <1>2, <2>1, <2>2, <2>3 DEF Does, Takes
<1>3. CASE st.op = "index"
  <2>1. new = tabs BY <1>3 DEF Effect
  <2> HIDE DEF new
  <2> QED BY <1>3, <2>1 DEF Does, Grows, Takes, Valid
<1>4. CASE st.op \in {"add", "dropcol", "fill"}
  <2> DEFINE r == tabs[st.t]
             Altered(c, f) == [cols |-> c, filled |-> f, check |-> r.check, rows |-> r.rows]
  <2>1. st.t \in DOMAIN tabs BY <1>4 DEF Possible, Exists
  <2>2. r = [cols |-> r.cols, filled |-> r.filled, check |-> r.check, rows |-> r.rows]
    BY <2>1 DEF IsTable
  <2>3. new = tabs \/ \E c, f : new = [tabs EXCEPT ![st.t] = Altered(c, f)]
    <3>1. CASE st.op = "add"
      <4>1. new = [tabs EXCEPT ![st.t] = [r EXCEPT !.cols = @ \cup {st.c}]]
        BY <3>1 DEF Effect
      <4>2. [r EXCEPT !.cols = @ \cup {st.c}] = Altered(r.cols \cup {st.c}, r.filled)
        BY <2>2
      <4> HIDE DEF new, Altered, r
      <4> QED BY <4>1, <4>2
    <3>2. CASE st.op = "dropcol"
      <4>1. new = [tabs EXCEPT ![st.t] = [r EXCEPT !.cols = @ \ {st.c}]]
        BY <3>2 DEF Effect
      <4>2. [r EXCEPT !.cols = @ \ {st.c}] = Altered(r.cols \ {st.c}, r.filled)
        BY <2>2
      <4> HIDE DEF new, Altered, r
      <4> QED BY <4>1, <4>2
    <3>3. CASE st.op = "fill" /\ st.from \subseteq r.filled
      <4>1. new = [tabs EXCEPT ![st.t] = [r EXCEPT !.filled = @ \cup {st.c}]]
        BY <3>3 DEF Effect
      <4>2. [r EXCEPT !.filled = @ \cup {st.c}] = Altered(r.cols, r.filled \cup {st.c})
        BY <2>2
      <4> HIDE DEF new, Altered, r
      <4> QED BY <4>1, <4>2
    <3>4. CASE st.op = "fill" /\ ~(st.from \subseteq r.filled)
      BY <3>4 DEF Effect
    <3> QED BY <1>4, <3>1, <3>2, <3>3, <3>4
  <2>4. \A c, f : IsTable(Altered(c, f)) /\ Altered(c, f).rows = r.rows
    BY DEF IsTable
  <2> HIDE DEF new, Altered
  <2>5. /\ DOMAIN new = DOMAIN tabs
        /\ \A x \in DOMAIN tabs : IsTable(new[x]) /\ new[x].rows = tabs[x].rows
    BY <2>1, <2>3, <2>4
  <2>6. \A x : Grows(tabs, new, x)
    BY <2>5 DEF Grows, Valid
  <2> QED BY <1>4, <2>5, <2>6 DEF Does, Takes
<1>5. CASE st.op = "rename"
  <2>1. st.t \in DOMAIN tabs /\ st.to \notin DOMAIN tabs
    BY <1>5 DEF Possible, Exists
  <2>2. new = [x \in (DOMAIN tabs \ {st.t}) \cup {st.to} |->
                  IF x = st.to THEN tabs[st.t] ELSE tabs[x]]
    <3> DEFINE w == Without(s, st.t)
               e == Put(w, st.to, tabs[st.t])
    <3>1. w = [tables |-> [x \in DOMAIN tabs \ {st.t} |-> tabs[x]], indexes |-> idx]
      BY DEF Without
    <3>2. PICK j : new = [Put(w, st.to, tabs[st.t]) EXCEPT !.indexes = j].tables
      BY <1>5 DEF Effect
    <3> HIDE DEF new, w
    <3>3. e = [tables |-> [x \in (DOMAIN tabs \ {st.t}) \cup {st.to} |->
                             IF x = st.to THEN tabs[st.t] ELSE tabs[x]], indexes |-> idx]
      BY <3>1 DEF Put
    <3> HIDE DEF e
    <3>4. new = [e EXCEPT !.indexes = j].tables
      BY <3>2 DEF e
    <3> QED BY <3>3, <3>4
  <2> HIDE DEF new
  <2>3. \A x : x # st.t => Grows(tabs, new, x)
    BY <2>1, <2>2 DEF Grows, Valid
  <2>4. \A x \in DOMAIN new : IsTable(new[x])
    BY <2>1, <2>2
  <2>5. Valid(new, st.to) = Valid(tabs, st.t)
    BY <2>1, <2>2 DEF Valid
  <2> QED BY <1>5, <2>1, <2>2, <2>3, <2>4, <2>5 DEF Does, Takes, Makes
<1>6. CASE st.op = "copy"
  <2> DEFINE r == tabs[st.to]
             g == Selected(tabs[st.t].rows, st.how)
             rows == Joined(r.rows, g)
             copied == [cols |-> r.cols, filled |-> r.filled, check |-> r.check, rows |-> rows]
  <2>1. /\ st.t \in DOMAIN tabs /\ st.to \in DOMAIN tabs
        /\ DOMAIN g \cap DOMAIN r.rows = {}
    BY <1>6 DEF Possible, Exists
  <2>2. r = [cols |-> r.cols, filled |-> r.filled, check |-> r.check, rows |-> r.rows]
    BY <2>1 DEF IsTable
  <2>3. new = [tabs EXCEPT ![st.to] = copied]
    <3>1. new = [tabs EXCEPT ![st.to] = [r EXCEPT !.rows = rows]]
      BY <1>6 DEF Effect
    <3>2. [r EXCEPT !.rows = rows] = copied
      <4> HIDE DEF rows
      <4> QED BY <2>2
    <3> HIDE DEF new, copied, rows, r
    <3> QED BY <3>1, <3>2
  <2>4. IsTable(copied) /\ copied.rows = rows
    <3> HIDE DEF rows
    <3> QED BY DEF IsTable
  <2>5. /\ DOMAIN rows = DOMAIN r.rows \cup DOMAIN g
        /\ \A i \in DOMAIN r.rows : rows[i] = r.rows[i]
        /\ \A i \in DOMAIN g : rows[i] = g[i]
    BY <2>1 DEF Joined
  <2>6. \A i \in Valid(tabs, st.t) : i \in DOMAIN g /\ g[i] # "orphan"
    <3>1. st.how \in Hows BY <1>6 DEF WellFormed
    <3> QED BY <2>1, <3>1 DEF Valid, Selected, Hows
  <2> HIDE DEF new, copied, rows, g
  <2>7. /\ DOMAIN new = DOMAIN tabs
        /\ new[st.to].rows = rows
        /\ \A x \in DOMAIN tabs : IsTable(new[x]) /\ (x # st.to => new[x] = tabs[x])
    BY <2>1, <2>3, <2>4
  <2>8. \A x : Grows(tabs, new, x)
    BY <2>1, <2>5, <2>7 DEF Grows, Valid
  <2>9. Valid(tabs, st.t) \cap Valid(tabs, st.to) = {}
    BY <2>1, <2>6 DEF Valid
  <2>10. Valid(tabs, st.t) \subseteq Valid(new, st.to)
    BY <2>1, <2>5, <2>6, <2>7 DEF Valid
  <2> QED BY <1>6, <2>1, <2>7, <2>8, <2>9, <2>10 DEF Does, Takes
<1> QED BY <1>1, <1>2, <1>3, <1>4, <1>5, <1>6 DEF WellFormed, Ops

(***************************************************************************)
(* Steps.                                                                  *)
(***************************************************************************)
(* A call that is about to issue a statement is at the first of a migration the ledger does not
   name. *)
Fresh(q) == calls'[q].pc = "exec" => calls'[q].s = 1 /\ calls'[q].m \notin ledger

(* A step that issues no statement of the script: tables stay and no call gets further into a
   migration. *)
Calm ==
    /\ Typed'
    /\ DOMAIN tables' = DOMAIN tables
    /\ \A x : Valid(tables, x) \subseteq Valid(tables', x)
    /\ \A q \in Procs : calls'[q] = calls[q] \/ Fresh(q)
    /\ ledger \subseteq ledger'
    /\ original' = original

(* A step that issues statement st: what Exec does, as far as the proof looks. *)
Executed(p, st) ==
    LET m == calls[p].m
        s == calls[p].s
    IN  /\ Typed'
        /\ p \in Procs /\ calls[p].pc = "exec"
        /\ m \in 1..LastMigration /\ s \in DOMAIN Script[m]
        /\ Fits(m, s, st)
        /\ Does(tables, tables', st)
        /\ \A q \in Procs : q # p => calls'[q] = calls[q]
        /\ calls'[p].pc = "exec" => calls'[p].m = m /\ calls'[p].s = s + 1
        /\ ledger' = ledger
        /\ original' = original

(* The database of an older release, before any process opened it. *)
LEMMA InitIInv == Init => IInv
<1> SUFFICES ASSUME Init PROVE IInv OBVIOUS
<1>1. PICK start \in Starts :
        /\ tables = Left(start.v).tables
        /\ ledger = 1..start.v
  BY DEF Init
<1>2. original = [t \in DOMAIN tables \ Doomed |->
                     {i \in DOMAIN tables[t].rows : tables[t].rows[i] # "orphan"}]
  BY DEF Init
<1>3. \A t \in DOMAIN original : t \in DOMAIN tables /\ original[t] = Valid(tables, t)
  BY <1>2 DEF Valid
<1>4. calls = [p \in Procs |-> NoCall]
  BY DEF Init
<1>5. \A p \in Procs : calls[p].pc = "idle"
  BY <1>4 DEF NoCall
<1>6. DOMAIN original \subseteq FinalTables
  <2>1. DOMAIN tables \subseteq FinalTables \cup Doomed
    BY <1>1, StartsAssumption, LeftAssumption
  <2> QED BY <1>2, <2>1
<1>7. \A x \in DOMAIN tables : IsTable(tables[x])
  BY <1>1 DEF Left, IsTable
<1>8. Typed
  <2>1. IsCall(NoCall) /\ NoCall.pc = "idle" BY DEF IsCall, NoCall
  <2>2. \A p \in Procs : CallOK(calls[p]) BY <1>4, <2>1 DEF CallOK
  <2> QED BY <1>4, <1>6, <1>7, <2>2 DEF Typed
<1>9. FirstDone
  <2> SUFFICES ASSUME "pointer_links" \in DOMAIN original PROVE 1 \in ledger
    BY <1>5 DEF FirstDone, Executes
  <2>1. start.v \in 0..LastMigration /\ start.v # 0
    BY <1>1, <1>3, StartsAssumption, LeftAssumption
  <2> QED BY <1>1, <2>1, Seventeen
<1>10. OrdinarySafe
  BY <1>3 DEF OrdinarySafe
<1>11. LinksSafe
  BY <1>3, <1>5 DEF LinksSafe, LinkSafe, At, Executes
<1>12. StatusedSafe
  BY <1>3, <1>5 DEF StatusedSafe, OneInside, RowSafe, Inside, Dropping, Executes
<1> QED BY <1>8, <1>9, <1>10, <1>11, <1>12 DEF IInv

(* Steps without a statement keep the invariant: nobody enters a rebuild by them. *)
LEMMA CalmKeeps ==
    ASSUME IInv, Calm
    PROVE  IInv'
<1>1. Typed' BY DEF Calm
<1>2. \A m : \A q \in Procs : (Executes(q, m))' => Executes(q, m) \/ m \notin ledger
  BY DEF Calm, Fresh, Executes
<1>3. \A m, s : \A q \in Procs : (At(q, m, s))' /\ s # 1 => At(q, m, s)
  BY DEF Calm, Fresh, Executes, At
<1>4. \A m : \A q \in Procs, t \in Statused : (Inside(q, m, t))' => Inside(q, m, t)
  BY DEF Calm, Fresh, Executes, Inside, RenamedAt, DroppedAt, Statused
<1>5. \A m : \A q \in Procs, t \in Statused : (Dropping(q, m, t))' => Dropping(q, m, t)
  BY DEF Calm, Fresh, Executes, Dropping, CopiedAt, DroppedAt, Statused
<1>6. /\ DOMAIN tables' = DOMAIN tables
      /\ \A x, i : i \in Valid(tables, x) => i \in Valid(tables', x)
      /\ ledger \subseteq ledger'
      /\ original' = original
  BY DEF Calm
<1>7. OrdinarySafe'
  BY <1>6 DEF IInv, OrdinarySafe
<1>8. FirstDone'
  BY <1>2, <1>6 DEF IInv, FirstDone
<1>9. LinksSafe'
  <2> SUFFICES ASSUME "pointer_links" \in DOMAIN original, NEW i \in original["pointer_links"]
               PROVE  LinkSafe(i)'
    BY <1>6 DEF LinksSafe
  <2>1. LinkSafe(i) BY DEF IInv, LinksSafe
  <2> QED BY <1>3, <1>6, <2>1 DEF LinkSafe
<1>10. StatusedSafe'
  <2> SUFFICES ASSUME NEW t \in Statused
               PROVE  /\ OneInside(13, t)' /\ OneInside(14, t)'
                      /\ t \in DOMAIN original => \A i \in original[t] : RowSafe(t, i)'
    BY <1>6 DEF StatusedSafe
  <2>1. OneInside(13, t)' /\ OneInside(14, t)'
    <3>1. OneInside(13, t) /\ OneInside(14, t) BY DEF IInv, StatusedSafe
    <3>2. ASSUME NEW m, OneInside(m, t) PROVE OneInside(m, t)'
      BY <1>4, <1>6, <3>2 DEF OneInside
    <3> QED BY <3>1, <3>2
  <2>2. ASSUME t \in DOMAIN original, NEW i \in original[t] PROVE RowSafe(t, i)'
    <3>1. RowSafe(t, i) BY <2>2 DEF IInv, StatusedSafe
    <3>2. \A q \in Procs : /\ Dropping(q, 13, t)' => Dropping(q, 13, t)
                           /\ Dropping(q, 14, t)' => Dropping(q, 14, t)
      BY <1>5
    <3>3. /\ i \in Valid(tables, t) => i \in Valid(tables', t)
          /\ i \in Valid(tables, Legacy(13, t)) => i \in Valid(tables', Legacy(13, t))
          /\ i \in Valid(tables, Legacy(14, t)) => i \in Valid(tables', Legacy(14, t))
      BY <1>6
    <3> QED BY <3>1, <3>2, <3>3 DEF RowSafe
  <2> QED BY <2>1, <2>2
<1> QED BY <1>1, <1>7, <1>8, <1>9, <1>10 DEF IInv

(***************************************************************************)
(* Steps with a statement.                                                 *)
(***************************************************************************)
(* The names of the legacy tables, evaluated. *)
LEMMA LegacyTable ==
    /\ Legacy(13, "work_items") = "work_items_legacy_completed"
    /\ Legacy(14, "work_items") = "work_items_legacy_superseded"
    /\ Legacy(13, "work_plans") = "work_plans_legacy_completed"
    /\ Legacy(14, "work_plans") = "work_plans_legacy_superseded"
    /\ Legacy(13, "work_plan_tasks") = "work_plan_tasks_legacy_completed"
    /\ Legacy(14, "work_plan_tasks") = "work_plan_tasks_legacy_superseded"
BY DEF Legacy

(* Each belongs to one migration and one table, and is no other table's name. *)
LEMMA LegacyNames ==
    /\ \A m \in {13, 14}, t \in Statused : Legacy(m, t) \in Legacies
    /\ \A m, k \in {13, 14}, t, u \in Statused : Legacy(m, t) = Legacy(k, u) => m = k /\ t = u
    /\ Legacies \cap (Ordinary \cup Statused \cup {"pointer_links", "pointer_links_new"}) = {}
    /\ "pointer_links" \notin Ordinary \cup Statused
    /\ "pointer_links_new" \notin Ordinary \cup Statused
<1>1. \A m \in {13, 14}, t \in Statused : Legacy(m, t) \in Legacies
  BY LegacyTable DEF Legacies, Statused
<1>2. ASSUME NEW m \in {13, 14}, NEW k \in {13, 14}, NEW t \in Statused, NEW u \in Statused,
             Legacy(m, t) = Legacy(k, u)
      PROVE  m = k /\ t = u
  <2>1. CASE t = "work_items" BY <1>2, <2>1, LegacyTable DEF Statused
  <2>2. CASE t = "work_plans" BY <1>2, <2>2, LegacyTable DEF Statused
  <2>3. CASE t = "work_plan_tasks" BY <1>2, <2>3, LegacyTable DEF Statused
  <2> QED BY <2>1, <2>2, <2>3 DEF Statused
<1>3. Legacies \cap (Ordinary \cup Statused \cup {"pointer_links", "pointer_links_new"}) = {}
  BY DEF Legacies, Ordinary, Statused, FinalTables
<1>4. "pointer_links" \notin Ordinary \cup Statused /\ "pointer_links_new" \notin Ordinary \cup Statused
  BY DEF Ordinary, Statused, FinalTables
<1> QED BY <1>1, <1>2, <1>3, <1>4

(* The positions of the statements, evaluated. *)
LEMMA PositionTable ==
    /\ RenamedAt("work_items") = 1 /\ CopiedAt("work_items") = 3 /\ DroppedAt("work_items") = 4
    /\ RenamedAt("work_plans") = 6 /\ CopiedAt("work_plans") = 9 /\ DroppedAt("work_plans") = 15
    /\ RenamedAt("work_plan_tasks") = 7 /\ CopiedAt("work_plan_tasks") = 12
    /\ DroppedAt("work_plan_tasks") = 14
BY DEF RenamedAt, CopiedAt, DroppedAt

(* RENAME, copy and DROP come in this order, and no statement is two of them. *)
LEMMA Positions ==
    /\ \A t, u \in Statused : RenamedAt(t) # DroppedAt(u)
    /\ \A t, u \in Statused : RenamedAt(t) = RenamedAt(u) => t = u
    /\ \A t, u \in Statused : DroppedAt(t) = DroppedAt(u) => t = u
    /\ \A t, u \in Statused : CopiedAt(t) # RenamedAt(u) /\ CopiedAt(t) # DroppedAt(u)
    /\ \A t \in Statused : /\ RenamedAt(t) \in Nat /\ CopiedAt(t) \in Nat /\ DroppedAt(t) \in Nat
                           /\ 0 < RenamedAt(t) /\ RenamedAt(t) < CopiedAt(t)
                           /\ CopiedAt(t) < DroppedAt(t)
BY PositionTable DEF Statused

(* Which statements take a kept table away. *)
LEMMA Taken ==
    ASSUME NEW m, NEW s, NEW st, Fits(m, s, st), NEW x \in Kept, Takes(st, x)
    PROVE  \/ m = 8 /\ s = 3 /\ x = "pointer_links"
           \/ m = 8 /\ s = 4 /\ x = "pointer_links_new"
           \/ /\ m \in {13, 14}
              /\ \E t \in Statused : \/ s = RenamedAt(t) /\ x = t
                                     \/ s = DroppedAt(t) /\ x = Legacy(m, t)
<1>1. ~Aside(st) BY DEF Aside, Takes
<1>2. CASE m = 8
  BY <1>1, <1>2 DEF Fits, LinkStep, IsRename, Takes
<1>3. CASE m \in {13, 14}
  <2>1. RebuildStep(m, s, st) BY <1>3 DEF Fits
  <2>2. PICK t \in Statused : s \in {RenamedAt(t), DroppedAt(t)}
    BY <1>1, <2>1 DEF RebuildStep
  <2> QED BY <1>3, <2>1, <2>2 DEF RebuildStep, IsRename, Takes
<1> QED BY <1>1, <1>2, <1>3 DEF Fits

(* Which statements make pointer_links or a legacy table. *)
LEMMA Made ==
    ASSUME NEW m, NEW s, NEW st, Fits(m, s, st), NEW x \in Legacies \cup {"pointer_links"}, Makes(st, x)
    PROVE  \/ x = "pointer_links" /\ (m = 1 \/ (m = 8 /\ s = 4))
           \/ /\ m \in {13, 14}
              /\ \E t \in Statused : s = RenamedAt(t) /\ x = Legacy(m, t)
<1>1. ~Aside(st) \/ x = "pointer_links" BY DEF Aside, Makes, Kept
<1>2. CASE m = 8
  BY <1>1, <1>2 DEF Fits, LinkStep, IsRename, Makes
<1>3. CASE m \in {13, 14}
  <2>1. RebuildStep(m, s, st) BY <1>3 DEF Fits
  <2>2. PICK t \in Statused : s \in {RenamedAt(t), DroppedAt(t)}
    BY <1>1, <2>1 DEF RebuildStep
  <2> QED BY <1>3, <2>1, <2>2 DEF RebuildStep, IsRename, Makes
<1> QED BY <1>1, <1>2, <1>3 DEF Fits

(* A statement keeps the rows of a table no migration rebuilds. *)
LEMMA OrdinaryExec ==
    ASSUME IInv, NEW p, NEW st, Executed(p, st)
    PROVE  OrdinarySafe'
<1> SUFFICES ASSUME NEW t \in Ordinary, t \in DOMAIN original
             PROVE  t \in DOMAIN tables' /\ original[t] \subseteq Valid(tables', t)
  BY DEF OrdinarySafe, Executed
<1>1. ~Takes(st, t)
  <2> SUFFICES ASSUME Takes(st, t) PROVE FALSE OBVIOUS
  <2> DEFINE m == calls[p].m
             s == calls[p].s
  <2>1. Fits(m, s, st) /\ t \in Kept BY DEF Executed, Kept
  <2> HIDE DEF m, s
  <2>2. t \notin {"pointer_links", "pointer_links_new"} \cup Statused \cup Legacies
    BY LegacyNames DEF Ordinary
  <2>3. m \in {13, 14} /\ \E u \in Statused : t = Legacy(m, u)
    BY <2>1, <2>2, Taken
  <2> QED BY <2>2, <2>3, LegacyNames
<1>2. Grows(tables, tables', t)
  BY <1>1 DEF Executed, Does
<1> QED BY <1>2 DEF IInv, OrdinarySafe, Grows

(* A statement takes no process into 0001. *)
LEMMA FirstExec ==
    ASSUME IInv, NEW p, NEW st, Executed(p, st)
    PROVE  FirstDone'
<1>1. \A q \in Procs : (Executes(q, 1))' => Executes(q, 1)
  BY DEF Executed, Executes
<1> QED BY <1>1 DEF IInv, FirstDone, Executed

(* A statement keeps the links: the copy of 0008 (statement 2) leaves them in both tables and is
   refused to a second process, its DROP (3) leaves them in the copy, its RENAME (4) brings
   them back, and every other statement leaves both tables alone. *)
LEMMA LinksExec ==
    ASSUME IInv, NEW p, NEW st, Executed(p, st)
    PROVE  LinksSafe'
<1> SUFFICES ASSUME "pointer_links" \in DOMAIN original, NEW i \in original["pointer_links"]
             PROVE  LinkSafe(i)'
  BY DEF LinksSafe, Executed
<1> DEFINE m == calls[p].m
           s == calls[p].s
           here == "pointer_links" \in DOMAIN tables
           here2 == "pointer_links" \in DOMAIN tables'
           old == i \in Valid(tables, "pointer_links")
           old2 == i \in Valid(tables', "pointer_links")
           new == i \in Valid(tables, "pointer_links_new")
           new2 == i \in Valid(tables', "pointer_links_new")
<1>1. /\ old => here
      /\ IF here THEN old ELSE new
      /\ \A q \in Procs : (At(q, 8, 3) => here /\ new) /\ (At(q, 8, 4) => ~here)
      /\ \A q, r \in Procs :
            (At(q, 8, 3) \/ At(q, 8, 4)) /\ (At(r, 8, 3) \/ At(r, 8, 4)) => q = r
  BY DEF IInv, LinksSafe, LinkSafe, Valid
<1>2. p \in Procs /\ Executes(p, m) /\ m # 1 /\ s \in Nat
  BY DEF IInv, FirstDone, Executed, Executes, Fits
<1>3. \A q \in Procs, k \in Nat : q # p => (At(q, 8, k)' <=> At(q, 8, k))
  BY DEF Executed, At, Executes
<1>4. \A k \in Nat : At(p, 8, k)' => m = 8 /\ k = s + 1
  BY <1>2 DEF Executed, At, Executes
<1>5. Fits(m, s, st) /\ Does(tables, tables', st)
  BY DEF Executed
<1> HIDE DEF m, s
<1>6. /\ ~Takes(st, "pointer_links") => Grows(tables, tables', "pointer_links")
      /\ ~Takes(st, "pointer_links_new") => Grows(tables, tables', "pointer_links_new")
      /\ "pointer_links" \in DOMAIN tables' => here \/ Makes(st, "pointer_links")
  BY <1>5 DEF Does
<1>7. CASE m = 8 /\ s = 2
  <2>1. IsCopy(st, "pointer_links", "pointer_links_new")
    BY <1>5, <1>7 DEF Fits, LinkStep
  <2>2. here /\ old /\ ~new
    BY <1>1, <1>5, <2>1 DEF Does, IsCopy
  <2>3. here2 /\ old2 /\ new2
    BY <1>5, <1>6, <2>1, <2>2 DEF Does, IsCopy, Takes, Grows
  <2>4. \A q \in Procs : ~At(q, 8, 3)
    BY <1>1, <2>2
  <2>5. \A q \in Procs : ~At(q, 8, 4)
    BY <1>1, <2>2
  <2>6. \A q \in Procs : ~At(q, 8, 4)' /\ (At(q, 8, 3)' => q = p)
    BY <1>3, <1>4, <1>7, <2>4, <2>5
  <2> QED BY <2>3, <2>6 DEF LinkSafe
<1>8. CASE m = 8 /\ s = 3
  <2>1. st.op = "drop" /\ st.t = "pointer_links"
    BY <1>5, <1>8 DEF Fits, LinkStep
  <2>2. At(p, 8, 3)
    BY <1>2, <1>8 DEF At, m, s
  <2>3. new2 /\ ~here2
    BY <1>1, <1>2, <1>5, <1>6, <2>1, <2>2 DEF Does, Takes, Grows
  <2>4. \A q \in Procs : ~At(q, 8, 3)' /\ (At(q, 8, 4)' => q = p)
    BY <1>1, <1>2, <1>3, <1>4, <1>8, <2>2
  <2> QED BY <2>3, <2>4 DEF LinkSafe
<1>9. CASE m = 8 /\ s = 4
  <2>1. IsRename(st, "pointer_links_new", "pointer_links")
    BY <1>5, <1>9 DEF Fits, LinkStep
  <2>2. At(p, 8, 4)
    BY <1>2, <1>9 DEF At, m, s
  <2>3. here2 /\ old2
    BY <1>1, <1>2, <1>5, <2>1, <2>2 DEF Does, IsRename
  <2>4. \A q \in Procs : ~At(q, 8, 3)' /\ ~At(q, 8, 4)'
    BY <1>1, <1>2, <1>3, <1>4, <1>9, <2>2
  <2> QED BY <2>3, <2>4 DEF LinkSafe
<1>10. CASE ~(m = 8 /\ s \in {2, 3, 4})
  <2>1. ~Takes(st, "pointer_links") /\ ~Takes(st, "pointer_links_new")
    BY <1>5, <1>10, Taken, LegacyNames DEF Kept
  <2>2. ~Makes(st, "pointer_links")
    BY <1>2, <1>5, <1>10, Made, LegacyNames
  <2>3. (here2 <=> here) /\ (old => old2) /\ (new => new2)
    BY <1>6, <2>1, <2>2 DEF Grows
  <2>4. \A q \in Procs : (At(q, 8, 3)' => At(q, 8, 3)) /\ (At(q, 8, 4)' => At(q, 8, 4))
    BY <1>2, <1>3, <1>4, <1>10
  <2> QED BY <1>1, <2>3, <2>4 DEF LinkSafe
<1> QED BY <1>7, <1>8, <1>9, <1>10

(* A statement keeps the rows with a status: RENAME moves them to a name that was free, the copy
   puts them back, and DROP takes what has been copied. *)
LEMMA StatusedExec ==
    ASSUME IInv, NEW p, NEW st, Executed(p, st)
    PROVE  StatusedSafe'
<1> SUFFICES ASSUME NEW t \in Statused
             PROVE  /\ OneInside(13, t)' /\ OneInside(14, t)'
                    /\ t \in DOMAIN original => \A i \in original[t] : RowSafe(t, i)'
  BY DEF StatusedSafe, Executed
<1> PICK m, s : m = calls[p].m /\ s = calls[p].s
  OBVIOUS
<1> DEFINE R == RenamedAt(t)
           K == CopiedAt(t)
           D == DroppedAt(t)
<1>1. p \in Procs /\ Executes(p, m) /\ s \in Nat /\ Fits(m, s, st) /\ Does(tables, tables', st)
  BY DEF Executed, Executes, Fits
<1>2. /\ R \in Nat /\ K \in Nat /\ D \in Nat /\ 0 < R /\ R < K /\ K < D
  BY Positions
<1>3. \A k : \A q \in Procs : q # p => /\ Inside(q, k, t)' <=> Inside(q, k, t)
                                       /\ Dropping(q, k, t)' <=> Dropping(q, k, t)
  BY DEF Executed, Inside, Dropping, Executes
<1>4. \A k : /\ Inside(p, k, t)' => k = m /\ s + 1 \in R + 1 .. D
             /\ Dropping(p, k, t)' => k = m /\ s + 1 \in K + 1 .. D
  BY DEF Executed, Inside, Dropping, Executes
<1>5. \A k : /\ Inside(p, k, t) <=> k = m /\ s \in R + 1 .. D
             /\ Dropping(p, k, t) <=> k = m /\ s \in K + 1 .. D
  BY <1>1 DEF Inside, Dropping, Executes
<1> HIDE DEF R, K, D
<1>6. \A k : \A q \in Procs : Dropping(q, k, t) => Inside(q, k, t)
  BY <1>2 DEF Dropping, Inside, R, K, D
<1>7. OneInside(13, t) /\ OneInside(14, t)
  BY DEF IInv, StatusedSafe
<1>8. \A x : ~Takes(st, x) => Grows(tables, tables', x)
  BY <1>1 DEF Does
<1>9. ASSUME NEW k \in {13, 14}
      PROVE  OneInside(k, t)'
  <2> DEFINE L == Legacy(k, t)
  <2>10. /\ \A q \in Procs : Inside(q, k, t) => L \in DOMAIN tables
         /\ \A q, r \in Procs : Inside(q, k, t) /\ Inside(r, k, t) => q = r
    BY <1>7, <1>9 DEF OneInside
  <2>1. CASE m = k /\ s = R
    <3>1. IsRename(st, t, L)
      BY <1>1, <1>9, <2>1 DEF Fits, RebuildStep, R
    <3>2. L \notin DOMAIN tables /\ L \in DOMAIN tables'
      BY <1>1, <3>1 DEF Does, IsRename
    <3>3. \A q \in Procs : Inside(q, k, t)' => q = p
      BY <1>3, <2>10, <3>2
    <3> QED BY <3>2, <3>3 DEF OneInside
  <2>2. CASE m = k /\ s = D
    <3>1. Inside(p, k, t)
      BY <1>1, <1>2, <1>5, <2>2
    <3>2. ~Inside(p, k, t)'
      BY <1>1, <1>2, <1>4, <2>2
    <3>3. \A q \in Procs : ~Inside(q, k, t)'
      BY <1>1, <1>3, <2>10, <3>1, <3>2
    <3> QED BY <3>3 DEF OneInside
  <2>3. CASE ~(m = k /\ s \in {R, D})
    <3>1. ~Takes(st, L)
      <4> SUFFICES ASSUME Takes(st, L) PROVE FALSE OBVIOUS
      <4>1. L \in Kept /\ L \in Legacies
        BY LegacyNames DEF Kept
      <4>2. m \in {13, 14} /\ \E u \in Statused : s = DroppedAt(u) /\ L = Legacy(m, u)
        <5> HIDE DEF L
        <5> QED BY <1>1, <4>1, Taken, LegacyNames
      <4> QED BY <1>9, <2>3, <4>2, LegacyNames DEF D
    <3>2. L \in DOMAIN tables => L \in DOMAIN tables'
      BY <1>8, <3>1 DEF Grows
    <3>3. \A q \in Procs : Inside(q, k, t)' => Inside(q, k, t)
      BY <1>1, <1>2, <1>3, <1>4, <1>5, <2>3
    <3> QED BY <2>10, <3>2, <3>3 DEF OneInside
  <2> QED BY <2>1, <2>2, <2>3
<1>10. ASSUME t \in DOMAIN original, NEW i \in original[t]
       PROVE  RowSafe(t, i)'
  <2> DEFINE new == i \in Valid(tables, t)
             new2 == i \in Valid(tables', t)
             held(k) == i \in Valid(tables, Legacy(k, t))
             held2(k) == i \in Valid(tables', Legacy(k, t))
  <2>1. /\ new \/ held(13) \/ held(14)
        /\ \A q \in Procs : /\ Dropping(q, 13, t) => new \/ held(14)
                            /\ Dropping(q, 14, t) => new \/ held(13)
        /\ \A q, r \in Procs : Dropping(q, 13, t) /\ Dropping(r, 14, t) => new
    BY <1>10 DEF IInv, StatusedSafe, RowSafe
  <2>2. \A k \in {13, 14} : \A q \in Procs : Inside(q, k, t) => Legacy(k, t) \in DOMAIN tables
    BY <1>7 DEF OneInside
  <2>3. ASSUME NEW x \in {t, Legacy(13, t), Legacy(14, t)},
               Takes(st, x)
        PROVE  m \in {13, 14} /\ ((s = R /\ x = t) \/ (s = D /\ x = Legacy(m, t)))
    <3>1. x \in Kept /\ x \notin {"pointer_links", "pointer_links_new"}
      BY LegacyNames DEF Kept
    <3>2. /\ m \in {13, 14}
          /\ \E u \in Statused : \/ s = RenamedAt(u) /\ x = u
                                 \/ s = DroppedAt(u) /\ x = Legacy(m, u)
      BY <1>1, <2>3, <3>1, Taken
    <3>3. PICK u \in Statused : (s = RenamedAt(u) /\ x = u) \/ (s = DroppedAt(u) /\ x = Legacy(m, u))
      BY <3>2
    <3>4. u = t
      BY <3>2, <3>3, LegacyNames
    <3> QED BY <3>2, <3>3, <3>4, LegacyNames DEF R, D
  <2>4. CASE m \in {13, 14} /\ s = R
    <3>1. IsRename(st, t, Legacy(m, t))
      BY <1>1, <2>4 DEF Fits, RebuildStep, R
    <3>2. ~held(m) /\ (new => held2(m)) /\ \A q \in Procs : ~Inside(q, m, t)
      BY <1>1, <2>2, <2>4, <3>1 DEF Does, IsRename, Valid
    <3>3. \A k \in {13, 14} \ {m} : held(k) => held2(k)
      <4>1. ASSUME NEW k \in {13, 14}, k # m PROVE ~Takes(st, Legacy(k, t))
        BY <1>2, <2>3, <2>4, <4>1, LegacyNames
      <4> QED BY <1>8, <4>1 DEF Grows
    <3>4. \A q \in Procs : ~Dropping(q, m, t)'
      <4>1. ~Dropping(p, m, t)'
        BY <1>1, <1>2, <1>4, <2>4
      <4>2. \A q \in Procs : ~Dropping(q, m, t)
        BY <1>6, <3>2
      <4> QED BY <1>3, <4>1, <4>2
    <3>5. \A q \in Procs, k \in {13, 14} \ {m} : Dropping(q, k, t)' => Dropping(q, k, t)
      BY <1>1, <1>3, <1>4
    <3>6. CASE m = 13
      BY <2>1, <3>2, <3>3, <3>4, <3>5, <3>6 DEF RowSafe
    <3>7. CASE m = 14
      BY <2>1, <3>2, <3>3, <3>4, <3>5, <3>7 DEF RowSafe
    <3> QED BY <2>4, <3>6, <3>7
  <2>5. CASE m \in {13, 14} /\ s = K
    <3>1. IsCopy(st, Legacy(m, t), t)
      BY <1>1, <2>5 DEF Fits, RebuildStep, K
    <3>2. held(m) => new2
      BY <1>1, <3>1 DEF Does, IsCopy
    <3>3. (new => new2) /\ (held(13) => held2(13)) /\ (held(14) => held2(14))
      <4>1. \A x : ~Takes(st, x)
        BY <3>1 DEF IsCopy, Takes
      <4> QED BY <1>8, <4>1 DEF Grows
    <3>4. \A q \in Procs, k \in {13, 14} \ {m} : Dropping(q, k, t)' => Dropping(q, k, t)
      BY <1>1, <1>3, <1>4
    <3>5. CASE m = 13
      BY <2>1, <3>2, <3>3, <3>4, <3>5 DEF RowSafe
    <3>6. CASE m = 14
      BY <2>1, <3>2, <3>3, <3>4, <3>6 DEF RowSafe
    <3> QED BY <2>5, <3>5, <3>6
  <2>6. CASE m \in {13, 14} /\ s = D
    <3>1. Dropping(p, m, t) /\ Inside(p, m, t)
      BY <1>1, <1>2, <1>5, <2>6
    <3>2. ~Takes(st, t) /\ \A k \in {13, 14} \ {m} : ~Takes(st, Legacy(k, t))
      BY <1>2, <2>3, <2>6, LegacyNames
    <3>3. (new => new2) /\ \A k \in {13, 14} \ {m} : held(k) => held2(k)
      BY <1>8, <3>2 DEF Grows
    <3>4. \A q \in Procs : ~Dropping(q, m, t)'
      <4>1. \A q \in Procs : Inside(q, m, t) => q = p
        BY <1>1, <1>7, <2>6, <3>1 DEF OneInside
      <4>2. ~Dropping(p, m, t)'
        BY <1>1, <1>2, <1>4, <2>6
      <4>3. \A q \in Procs : q # p => ~Dropping(q, m, t)
        BY <1>6, <4>1
      <4> QED BY <1>3, <4>2, <4>3
    <3>5. \A q \in Procs, k \in {13, 14} \ {m} : Dropping(q, k, t)' => Dropping(q, k, t)
      BY <1>1, <1>3, <1>4
    <3>6. CASE m = 13
      BY <1>1, <2>1, <3>1, <3>3, <3>4, <3>5, <3>6 DEF RowSafe
    <3>7. CASE m = 14
      BY <1>1, <2>1, <3>1, <3>3, <3>4, <3>5, <3>7 DEF RowSafe
    <3> QED BY <2>6, <3>6, <3>7
  <2>7. CASE ~(m \in {13, 14} /\ s \in {R, K, D})
    <3>1. (new => new2) /\ (held(13) => held2(13)) /\ (held(14) => held2(14))
      <4>1. \A x \in {t, Legacy(13, t), Legacy(14, t)} : ~Takes(st, x)
        BY <2>3, <2>7
      <4> QED BY <1>8, <4>1 DEF Grows
    <3>2. \A q \in Procs, k \in {13, 14} : Dropping(q, k, t)' => Dropping(q, k, t)
      BY <1>1, <1>2, <1>3, <1>4, <1>5, <2>7
    <3> QED BY <2>1, <3>1, <3>2 DEF RowSafe
  <2> QED BY <2>4, <2>5, <2>6, <2>7
<1> QED BY <1>9, <1>10

(***************************************************************************)
(* Every action is one or the other.                                       *)
(***************************************************************************)
(* A step that changes one call, and no table, is calm. *)
LEMMA SameTables ==
    ASSUME IInv, tables' = tables, original' = original, ledger \subseteq ledger',
           NEW p \in Procs, NEW c, CallOK(c), calls' = [calls EXCEPT ![p] = c],
           c.pc = "exec" => c.s = 1 /\ c.m \notin ledger
    PROVE  Calm
<1>1. calls = [q \in Procs |-> calls[q]] /\ \A q \in Procs : CallOK(calls[q])
  BY DEF IInv, Typed
<1>2. calls' = [q \in Procs |-> IF q = p THEN c ELSE calls[q]]
  BY <1>1
<1>3. \A q \in Procs : calls'[q] = IF q = p THEN c ELSE calls[q]
  BY <1>2
<1>4. calls' = [q \in Procs |-> calls'[q]]
  BY <1>2
<1>5. Typed'
  BY <1>1, <1>3, <1>4 DEF IInv, Typed
<1>6. \A q \in Procs : calls'[q] = calls[q] \/ Fresh(q)
  BY <1>3 DEF Fresh
<1> QED BY <1>5, <1>6 DEF Calm

(* New is called. *)
LEMMA StartOpenIsCalm ==
    ASSUME IInv, NEW p \in Procs, StartOpen(p)
    PROVE  Calm
<1>1. PICK c : c = [pc |-> "check", m |-> 1, s |-> 1]
  OBVIOUS
<1>2. CallOK(c) /\ c.pc = "check"
  BY <1>1, Seventeen DEF CallOK, IsCall
<1>3. calls' = [calls EXCEPT ![p] = c]
  BY <1>1 DEF StartOpen
<1> QED BY <1>2, <1>3, SameTables DEF StartOpen

(* The ledger is asked for a migration, which begins when it is not there. *)
LEMMA CheckIsCalm ==
    ASSUME IInv, NEW p \in Procs, Check(p)
    PROVE  Calm
<1>1. CallOK(calls[p]) /\ calls[p].pc = "check" /\ calls[p].m \in 1..LastMigration + 1
  BY DEF IInv, Typed, Check, CallOK
<1> DEFINE m == calls[p].m
           to == IF m > LastMigration THEN [pc |-> "ready", m |-> m, s |-> calls[p].s]
                 ELSE IF m \in ledger THEN [pc |-> "check", m |-> m + 1, s |-> 1]
                 ELSE [pc |-> "exec", m |-> m, s |-> 1]
<1>2. calls' = [calls EXCEPT ![p] = to]
  <2>1. [calls[p] EXCEPT !.pc = "ready"] = [pc |-> "ready", m |-> m, s |-> calls[p].s]
    BY <1>1 DEF CallOK, IsCall
  <2> QED BY <2>1 DEF Check
<1>3. PICK c : c = to OBVIOUS
<1>4. CallOK(c)
  <2>1. CASE m > LastMigration
    BY <1>3, <2>1 DEF CallOK, IsCall
  <2>2. CASE m \in ledger /\ ~(m > LastMigration)
    BY <1>1, <1>3, <2>2, Seventeen DEF CallOK, IsCall
  <2>3. CASE m \notin ledger /\ ~(m > LastMigration)
    <3>1. m \in 1..LastMigration BY <1>1, <2>3, Seventeen
    <3>2. 1 \in DOMAIN Script[m] BY <3>1, ScriptShapes DEF IsScript
    <3> QED BY <1>3, <2>3, <3>1, <3>2 DEF CallOK, IsCall
  <2> QED BY <2>1, <2>2, <2>3
<1>5. c.pc = "exec" => c.s = 1 /\ c.m \notin ledger
  BY <1>3
<1>6. calls' = [calls EXCEPT ![p] = c]
  BY <1>2, <1>3
<1> HIDE DEF to
<1> QED BY <1>4, <1>5, <1>6, SameTables DEF Check

(* A statement is refused: SQLite has changed nothing. *)
LEMMA RefuseIsCalm ==
    ASSUME IInv, NEW p \in Procs, Refuse(p)
    PROVE  Calm
<1>1. CallOK(calls[p])
  BY DEF IInv, Typed
<1>2. PICK c : c = [pc |-> "failed", m |-> calls[p].m, s |-> calls[p].s]
  OBVIOUS
<1>3. calls' = [calls EXCEPT ![p] = c]
  <2>1. calls' = [calls EXCEPT ![p] = [calls[p] EXCEPT !.pc = "failed"]]
    BY DEF Refuse
  <2>2. [calls[p] EXCEPT !.pc = "failed"] = c
    BY <1>1, <1>2 DEF CallOK, IsCall
  <2> QED BY <2>1, <2>2
<1>4. CallOK(c) /\ c.pc = "failed"
  BY <1>2 DEF CallOK, IsCall
<1> QED BY <1>3, <1>4, SameTables DEF Refuse

(* The migration is recorded. *)
LEMMA RecordIsCalm ==
    ASSUME IInv, NEW p \in Procs, Record(p)
    PROVE  Calm
<1>1. calls[p].m \in 1..LastMigration
  BY DEF IInv, Typed, CallOK, Record
<1>2. PICK c : c = [pc |-> "check", m |-> calls[p].m + 1, s |-> 1]
  OBVIOUS
<1>3. calls' = [calls EXCEPT ![p] = c]
  BY <1>2 DEF Record
<1>4. CallOK(c) /\ c.pc = "check"
  BY <1>1, <1>2, Seventeen DEF CallOK, IsCall
<1> QED BY <1>3, <1>4, SameTables DEF Record

(* The process ends, or its context does. *)
LEMMA CutIsCalm ==
    ASSUME IInv, NEW p \in Procs, Cut(p)
    PROVE  Calm
<1>1. CallOK(calls[p])
  BY DEF IInv, Typed
<1>2. PICK c : c = [pc |-> "cut", m |-> calls[p].m, s |-> calls[p].s]
  OBVIOUS
<1>3. calls' = [calls EXCEPT ![p] = c]
  <2>1. calls' = [calls EXCEPT ![p] = [calls[p] EXCEPT !.pc = "cut"]]
    BY DEF Cut
  <2>2. [calls[p] EXCEPT !.pc = "cut"] = c
    BY <1>1, <1>2 DEF CallOK, IsCall
  <2> QED BY <2>1, <2>2
<1>4. CallOK(c) /\ c.pc = "cut"
  BY <1>2 DEF CallOK, IsCall
<1> QED BY <1>3, <1>4, SameTables DEF Cut

(* A status is written over, the row stays. *)
LEMMA SupersedeIsCalm ==
    ASSUME IInv, NEW p \in Procs, Supersede(p)
    PROVE  Calm
<1> DEFINE r == tables["work_items"]
           rows2 == [r.rows EXCEPT ![1] = "superseded"]
           r2 == [cols |-> r.cols, filled |-> r.filled, check |-> r.check, rows |-> rows2]
<1>1. "work_items" \in DOMAIN tables /\ 1 \in DOMAIN r.rows
  BY DEF Supersede, Exists, Schema
<1>2. r = [cols |-> r.cols, filled |-> r.filled, check |-> r.check, rows |-> r.rows]
  BY <1>1 DEF IInv, Typed, IsTable
<1>3. tables' = [tables EXCEPT !["work_items"] = r2]
  <2>1. tables' = [tables EXCEPT !["work_items"] = [r EXCEPT !.rows = rows2]]
    BY DEF Supersede
  <2>2. [r EXCEPT !.rows = rows2] = r2
    <3> HIDE DEF rows2
    <3> QED BY <1>2
  <2> QED BY <2>1, <2>2
<1>4. IsTable(r2) /\ r2.rows = rows2
  <2> HIDE DEF rows2
  <2> QED BY DEF IsTable
<1>5. DOMAIN rows2 = DOMAIN r.rows /\ \A i \in DOMAIN r.rows : r.rows[i] # "orphan" => rows2[i] # "orphan"
  OBVIOUS
<1> HIDE DEF r2, rows2
<1>6. /\ DOMAIN tables' = DOMAIN tables
      /\ \A x \in DOMAIN tables : IsTable(tables'[x]) /\ (x # "work_items" => tables'[x] = tables[x])
      /\ tables'["work_items"] = r2
  BY <1>1, <1>3, <1>4 DEF IInv, Typed
<1>7. \A x : Valid(tables, x) \subseteq Valid(tables', x)
  BY <1>1, <1>4, <1>5, <1>6 DEF Valid
<1>8. Typed'
  BY <1>6 DEF IInv, Typed, Supersede
<1> QED BY <1>6, <1>7, <1>8 DEF Calm, Supersede

(* One statement of the script. *)
LEMMA ExecIsExecuted ==
    ASSUME IInv, NEW p \in Procs, Exec(p)
    PROVE  Executed(p, Current(p))
<1> DEFINE m == calls[p].m
           s == calls[p].s
           st == Current(p)
<1>1. /\ CallOK(calls[p]) /\ calls[p].pc = "exec"
      /\ m \in 1..LastMigration /\ s \in DOMAIN Script[m]
      /\ st = Script[m][s]
  BY DEF IInv, Typed, Exec, CallOK, Current
<1>2. Fits(m, s, st)
  <2> HIDE DEF m, s, st
  <2> QED BY <1>1, ScriptFits
<1>3. Does(tables, tables', st)
  <2>1. /\ Possible([tables |-> tables, indexes |-> indexes], st)
        /\ tables' = Effect([tables |-> tables, indexes |-> indexes], st).tables
    BY DEF Exec, Schema
  <2>2. WellFormed(st) /\ \A x \in DOMAIN tables : IsTable(tables[x])
    BY <1>2 DEF Fits, IInv, Typed
  <2> HIDE DEF st
  <2> QED BY <2>1, <2>2, EffectDoes
<1> DEFINE to == IF s = Len(Script[m]) THEN [pc |-> "record", m |-> m, s |-> s]
                 ELSE [pc |-> "exec", m |-> m, s |-> s + 1]
<1>4. calls' = [calls EXCEPT ![p] = to]
  <2>1. [calls[p] EXCEPT !.pc = "record"] = [pc |-> "record", m |-> m, s |-> s]
    BY <1>1 DEF CallOK, IsCall
  <2> QED BY <2>1 DEF Exec
<1>5. CallOK(to) /\ (to.pc = "exec" => to.m = m /\ to.s = s + 1)
  <2> HIDE DEF m, s
  <2>1. CASE s = Len(Script[m])
    <3>1. PICK c : c = [pc |-> "record", m |-> m, s |-> s] OBVIOUS
    <3>2. CallOK(c) /\ c.pc = "record" BY <1>1, <3>1 DEF CallOK, IsCall
    <3> QED BY <2>1, <3>1, <3>2
  <2>2. CASE s # Len(Script[m])
    <3>1. s + 1 \in DOMAIN Script[m]
      BY <1>1, <2>2, ScriptShapes DEF IsScript
    <3>2. PICK c : c = [pc |-> "exec", m |-> m, s |-> s + 1] OBVIOUS
    <3>3. CallOK(c) /\ c.pc = "exec" /\ c.m = m /\ c.s = s + 1
      BY <1>1, <3>1, <3>2 DEF CallOK, IsCall
    <3> QED BY <2>2, <3>2, <3>3
  <2> QED BY <2>1, <2>2
<1> HIDE DEF to
<1>6. calls' = [q \in Procs |-> IF q = p THEN to ELSE calls[q]]
  BY <1>4 DEF IInv, Typed
<1>7. \A q \in Procs : calls'[q] = IF q = p THEN to ELSE calls[q]
  BY <1>6
<1>8. Typed'
  <2>1. \A x \in DOMAIN tables' : IsTable(tables'[x]) BY <1>3 DEF Does
  <2>2. \A q \in Procs : CallOK(calls'[q]) BY <1>5, <1>7 DEF IInv, Typed
  <2>3. calls' = [q \in Procs |-> calls'[q]] BY <1>6
  <2> QED BY <2>1, <2>2, <2>3 DEF IInv, Typed, Exec
<1> QED BY <1>1, <1>2, <1>3, <1>5, <1>7, <1>8 DEF Executed, Exec

(* The invariant is inductive. *)
LEMMA StepIInv == IInv /\ [Next]_vars => IInv'
<1> SUFFICES ASSUME IInv, [Next]_vars PROVE IInv' OBVIOUS
<1>1. CASE UNCHANGED vars
  <2>1. Calm BY <1>1 DEF vars, Calm, IInv, Typed
  <2> QED BY <2>1, CalmKeeps
<1>2. ASSUME NEW p \in Procs, StartOpen(p) PROVE IInv'
  BY <1>2, StartOpenIsCalm, CalmKeeps
<1>3. ASSUME NEW p \in Procs, Check(p) PROVE IInv'
  BY <1>3, CheckIsCalm, CalmKeeps
<1>4. ASSUME NEW p \in Procs, Refuse(p) PROVE IInv'
  BY <1>4, RefuseIsCalm, CalmKeeps
<1>5. ASSUME NEW p \in Procs, Record(p) PROVE IInv'
  BY <1>5, RecordIsCalm, CalmKeeps
<1>6. ASSUME NEW p \in Procs, Cut(p) PROVE IInv'
  BY <1>6, CutIsCalm, CalmKeeps
<1>7. ASSUME NEW p \in Procs, Supersede(p) PROVE IInv'
  BY <1>7, SupersedeIsCalm, CalmKeeps
<1>8. ASSUME NEW p \in Procs, Exec(p) PROVE IInv'
  <2>1. PICK st : Executed(p, st) BY <1>8, ExecIsExecuted
  <2>2. Typed' BY <2>1 DEF Executed
  <2> QED BY <2>1, <2>2, OrdinaryExec, FirstExec, LinksExec, StatusedExec DEF IInv
<1> QED BY <1>1, <1>2, <1>3, <1>4, <1>5, <1>6, <1>7, <1>8 DEF Next

(* And says where each row is. *)
LEMMA IInvMeansNoRowLost == IInv => NoRowLost
<1> SUFFICES ASSUME IInv, NEW t \in DOMAIN original, NEW i \in original[t]
             PROVE  \E h \in Homes(t) : h \in DOMAIN tables /\ i \in DOMAIN tables[h].rows
  BY DEF NoRowLost
<1>1. \A x : i \in Valid(tables, x) => x \in DOMAIN tables /\ i \in DOMAIN tables[x].rows
  BY DEF Valid
<1>2. SUFFICES \E h \in Homes(t) : i \in Valid(tables, h)
  BY <1>1
<1>3. t \in Homes(t)
  BY DEF Homes
<1>4. CASE t \in Ordinary
  BY <1>3, <1>4 DEF IInv, OrdinarySafe
<1>5. CASE t = "pointer_links"
  <2>1. i \in Valid(tables, "pointer_links") \/ i \in Valid(tables, "pointer_links_new")
    BY <1>5 DEF IInv, LinksSafe, LinkSafe
  <2>2. "pointer_links_new" \in Homes(t)
    BY <1>5 DEF Homes
  <2> QED BY <1>3, <1>5, <2>1, <2>2
<1>6. CASE t \in Statused
  <2>1. \/ i \in Valid(tables, t) \/ i \in Valid(tables, Legacy(13, t))
        \/ i \in Valid(tables, Legacy(14, t))
    BY <1>6 DEF IInv, StatusedSafe, RowSafe
  <2>2. Legacy(13, t) \in Homes(t) /\ Legacy(14, t) \in Homes(t)
    BY <1>6, LegacyTable DEF Homes, Statused
  <2> QED BY <1>3, <2>1, <2>2
<1> QED BY <1>4, <1>5, <1>6 DEF IInv, Typed, Ordinary

(* Rebuilding a table never drops the last copy of a row, wherever calls of New are cut and
   however many of them overlap (applyMigrations, migrations 0008, 0013 and 0014). *)
THEOREM RowsAreKept == Spec => []NoRowLost
<1>1. Init => IInv BY InitIInv
<1>2. IInv /\ [Next]_vars => IInv' BY StepIInv
<1>3. IInv => NoRowLost BY IInvMeansNoRowLost
<1> QED BY <1>1, <1>2, <1>3, PTL DEF Spec

(***************************************************************************)
(* ReadyMeansSettled.  A migration that ran stays done: a call comes past  *)
(* it only when the ledger names it, and without overlap the ledger names  *)
(* it only when nobody is in it any more.  What its statements did can     *)
(* then only be undone by later ones, and none of those does (Settling).   *)
(***************************************************************************)
(* The tables that are gone after the last migration, and the statement after which no one makes
   them again. *)
Fleeting == Doomed \cup {"pointer_links_new", "memory_candidates_new"} \cup Legacies
GoneAt(x) ==
    CASE x = "pointer_links_new"     -> [m |-> 8, s |-> 4]
      [] x = "memory_candidates_new" -> [m |-> 8, s |-> 9]
      [] x = "work_items_legacy_completed"       -> [m |-> 13, s |-> 4]
      [] x = "work_plan_tasks_legacy_completed"  -> [m |-> 13, s |-> 14]
      [] x = "work_plans_legacy_completed"       -> [m |-> 13, s |-> 15]
      [] x = "work_items_legacy_superseded"      -> [m |-> 14, s |-> 4]
      [] x = "work_plan_tasks_legacy_superseded" -> [m |-> 14, s |-> 14]
      [] x = "work_plans_legacy_superseded"      -> [m |-> 14, s |-> 15]
      [] x = "memory_candidates" -> [m |-> 15, s |-> 1]
      [] x = "memories"          -> [m |-> 15, s |-> 2]

(* The statement of 0014 that makes the new table t. *)
RebuiltAt(t) == CASE t = "work_items" -> 2 [] t = "work_plans" -> 8 [] t = "work_plan_tasks" -> 11

(* Statement s of migration m has run, in the migrations the ledger names and in those a call is
   in now. *)
Done(m, s) ==
    \/ m \in ledger
    \/ \E p \in Procs : /\ calls[p].m = m
                        /\ calls[p].pc = "record" \/ (calls[p].pc = "exec" /\ calls[p].s > s)

(* The ledger names a prefix of the script, and a call is past nothing the ledger lacks. *)
LedgerFirst ==
    /\ ledger \subseteq 1..LastMigration
    /\ \A m \in ledger : 1..m \subseteq ledger
    /\ \A p \in Procs : Open(p) => 1 .. calls[p].m - 1 \subseteq ledger
    /\ \A p \in Procs : calls[p].pc = "ready" => 1..LastMigration \subseteq ledger

(* Without overlap one call is open, and the ledger does not name the migration it is in. *)
OneOpen ==
    /\ \A p, q \in Procs : Open(p) /\ Open(q) => p = q
    /\ \A p \in Procs : calls[p].pc \in {"exec", "record"} => calls[p].m \notin ledger

(* No table and no column but those the script gives. *)
WithinScript ==
    /\ DOMAIN tables \subseteq FinalTables \cup Fleeting
    /\ \A t \in DOMAIN tables \cap FinalTables : tables[t].cols \subseteq GivenColumns(t)
    /\ "pointer_links_new" \in DOMAIN tables => tables["pointer_links_new"].cols = {}
    /\ "receipts" \in DOMAIN tables => tables["receipts"].filled \subseteq FilledColumns

(* What a statement did to a table no migration rebuilds stands, overlap or not. *)
OrdinaryStands ==
    \A m \in 1..LastMigration : \A s \in DOMAIN Script[m] :
        Done(m, s) /\ Script[m][s].t \in Ordinary => Stands(tables, Script[m][s])

(* Without overlap a leftover is gone for good and a rebuilt table has come to stay. *)
LeftoversGone == \A x \in Fleeting : Done(GoneAt(x).m, GoneAt(x).s) => x \notin DOMAIN tables
RebuiltStand ==
    /\ Done(8, 4) => "pointer_links" \in DOMAIN tables
    /\ \A t \in Statused : Done(14, RebuiltAt(t)) => Rebuilt(tables, t)

(* The inductive invariant, together with IInv. *)
Settling ==
    /\ LedgerFirst /\ WithinScript /\ OrdinaryStands
    /\ ~overlap => OneOpen /\ LeftoversGone /\ RebuiltStand

(***************************************************************************)
(* The statements again, now for what they do to tables and columns.       *)
(***************************************************************************)
(* Statement s of migration m comes before the one x is gone after. *)
Earlier(m, s, x) == m < GoneAt(x).m \/ (m = GoneAt(x).m /\ s < GoneAt(x).s)

(* The tables a statement makes, the columns it gives and the one it may take. *)
Suits(m, s, st) ==
    /\ \A x \in Fleeting : Makes(st, x) => Earlier(m, s, x)
    /\ st.op = "create" =>
          /\ st.t \in FinalTables \cup Fleeting
          /\ st.t \in Ordinary => \A c \in st.cols : st.t = "receipts" /\ c = "memory_ids"
          /\ st.t \in Statused => st.cols \subseteq RebuiltColumns(st.t)
          /\ st.t \in {"pointer_links", "pointer_links_new"} => st.cols = {}
    /\ st.op = "rename" => \/ st.t = "pointer_links_new" /\ st.to = "pointer_links"
                           \/ st.to \in Fleeting \ {"pointer_links_new"}
    /\ st.op = "add" =>
          /\ st.t \in Ordinary \cup Statused
          /\ st.t \in Statused => st.c \in RebuiltColumns(st.t)
          /\ st.c # "memory_ids"
    /\ st.op = "dropcol" => st.t = "receipts" /\ st.c = "memory_ids"
    /\ st.op = "fill" =>
          /\ st.t = "receipts" /\ st.c \in FilledColumns
          /\ st.from = {} \/ (st.from = {"pointer_paths"} /\ m = 12)

(* The last statement about each leftover, evaluated. *)
LEMMA GoneTable ==
    /\ GoneAt("pointer_links_new").m = 8 /\ GoneAt("pointer_links_new").s = 4
    /\ GoneAt("memory_candidates_new").m = 8 /\ GoneAt("memory_candidates_new").s = 9
    /\ GoneAt("work_items_legacy_completed").m = 13 /\ GoneAt("work_items_legacy_completed").s = 4
    /\ GoneAt("work_plan_tasks_legacy_completed").m = 13
    /\ GoneAt("work_plan_tasks_legacy_completed").s = 14
    /\ GoneAt("work_plans_legacy_completed").m = 13 /\ GoneAt("work_plans_legacy_completed").s = 15
    /\ GoneAt("work_items_legacy_superseded").m = 14 /\ GoneAt("work_items_legacy_superseded").s = 4
    /\ GoneAt("work_plan_tasks_legacy_superseded").m = 14
    /\ GoneAt("work_plan_tasks_legacy_superseded").s = 14
    /\ GoneAt("work_plans_legacy_superseded").m = 14 /\ GoneAt("work_plans_legacy_superseded").s = 15
    /\ GoneAt("memory_candidates").m = 15 /\ GoneAt("memory_candidates").s = 1
    /\ GoneAt("memories").m = 15 /\ GoneAt("memories").s = 2
BY DEF GoneAt

(* What the last rebuild gives each table, evaluated. *)
LEMMA RebuiltTable ==
    /\ RebuiltColumns("work_items") = {} /\ RebuiltColumns("work_plans") = PlanColumns
    /\ RebuiltColumns("work_plan_tasks") = TaskColumns
    /\ RebuiltAt("work_items") = 2 /\ RebuiltAt("work_plans") = 8 /\ RebuiltAt("work_plan_tasks") = 11
BY DEF RebuiltColumns, RebuiltAt

(* Statements that make no table and touch no column. *)
LEMMA SuitsOther ==
    ASSUME NEW m, NEW s, NEW st, st.op \in {"index", "copy", "drop"}
    PROVE  Suits(m, s, st)
BY DEF Suits, Makes

(* CREATE TABLE IF NOT EXISTS of a table that stays, or of a doomed one before 0015. *)
LEMMA SuitsCreate ==
    ASSUME NEW m \in 1..14, NEW s, NEW st, st.op = "create", st.t \in FinalTables \cup Doomed,
           st.t = "receipts" => st.cols = {"memory_ids"},
           st.t # "receipts" => st.cols = {}
    PROVE  Suits(m, s, st)
<1>1. \A x \in Fleeting : Makes(st, x) => x \in Doomed
  BY DEF Makes, Fleeting, Doomed, FinalTables, Legacies
<1>2. \A x \in Doomed : Earlier(m, s, x)
  BY GoneTable DEF Earlier, Doomed
<1> QED BY <1>1, <1>2 DEF Suits, Ordinary, Statused, Fleeting, FinalTables, Doomed

(* ADD COLUMN, of a column that stays. *)
LEMMA SuitsAdd ==
    ASSUME NEW m, NEW s, NEW st, st.op = "add", st.t \in Ordinary \cup Statused,
           st.t \in Statused => st.c \in RebuiltColumns(st.t), st.c # "memory_ids"
    PROVE  Suits(m, s, st)
BY DEF Suits, Makes

(* The tables whose columns 0006, 0011, 0012, 0016 and 0017 add to. *)
LEMMA Altered ==
    /\ {"receipts", "runs", "verification_batches", "review_attempts"} \subseteq Ordinary
    /\ {"work_plans", "work_plan_tasks"} \subseteq Statused
    /\ Ordinary \cap Statused = {}
BY DEF Ordinary, Statused, FinalTables

(* The statements of the rebuilds of the status columns. *)
LEMMA SuitsRebuild ==
    ASSUME NEW m \in {13, 14}, NEW s, NEW st,
           \/ st.op \in {"index", "copy", "drop"}
           \/ st.op = "create" /\ st.t \in Statused /\ st.cols = RebuiltColumns(st.t)
           \/ \E t \in Statused : s = RenamedAt(t) /\ IsRename(st, t, Legacy(m, t))
    PROVE  Suits(m, s, st)
<1>1. CASE st.op \in {"index", "copy", "drop"}
  BY <1>1, SuitsOther
<1>2. CASE st.op = "create" /\ st.t \in Statused /\ st.cols = RebuiltColumns(st.t)
  <2>1. \A x \in Fleeting : ~Makes(st, x)
    BY <1>2 DEF Makes, Fleeting, Doomed, Statused, Legacies
  <2>2. st.t \in FinalTables /\ st.t \notin Ordinary \cup {"pointer_links", "pointer_links_new"}
    BY <1>2 DEF FinalTables, Ordinary, Statused
  <2> QED BY <1>2, <2>1, <2>2 DEF Suits
<1>3. CASE \E t \in Statused : s = RenamedAt(t) /\ IsRename(st, t, Legacy(m, t))
  <2>1. PICK t \in Statused : s = RenamedAt(t) /\ IsRename(st, t, Legacy(m, t))
    BY <1>3
  <2>2. Legacy(m, t) \in Fleeting \ {"pointer_links_new"}
    BY LegacyNames DEF Fleeting
  <2>3. Earlier(m, s, Legacy(m, t))
    BY <2>1, GoneTable, LegacyTable, PositionTable DEF Earlier, Statused
  <2> QED BY <2>1, <2>2, <2>3 DEF Suits, Makes, IsRename
<1> QED BY <1>1, <1>2, <1>3

(* Migration 0001. *)
LEMMA Suits01 == \A s \in DOMAIN M0001 : Suits(1, s, M0001[s])
<1> SUFFICES ASSUME NEW s \in DOMAIN M0001
             PROVE  Suits(1, s, M0001[s])
  OBVIOUS
<1> DEFINE st == M0001[s]
<1>5. st.op \in {"create", "index"}
  BY DEF M0001, CreateAbsent, Create, Index
<1>2. st.t \in {"pointers", "pointer_links", "memories", "receipts", "runs"}
  BY DEF M0001, CreateAbsent, Create, Index
<1>3. st.op = "create" => s \in {1, 3, 5, 7, 9}
  BY DEF M0001, CreateAbsent, Create, Index
<1>4. M0001[7].t = "receipts" /\ M0001[7].cols = {"memory_ids"}
  BY DEF M0001, CreateAbsent, Create
<1>6. \A i \in {1, 3, 5, 9} : M0001[i].t # "receipts" /\ M0001[i].cols = {}
  BY DEF M0001, CreateAbsent, Create
<1>1. \/ st.op = "index"
      \/ /\ st.op = "create" /\ st.t \in FinalTables \cup Doomed
         /\ st.t = "receipts" => st.cols = {"memory_ids"}
         /\ st.t # "receipts" => st.cols = {}
  BY <1>2, <1>3, <1>4, <1>5, <1>6 DEF FinalTables, Doomed
<1> QED BY <1>1, SuitsOther, SuitsCreate

(* Migration 0002. *)
LEMMA Suits02 == \A s \in DOMAIN M0002 : Suits(2, s, M0002[s])
<1> SUFFICES ASSUME NEW s \in DOMAIN M0002
             PROVE  Suits(2, s, M0002[s])
  OBVIOUS
<1>1. \/ M0002[s].op = "index"
      \/ /\ M0002[s].op = "create" /\ M0002[s].t \in FinalTables \cup Doomed
         /\ M0002[s].t = "receipts" => M0002[s].cols = {"memory_ids"}
         /\ M0002[s].t # "receipts" => M0002[s].cols = {}
  BY DEF M0002, CreateAbsent, Create, Index, FinalTables, Doomed
<1> QED BY <1>1, SuitsOther, SuitsCreate

(* Migration 0003. *)
LEMMA Suits03 == \A s \in DOMAIN M0003 : Suits(3, s, M0003[s])
<1> SUFFICES ASSUME NEW s \in DOMAIN M0003
             PROVE  Suits(3, s, M0003[s])
  OBVIOUS
<1>1. \/ M0003[s].op = "index"
      \/ /\ M0003[s].op = "create" /\ M0003[s].t \in FinalTables \cup Doomed
         /\ M0003[s].t = "receipts" => M0003[s].cols = {"memory_ids"}
         /\ M0003[s].t # "receipts" => M0003[s].cols = {}
  BY DEF M0003, CreateAbsent, Create, Index, FinalTables, Doomed
<1> QED BY <1>1, SuitsOther, SuitsCreate

(* Migration 0004. *)
LEMMA Suits04 == \A s \in DOMAIN M0004 : Suits(4, s, M0004[s])
<1> SUFFICES ASSUME NEW s \in DOMAIN M0004
             PROVE  Suits(4, s, M0004[s])
  OBVIOUS
<1>1. \/ M0004[s].op = "index"
      \/ /\ M0004[s].op = "create" /\ M0004[s].t \in FinalTables \cup Doomed
         /\ M0004[s].t = "receipts" => M0004[s].cols = {"memory_ids"}
         /\ M0004[s].t # "receipts" => M0004[s].cols = {}
  BY DEF M0004, CreateAbsent, Create, Index, FinalTables, Doomed
<1> QED BY <1>1, SuitsOther, SuitsCreate

(* Migration 0005. *)
LEMMA Suits05 == \A s \in DOMAIN M0005 : Suits(5, s, M0005[s])
<1> SUFFICES ASSUME NEW s \in DOMAIN M0005
             PROVE  Suits(5, s, M0005[s])
  OBVIOUS
<1>1. \/ M0005[s].op = "index"
      \/ /\ M0005[s].op = "create" /\ M0005[s].t \in FinalTables \cup Doomed
         /\ M0005[s].t = "receipts" => M0005[s].cols = {"memory_ids"}
         /\ M0005[s].t # "receipts" => M0005[s].cols = {}
  BY DEF M0005, CreateAbsent, Create, Index, FinalTables, Doomed
<1> QED BY <1>1, SuitsOther, SuitsCreate

(* Migration 0006. *)
LEMMA Suits06 == \A s \in DOMAIN M0006 : Suits(6, s, M0006[s])
<1> SUFFICES ASSUME NEW s \in DOMAIN M0006
             PROVE  Suits(6, s, M0006[s])
  OBVIOUS
<1>1. \/ M0006[s].op = "index"
      \/ /\ M0006[s].op = "add" /\ M0006[s].t = "work_plans"
         /\ M0006[s].c \in {"kind", "parent_plan_key", "external_refs"}
      \/ /\ M0006[s].op = "add" /\ M0006[s].t = "work_plan_tasks"
         /\ M0006[s].c \in {"parent_task_key", "external_refs"}
  BY DEF M0006, Index, AddColumn
<1> QED BY <1>1, Altered, RebuiltTable, SuitsOther, SuitsAdd DEF PlanColumns, TaskColumns

(* Migration 0007. *)
LEMMA Suits07 == \A s \in DOMAIN M0007 : Suits(7, s, M0007[s])
<1> SUFFICES ASSUME NEW s \in DOMAIN M0007
             PROVE  Suits(7, s, M0007[s])
  OBVIOUS
<1>1. \/ M0007[s].op = "index"
      \/ /\ M0007[s].op = "create" /\ M0007[s].t \in FinalTables \cup Doomed
         /\ M0007[s].t = "receipts" => M0007[s].cols = {"memory_ids"}
         /\ M0007[s].t # "receipts" => M0007[s].cols = {}
  BY DEF M0007, CreateAbsent, Create, Index, FinalTables, Doomed
<1> QED BY <1>1, SuitsOther, SuitsCreate

(* Migration 0008. *)
LEMMA Suits08 == \A s \in DOMAIN M0008 : Suits(8, s, M0008[s])
<1> SUFFICES ASSUME NEW s \in DOMAIN M0008
             PROVE  Suits(8, s, M0008[s])
  OBVIOUS
<1>1. \/ M0008[s].op \in {"index", "copy", "drop"}
      \/ M0008[s].op = "create" /\ s \in {1, 6}
      \/ M0008[s].op = "rename" /\ s \in {4, 9}
  BY DEF M0008, CreateAbsent, Create, Index, Rename, CopyValid, Drop, Copy
<1>4. /\ M0008[1].t = "pointer_links_new" /\ M0008[1].cols = {}
      /\ M0008[6].t = "memory_candidates_new" /\ M0008[6].cols = {}
  BY DEF M0008, CreateAbsent, Create
<1>5. /\ M0008[4].t = "pointer_links_new" /\ M0008[4].to = "pointer_links"
      /\ M0008[9].t = "memory_candidates_new" /\ M0008[9].to = "memory_candidates"
  BY DEF M0008, Rename
<1>2. \A x \in Fleeting : Makes(M0008[s], x) => Earlier(8, s, x)
  BY <1>1, <1>4, <1>5, GoneTable DEF Earlier, Makes, Fleeting, Doomed, Legacies
<1>3. "pointer_links_new" \in Fleeting /\ "memory_candidates_new" \in Fleeting
      /\ "memory_candidates" \in Fleeting
      /\ "pointer_links_new" \notin Ordinary \cup Statused
      /\ "memory_candidates_new" \notin Ordinary \cup Statused
  BY DEF Fleeting, Doomed, Ordinary, FinalTables, Statused
<1> QED BY <1>1, <1>2, <1>3, <1>4, <1>5, SuitsOther DEF Suits

(* Migration 0009. *)
LEMMA Suits09 == \A s \in DOMAIN M0009 : Suits(9, s, M0009[s])
<1> SUFFICES ASSUME NEW s \in DOMAIN M0009
             PROVE  Suits(9, s, M0009[s])
  OBVIOUS
<1>1. M0009[s].op = "index"
  BY DEF M0009, Index
<1> QED BY <1>1, SuitsOther

(* Migration 0010. *)
LEMMA Suits10 == \A s \in DOMAIN M0010 : Suits(10, s, M0010[s])
<1> SUFFICES ASSUME NEW s \in DOMAIN M0010
             PROVE  Suits(10, s, M0010[s])
  OBVIOUS
<1>1. \/ M0010[s].op = "index"
      \/ /\ M0010[s].op = "create" /\ M0010[s].t \in FinalTables \cup Doomed
         /\ M0010[s].t = "receipts" => M0010[s].cols = {"memory_ids"}
         /\ M0010[s].t # "receipts" => M0010[s].cols = {}
  BY DEF M0010, CreateAbsent, Create, Index, FinalTables, Doomed
<1> QED BY <1>1, SuitsOther, SuitsCreate

(* Migration 0011. *)
LEMMA Suits11 == \A s \in DOMAIN M0011 : Suits(11, s, M0011[s])
<1> SUFFICES ASSUME NEW s \in DOMAIN M0011
             PROVE  Suits(11, s, M0011[s])
  OBVIOUS
<1>1. /\ M0011[s].t = "receipts" /\ M0011[s].c = "pointer_paths"
      /\ M0011[s].op = "add" \/ (M0011[s].op = "fill" /\ M0011[s].from = {})
  BY DEF M0011, AddColumn, Fill
<1>2. CASE M0011[s].op = "add"
  BY <1>1, <1>2, Altered, SuitsAdd
<1>3. CASE M0011[s].op = "fill"
  BY <1>1, <1>3 DEF Suits, Makes, FilledColumns
<1> QED BY <1>1, <1>2, <1>3

(* Migration 0012. *)
LEMMA Suits12 == \A s \in DOMAIN M0012 : Suits(12, s, M0012[s])
<1> SUFFICES ASSUME NEW s \in DOMAIN M0012
             PROVE  Suits(12, s, M0012[s])
  OBVIOUS
<1>1. \/ /\ M0012[s].op = "add" /\ M0012[s].t = "receipts" /\ M0012[s].c # "memory_ids"
      \/ M0012[s].op = "add" /\ M0012[s].t = "work_plans" /\ M0012[s].c = "discovered_paths"
      \/ /\ M0012[s].op = "fill" /\ M0012[s].t = "receipts" /\ M0012[s].c = "initial_scope"
         /\ M0012[s].from = {"pointer_paths"}
  BY DEF M0012, AddColumn, Fill
<1>2. CASE M0012[s].op = "add"
  BY <1>1, <1>2, Altered, RebuiltTable, SuitsAdd DEF PlanColumns
<1>3. CASE M0012[s].op = "fill"
  BY <1>1, <1>3 DEF Suits, Makes, FilledColumns
<1> QED BY <1>1, <1>2, <1>3

(* A CREATE TABLE that refuses when the table is there. *)
IsCreate(st, t, cols, check) ==
    st.op = "create" /\ st.t = t /\ st.cols = cols /\ st.check = check /\ ~st.lax

(* The tables 0013 makes anew. *)
LEMMA Creates13 ==
    /\ IsCreate(M0013[2], "work_items", {}, OldStatuses)
    /\ IsCreate(M0013[8], "work_plans", PlanColumns, OldStatuses)
    /\ IsCreate(M0013[11], "work_plan_tasks", TaskColumns, OldStatuses)
BY DEF M0013, RebuildItems, RebuildPlans, IsCreate, Create, Index, Rename, Copy, Drop

(* Migration 0013. *)
LEMMA Suits13 == \A s \in DOMAIN M0013 : Suits(13, s, M0013[s])
<1> SUFFICES ASSUME NEW s \in DOMAIN M0013
             PROVE  Suits(13, s, M0013[s])
  OBVIOUS
<1>1. \/ M0013[s].op \in {"index", "copy", "drop"}
      \/ M0013[s].op = "create" /\ s \in {2, 8, 11}
      \/ M0013[s].op = "rename" /\ s \in {1, 6, 7}
  BY DEF M0013, RebuildItems, RebuildPlans, Create, Index, Rename, Copy, Drop
<1>4. ASSUME s \in {2, 8, 11}
      PROVE  M0013[s].t \in Statused /\ M0013[s].cols = RebuiltColumns(M0013[s].t)
  BY <1>4, Creates13, RebuiltTable DEF IsCreate, Statused
<1>2. \A t \in Statused : s = RenamedAt(t) => IsRename(M0013[s], t, Legacy(13, t))
  BY Rebuild13 DEF RebuildStep
<1>3. s \in {1, 6, 7} => \E t \in Statused : s = RenamedAt(t)
  BY PositionTable DEF Statused
<1> QED BY <1>1, <1>2, <1>3, <1>4, SuitsRebuild

(* The tables 0014 makes anew. *)
LEMMA Creates14 ==
    /\ IsCreate(M0014[2], "work_items", {}, NewStatuses)
    /\ IsCreate(M0014[8], "work_plans", PlanColumns, NewStatuses)
    /\ IsCreate(M0014[11], "work_plan_tasks", TaskColumns, NewStatuses)
BY DEF M0014, RebuildItems, RebuildPlans, IsCreate, Create, Index, Rename, Copy, Drop

(* Migration 0014. *)
LEMMA Suits14 == \A s \in DOMAIN M0014 : Suits(14, s, M0014[s])
<1> SUFFICES ASSUME NEW s \in DOMAIN M0014
             PROVE  Suits(14, s, M0014[s])
  OBVIOUS
<1>1. \/ M0014[s].op \in {"index", "copy", "drop"}
      \/ M0014[s].op = "create" /\ s \in {2, 8, 11}
      \/ M0014[s].op = "rename" /\ s \in {1, 6, 7}
  BY DEF M0014, RebuildItems, RebuildPlans, Create, Index, Rename, Copy, Drop
<1>4. ASSUME s \in {2, 8, 11}
      PROVE  M0014[s].t \in Statused /\ M0014[s].cols = RebuiltColumns(M0014[s].t)
  BY <1>4, Creates14, RebuiltTable DEF IsCreate, Statused
<1>2. \A t \in Statused : s = RenamedAt(t) => IsRename(M0014[s], t, Legacy(14, t))
  BY Rebuild14 DEF RebuildStep
<1>3. s \in {1, 6, 7} => \E t \in Statused : s = RenamedAt(t)
  BY PositionTable DEF Statused
<1> QED BY <1>1, <1>2, <1>3, <1>4, SuitsRebuild

(* Migration 0015. *)
LEMMA Suits15 == \A s \in DOMAIN M0015 : Suits(15, s, M0015[s])
<1> SUFFICES ASSUME NEW s \in DOMAIN M0015
             PROVE  Suits(15, s, M0015[s])
  OBVIOUS
<1>1. \/ M0015[s].op = "drop"
      \/ M0015[s].op = "dropcol" /\ M0015[s].t = "receipts" /\ M0015[s].c = "memory_ids"
  BY DEF M0015, DropColumn, DropPresent, Drop
<1>2. CASE M0015[s].op = "dropcol"
  BY <1>1, <1>2 DEF Suits, Makes
<1> QED BY <1>1, <1>2, SuitsOther

(* Migration 0016. *)
LEMMA Suits16 == \A s \in DOMAIN M0016 : Suits(16, s, M0016[s])
<1> SUFFICES ASSUME NEW s \in DOMAIN M0016
             PROVE  Suits(16, s, M0016[s])
  OBVIOUS
<1>1. M0016[s].op = "add"
  BY DEF M0016, ActorColumns, AddColumn
<1>2. M0016[s].t \in {"receipts", "runs", "verification_batches", "review_attempts"}
  BY DEF M0016, ActorColumns, AddColumn
<1>3. M0016[s].c # "memory_ids"
  BY DEF M0016, ActorColumns, AddColumn
<1> QED BY <1>1, <1>2, <1>3, Altered, SuitsAdd

(* Migration 0017. *)
LEMMA Suits17 == \A s \in DOMAIN M0017 : Suits(17, s, M0017[s])
<1> SUFFICES ASSUME NEW s \in DOMAIN M0017
             PROVE  Suits(17, s, M0017[s])
  OBVIOUS
<1>1. M0017[s].op = "add" /\ M0017[s].t = "runs" /\ M0017[s].c # "memory_ids"
  BY DEF M0017, AddColumn
<1> QED BY <1>1, Altered, SuitsAdd

(* The migrations by their number. *)
LEMMA Numbered ==
    /\ Script[1] = M0001 /\ Script[2] = M0002 /\ Script[3] = M0003 /\ Script[4] = M0004
    /\ Script[5] = M0005 /\ Script[6] = M0006 /\ Script[7] = M0007 /\ Script[8] = M0008
    /\ Script[9] = M0009 /\ Script[10] = M0010 /\ Script[11] = M0011 /\ Script[12] = M0012
    /\ Script[13] = M0013 /\ Script[14] = M0014 /\ Script[15] = M0015 /\ Script[16] = M0016
    /\ Script[17] = M0017
    /\ DOMAIN Script = 1..17
BY DEF Script

(* Every statement of the script is such a statement. *)
LEMMA ScriptSuits ==
    ASSUME NEW m \in 1..LastMigration, NEW s \in DOMAIN Script[m]
    PROVE  Suits(m, s, Script[m][s])
<1> m \in 1..17 BY Seventeen
<1>1. CASE m \in 1..6
  BY <1>1, Numbered, Suits01, Suits02, Suits03, Suits04, Suits05, Suits06
<1>2. CASE m \in 7..12
  BY <1>2, Numbered, Suits07, Suits08, Suits09, Suits10, Suits11, Suits12
<1>3. CASE m \in 13..17
  BY <1>3, Numbered, Suits13, Suits14, Suits15, Suits16, Suits17
<1> QED BY <1>1, <1>2, <1>3

(* The statement a leftover is gone after takes it away. *)
LEMMA GoneAtTakes ==
    ASSUME NEW x \in Fleeting
    PROVE  /\ GoneAt(x).m \in 1..LastMigration
           /\ GoneAt(x).s \in DOMAIN Script[GoneAt(x).m]
           /\ Takes(Script[GoneAt(x).m][GoneAt(x).s], x)
<1>1. /\ 4 \in DOMAIN M0008 /\ 9 \in DOMAIN M0008
      /\ Takes(M0008[4], "pointer_links_new") /\ Takes(M0008[9], "memory_candidates_new")
  BY DEF M0008, Takes, Rename, CreateAbsent, Create, CopyValid, Copy, Index, Drop
<1>2. /\ 1 \in DOMAIN M0015 /\ 2 \in DOMAIN M0015
      /\ Takes(M0015[1], "memory_candidates") /\ Takes(M0015[2], "memories")
  BY DEF M0015, Takes, DropPresent, Drop, DropColumn
<1>3. ASSUME NEW t \in Statused
      PROVE  /\ DroppedAt(t) \in DOMAIN M0013 /\ Takes(M0013[DroppedAt(t)], Legacy(13, t))
             /\ DroppedAt(t) \in DOMAIN M0014 /\ Takes(M0014[DroppedAt(t)], Legacy(14, t))
  <2>1. {4, 14, 15} \subseteq DOMAIN M0013 /\ {4, 14, 15} \subseteq DOMAIN M0014
    BY DEF M0013, M0014, RebuildItems, RebuildPlans
  <2>2. DroppedAt(t) \in DOMAIN M0013 /\ DroppedAt(t) \in DOMAIN M0014
    BY <2>1, PositionTable DEF Statused
  <2> QED BY <2>2, Rebuild13, Rebuild14 DEF RebuildStep, Takes
<1>4. CASE x \in {"pointer_links_new", "memory_candidates_new"}
  BY <1>1, <1>4, GoneTable, Numbered, Seventeen
<1>5. CASE x \in Doomed
  BY <1>2, <1>5, GoneTable, Numbered, Seventeen DEF Doomed
<1>6. ASSUME NEW t \in Statused, NEW m \in {13, 14}, x = Legacy(m, t)
      PROVE  GoneAt(x).m = m /\ GoneAt(x).s = DroppedAt(t)
  BY <1>6, GoneTable, LegacyTable, PositionTable DEF Statused
<1>7. CASE x \in Legacies
  <2>1. PICK t \in Statused, m \in {13, 14} : x = Legacy(m, t)
    BY <1>7, LegacyTable DEF Legacies, Statused
  <2> QED BY <1>3, <1>6, <2>1, Numbered, Seventeen
<1> QED BY <1>4, <1>5, <1>7 DEF Fleeting

(* The statements after which pointer_links and the tables with a status stay. *)
LEMMA RebuiltAtMakes ==
    /\ 4 \in DOMAIN Script[8] /\ IsRename(Script[8][4], "pointer_links_new", "pointer_links")
    /\ \A t \in Statused :
          /\ RebuiltAt(t) \in DOMAIN Script[14]
          /\ IsCreate(Script[14][RebuiltAt(t)], t, RebuiltColumns(t), NewStatuses)
<1>1. 4 \in DOMAIN M0008 /\ IsRename(M0008[4], "pointer_links_new", "pointer_links")
  BY DEF M0008, IsRename, Rename, CreateAbsent, Create, CopyValid, Copy, Index, Drop
<1>2. {2, 8, 11} \subseteq DOMAIN M0014
  BY DEF M0014, RebuildItems, RebuildPlans
<1>3. ASSUME NEW t \in Statused
      PROVE  /\ RebuiltAt(t) \in DOMAIN M0014
             /\ IsCreate(M0014[RebuiltAt(t)], t, RebuiltColumns(t), NewStatuses)
  BY <1>2, Creates14, RebuiltTable DEF Statused
<1> QED BY <1>1, <1>3, Numbered

(***************************************************************************)
(* What a statement does to tables and columns.                            *)
(***************************************************************************)
(* A table that stays keeps its CHECK and, but for the one column a statement adds, drops or
   fills, its columns; a table that appears is the one created or the one renamed. *)
Reshapes(old, new, st) ==
    /\ \A x \in DOMAIN old \cap DOMAIN new :
          /\ new[x].check = old[x].check
          /\ \A c \in new[x].cols : c \in old[x].cols \/ (st.op = "add" /\ st.t = x /\ st.c = c)
          /\ \A c \in old[x].cols : c \in new[x].cols \/ (st.op = "dropcol" /\ st.t = x /\ st.c = c)
          /\ \A c \in new[x].filled : c \in old[x].filled \/ (st.op = "fill" /\ st.t = x /\ st.c = c)
          /\ old[x].filled \subseteq new[x].filled
    /\ \A x \in DOMAIN new \ DOMAIN old :
          \/ st.op = "create" /\ st.t = x /\ new[x] = NewTable(st)
          \/ st.op = "rename" /\ st.to = x /\ st.t \in DOMAIN old /\ new[x] = old[st.t]
    /\ st.op \in {"create", "index", "add", "dropcol", "fill", "copy"} => st.t \in DOMAIN new
    /\ st.op = "create" /\ ~st.lax => st.t \notin DOMAIN old
    /\ st.op = "add" => st.c \in new[st.t].cols
    /\ st.op = "dropcol" => st.c \notin new[st.t].cols
    /\ st.op = "fill" /\ st.from \subseteq old[st.t].filled => st.c \in new[st.t].filled

(* SQLite's effect of every kind of statement, when it is possible. *)
LEMMA EffectReshapes ==
    ASSUME NEW tabs, NEW idx, NEW st, WellFormed(st),
           \A x \in DOMAIN tabs : IsTable(tabs[x]),
           Possible([tables |-> tabs, indexes |-> idx], st)
    PROVE  Reshapes(tabs, Effect([tables |-> tabs, indexes |-> idx], st).tables, st)
<1> DEFINE s == [tables |-> tabs, indexes |-> idx]
           new == Effect(s, st).tables
<1> SUFFICES Reshapes(tabs, new, st) OBVIOUS
<1>1. CASE st.op = "create"
  <2>1. CASE Exists(s, st.t)
    <3>1. new = tabs /\ st.t \in DOMAIN tabs /\ st.lax
      BY <1>1, <2>1 DEF Effect, Exists, Possible
    <3> HIDE DEF new
    <3> QED BY <1>1, <3>1 DEF Reshapes
  <2>2. CASE ~Exists(s, st.t)
    <3>1. new = [x \in DOMAIN tabs \cup {st.t} |-> IF x = st.t THEN NewTable(st) ELSE tabs[x]]
      BY <1>1, <2>2 DEF Effect, Put
    <3>2. st.t \notin DOMAIN tabs
      BY <2>2 DEF Exists
    <3> HIDE DEF new
    <3> QED BY <1>1, <3>1, <3>2 DEF Reshapes
  <2> QED BY <2>1, <2>2
<1>2. CASE st.op = "drop"
  <2>1. new = [x \in DOMAIN tabs \ {st.t} |-> tabs[x]]
    BY <1>2 DEF Effect, Without
  <2> HIDE DEF new
  <2> QED BY <1>2, <2>1 DEF Reshapes
<1>3. CASE st.op = "index"
  <2>1. new = tabs /\ st.t \in DOMAIN tabs
    BY <1>3 DEF Effect, Possible, Exists
  <2> HIDE DEF new
  <2> QED BY <1>3, <2>1 DEF Reshapes
<1>4. CASE st.op \in {"add", "dropcol", "fill"}
  <2> DEFINE r == tabs[st.t]
             cols == IF st.op = "add" THEN r.cols \cup {st.c}
                     ELSE IF st.op = "dropcol" THEN r.cols \ {st.c} ELSE r.cols
             filled == IF st.op = "fill" /\ st.from \subseteq r.filled
                       THEN r.filled \cup {st.c} ELSE r.filled
             altered == [cols |-> cols, filled |-> filled, check |-> r.check, rows |-> r.rows]
  <2>1. st.t \in DOMAIN tabs BY <1>4 DEF Possible, Exists
  <2>2. r = [cols |-> r.cols, filled |-> r.filled, check |-> r.check, rows |-> r.rows]
    BY <2>1 DEF IsTable
  <2>3. new = [tabs EXCEPT ![st.t] = altered] \/ (new = tabs /\ altered = r)
    <3>1. CASE st.op = "add"
      <4>1. new = [tabs EXCEPT ![st.t] = [r EXCEPT !.cols = @ \cup {st.c}]]
        BY <3>1 DEF Effect
      <4>2. cols = r.cols \cup {st.c} /\ filled = r.filled
        BY <3>1
      <4>3. [r EXCEPT !.cols = @ \cup {st.c}] = altered
        <5> HIDE DEF cols, filled, r
        <5> QED BY <2>2, <4>2
      <4> HIDE DEF new, altered, r
      <4> QED BY <4>1, <4>3
    <3>2. CASE st.op = "dropcol"
      <4>1. new = [tabs EXCEPT ![st.t] = [r EXCEPT !.cols = @ \ {st.c}]]
        BY <3>2 DEF Effect
      <4>2. cols = r.cols \ {st.c} /\ filled = r.filled
        BY <3>2
      <4>3. [r EXCEPT !.cols = @ \ {st.c}] = altered
        <5> HIDE DEF cols, filled, r
        <5> QED BY <2>2, <4>2
      <4> HIDE DEF new, altered, r
      <4> QED BY <4>1, <4>3
    <3>3. CASE st.op = "fill" /\ st.from \subseteq r.filled
      <4>1. new = [tabs EXCEPT ![st.t] = [r EXCEPT !.filled = @ \cup {st.c}]]
        BY <3>3 DEF Effect
      <4>2. cols = r.cols /\ filled = r.filled \cup {st.c}
        BY <3>3
      <4>3. [r EXCEPT !.filled = @ \cup {st.c}] = altered
        <5> HIDE DEF cols, filled, r
        <5> QED BY <2>2, <4>2
      <4> HIDE DEF new, altered, r
      <4> QED BY <4>1, <4>3
    <3>4. CASE st.op = "fill" /\ ~(st.from \subseteq r.filled)
      <4>1. new = tabs
        BY <3>4 DEF Effect
      <4>2. cols = r.cols /\ filled = r.filled
        BY <3>4
      <4>3. r = altered
        <5> HIDE DEF cols, filled, r
        <5> QED BY <2>2, <4>2
      <4> HIDE DEF new, altered, r
      <4> QED BY <4>1, <4>3
    <3> QED BY <1>4, <3>1, <3>2, <3>3, <3>4
  <2>4. altered.cols = cols /\ altered.filled = filled /\ altered.check = r.check
    <3> HIDE DEF cols, filled
    <3> QED OBVIOUS
  <2> HIDE DEF new, altered
  <2>5. /\ DOMAIN new = DOMAIN tabs
        /\ new[st.t] = altered
        /\ \A x \in DOMAIN tabs : x # st.t => new[x] = tabs[x]
    BY <2>1, <2>3
  <2> QED BY <1>4, <2>1, <2>4, <2>5 DEF Reshapes
<1>5. CASE st.op = "rename"
  <2>1. st.t \in DOMAIN tabs /\ st.to \notin DOMAIN tabs
    BY <1>5 DEF Possible, Exists
  <2>2. new = [x \in (DOMAIN tabs \ {st.t}) \cup {st.to} |->
                  IF x = st.to THEN tabs[st.t] ELSE tabs[x]]
    <3> DEFINE w == Without(s, st.t)
               e == Put(w, st.to, tabs[st.t])
    <3>1. w = [tables |-> [x \in DOMAIN tabs \ {st.t} |-> tabs[x]], indexes |-> idx]
      BY DEF Without
    <3>2. PICK j : new = [Put(w, st.to, tabs[st.t]) EXCEPT !.indexes = j].tables
      BY <1>5 DEF Effect
    <3> HIDE DEF new, w
    <3>3. e = [tables |-> [x \in (DOMAIN tabs \ {st.t}) \cup {st.to} |->
                             IF x = st.to THEN tabs[st.t] ELSE tabs[x]], indexes |-> idx]
      BY <3>1 DEF Put
    <3> HIDE DEF e
    <3>4. new = [e EXCEPT !.indexes = j].tables
      BY <3>2 DEF e
    <3> QED BY <3>3, <3>4
  <2> HIDE DEF new
  <2> QED BY <1>5, <2>1, <2>2 DEF Reshapes
<1>6. CASE st.op = "copy"
  <2> DEFINE r == tabs[st.to]
             rows == Joined(r.rows, Selected(tabs[st.t].rows, st.how))
             copied == [cols |-> r.cols, filled |-> r.filled, check |-> r.check, rows |-> rows]
  <2>1. st.t \in DOMAIN tabs /\ st.to \in DOMAIN tabs
    BY <1>6 DEF Possible, Exists
  <2>2. r = [cols |-> r.cols, filled |-> r.filled, check |-> r.check, rows |-> r.rows]
    BY <2>1 DEF IsTable
  <2>3. new = [tabs EXCEPT ![st.to] = copied]
    <3>1. new = [tabs EXCEPT ![st.to] = [r EXCEPT !.rows = rows]]
      BY <1>6 DEF Effect
    <3>2. [r EXCEPT !.rows = rows] = copied
      <4> HIDE DEF rows
      <4> QED BY <2>2
    <3> HIDE DEF new, copied, rows, r
    <3> QED BY <3>1, <3>2
  <2>4. copied.cols = r.cols /\ copied.filled = r.filled /\ copied.check = r.check
    <3> HIDE DEF rows
    <3> QED OBVIOUS
  <2> HIDE DEF new, copied
  <2>5. /\ DOMAIN new = DOMAIN tabs
        /\ new[st.to] = copied
        /\ \A x \in DOMAIN tabs : x # st.to => new[x] = tabs[x]
    BY <2>1, <2>3
  <2> QED BY <1>6, <2>1, <2>4, <2>5 DEF Reshapes
<1> QED BY <1>1, <1>2, <1>3, <1>4, <1>5, <1>6 DEF WellFormed, Ops

(***************************************************************************)
(* Settling and a step that issues a statement.                            *)
(***************************************************************************)
(* Process p issues statement s of migration m. *)
Issues(p, m, s) ==
    /\ p \in Procs /\ calls[p].pc = "exec" /\ calls[p].m = m /\ calls[p].s = s
    /\ m \in 1..LastMigration /\ s \in DOMAIN Script[m] /\ s \in Nat
    /\ Fits(m, s, Script[m][s]) /\ Suits(m, s, Script[m][s])
    /\ Does(tables, tables', Script[m][s])
    /\ Reshapes(tables, tables', Script[m][s])
    /\ \A q \in Procs : q # p => calls'[q] = calls[q]
    /\ calls'[p].m = m
    /\ \/ calls'[p].pc = "exec" /\ calls'[p].s = s + 1
       \/ calls'[p].pc = "record" /\ s = Len(Script[m])
    /\ ledger' = ledger /\ overlap' = overlap

(* Without overlap, what is done comes before where the open call is. *)
LEMMA Ordered ==
    ASSUME LedgerFirst, OneOpen, NEW p, NEW m, NEW s, Issues(p, m, s),
           NEW k \in 1..LastMigration, NEW j, Done(k, j)
    PROVE  k < m \/ (k = m /\ j < s)
<1>1. m \in 1..17 /\ k \in 1..17 /\ m \notin ledger /\ Open(p)
  BY Seventeen DEF Issues, OneOpen, Open
<1>2. CASE k \in ledger
  <2>1. m \notin 1..k
    BY <1>1, <1>2 DEF LedgerFirst
  <2> QED BY <1>1, <2>1
<1>3. CASE k \notin ledger
  <2>1. PICK q \in Procs :
           calls[q].m = k /\ (calls[q].pc = "record" \/ (calls[q].pc = "exec" /\ calls[q].s > j))
    BY <1>3 DEF Done
  <2>2. q = p
    BY <1>1, <2>1 DEF OneOpen, Open, Issues
  <2> QED BY <2>1, <2>2 DEF Issues
<1> QED BY <1>2, <1>3

(* A statement is done once it was issued, and nothing else is. *)
LEMMA DoneIssued ==
    ASSUME NEW p, NEW m, NEW s, Issues(p, m, s),
           NEW k \in 1..LastMigration, NEW j \in DOMAIN Script[k], Done(k, j)'
    PROVE  Done(k, j) \/ (k = m /\ j = s)
<1>1. IsScript(Script[k])
  BY ScriptShapes
<1>2. j \in Nat /\ j <= Len(Script[k]) /\ s \in Nat
  BY <1>1 DEF IsScript, Issues
<1>3. CASE k \in ledger'
  BY <1>3 DEF Done, Issues
<1>4. CASE k \notin ledger'
  <2>1. PICK q \in Procs :
           /\ calls'[q].m = k
           /\ calls'[q].pc = "record" \/ (calls'[q].pc = "exec" /\ calls'[q].s > j)
    BY <1>4 DEF Done
  <2>2. CASE q = p
    <3>1. k = m /\ j <= s
      BY <1>2, <2>1, <2>2 DEF Issues
    <3>2. j < s => Done(k, j)
      BY <1>2, <3>1 DEF Done, Issues
    <3> QED BY <1>2, <3>1, <3>2
  <2>3. CASE q # p
    <3>1. calls'[q] = calls[q]
      BY <2>1, <2>3 DEF Issues
    <3> QED BY <2>1, <3>1 DEF Done
  <2> QED BY <2>2, <2>3
<1> QED BY <1>3, <1>4

(* The columns of a CREATE TABLE and of an ADD COLUMN are columns the script gives. *)
LEMMA Given ==
    ASSUME NEW m \in 1..LastMigration, NEW s \in DOMAIN Script[m]
    PROVE  /\ Script[m][s] \in Issued(Script[m][s].op, Script[m][s].t)
           /\ Script[m][s].op = "create" => Script[m][s].cols \subseteq GivenColumns(Script[m][s].t)
           /\ Script[m][s].op = "add" => Script[m][s].c \in GivenColumns(Script[m][s].t)
<1>1. m \in DOMAIN Script
  BY Numbered, Seventeen
<1>2. PICK d : d = Script[m][s]
  OBVIOUS
<1>3. d \in UNION {Range(Script[k]) : k \in DOMAIN Script}
  BY <1>1, <1>2 DEF Range
<1>4. d \in Issued(d.op, d.t)
  BY <1>3 DEF Issued
<1>5. d.op = "create" => d.cols \subseteq GivenColumns(d.t)
  BY <1>4 DEF GivenColumns
<1>6. ASSUME d.op = "add" PROVE d.c \in GivenColumns(d.t)
  <2>1. d \in Issued("add", d.t)
    BY <1>4, <1>6
  <2> DEFINE added == {st.c : st \in Issued("add", d.t)}
             created == UNION {st.cols : st \in Issued("create", d.t)}
  <2>2. d.c \in added
    BY <2>1
  <2>3. GivenColumns(d.t) = created \cup added
    BY DEF GivenColumns
  <2> HIDE DEF added, created
  <2> QED BY <2>2, <2>3
<1> QED BY <1>2, <1>4, <1>5, <1>6

(* A table no migration rebuilds is not taken away. *)
LEMMA OrdinaryNotTaken ==
    ASSUME NEW m, NEW s, NEW st, Fits(m, s, st), NEW t \in Ordinary
    PROVE  ~Takes(st, t)
<1> SUFFICES ASSUME Takes(st, t) PROVE FALSE OBVIOUS
<1>1. t \in Kept BY DEF Kept
<1>2. t \notin {"pointer_links", "pointer_links_new"} \cup Statused \cup Legacies
  BY LegacyNames DEF Ordinary
<1>3. m \in {13, 14} /\ \E u \in Statused : t = Legacy(m, u)
  BY <1>1, <1>2, Taken
<1> QED BY <1>2, <1>3, LegacyNames

(* A statement keeps to the tables and columns the script gives. *)
LEMMA WithinIssued ==
    ASSUME WithinScript, NEW p, NEW m, NEW s, Issues(p, m, s)
    PROVE  WithinScript'
<1> PICK st : st = Script[m][s]
  OBVIOUS
<1>1. /\ m \in 1..LastMigration /\ s \in DOMAIN Script[m]
      /\ Suits(m, s, st) /\ Does(tables, tables', st) /\ Reshapes(tables, tables', st)
  BY DEF Issues
<1>2. st.op = "create" => st.cols \subseteq GivenColumns(st.t)
  BY <1>1, Given
<1>3. st.op = "add" => st.c \in GivenColumns(st.t)
  BY <1>1, Given
<1>4. "pointer_links" \in FinalTables /\ "receipts" \in FinalTables
      /\ FinalTables \cap Fleeting = {} /\ "pointer_links_new" \in Fleeting
  BY DEF FinalTables, Fleeting, Doomed, Legacies
<1>5. DOMAIN tables' \subseteq FinalTables \cup Fleeting
  <2> SUFFICES ASSUME NEW x \in DOMAIN tables', x \notin DOMAIN tables
               PROVE  x \in FinalTables \cup Fleeting
    BY DEF WithinScript
  <2>1. Makes(st, x)
    BY <1>1 DEF Does
  <2> QED BY <1>1, <1>4, <2>1 DEF Makes, Suits
<1>6. ASSUME NEW t \in DOMAIN tables' \cap FinalTables
      PROVE  tables'[t].cols \subseteq GivenColumns(t)
  <2>1. CASE t \in DOMAIN tables
    BY <1>1, <1>3, <1>6, <2>1 DEF WithinScript, Reshapes
  <2>2. CASE t \notin DOMAIN tables
    <3>1. CASE st.op = "create" /\ st.t = t /\ tables'[t] = NewTable(st)
      BY <1>2, <3>1 DEF NewTable
    <3>2. CASE st.op = "rename" /\ st.to = t /\ st.t \in DOMAIN tables /\ tables'[t] = tables[st.t]
      <4>1. st.t = "pointer_links_new"
        BY <1>1, <1>4, <1>6, <3>2 DEF Suits
      <4> QED BY <3>2, <4>1 DEF WithinScript
    <3> QED BY <1>1, <1>6, <2>2, <3>1, <3>2 DEF Reshapes
  <2> QED BY <2>1, <2>2
<1>7. "pointer_links_new" \in DOMAIN tables' => tables'["pointer_links_new"].cols = {}
  <2> SUFFICES ASSUME "pointer_links_new" \in DOMAIN tables'
               PROVE  tables'["pointer_links_new"].cols = {}
    OBVIOUS
  <2>1. CASE "pointer_links_new" \in DOMAIN tables
    <3>1. ~(st.op = "add" /\ st.t = "pointer_links_new")
      BY <1>1, LegacyNames DEF Suits
    <3> QED BY <1>1, <2>1, <3>1 DEF WithinScript, Reshapes
  <2>2. CASE "pointer_links_new" \notin DOMAIN tables
    <3>1. ~(st.op = "rename" /\ st.to = "pointer_links_new")
      BY <1>1, <1>4 DEF Suits
    <3>2. st.op = "create" /\ st.t = "pointer_links_new" /\ tables'["pointer_links_new"] = NewTable(st)
      BY <1>1, <2>2, <3>1 DEF Reshapes
    <3> QED BY <1>1, <3>2 DEF Suits, NewTable
  <2> QED BY <2>1, <2>2
<1>8. "receipts" \in DOMAIN tables' => tables'["receipts"].filled \subseteq FilledColumns
  <2> SUFFICES ASSUME "receipts" \in DOMAIN tables'
               PROVE  tables'["receipts"].filled \subseteq FilledColumns
    OBVIOUS
  <2>1. CASE "receipts" \in DOMAIN tables
    BY <1>1, <2>1 DEF WithinScript, Reshapes, Suits
  <2>2. CASE "receipts" \notin DOMAIN tables
    <3>1. ~(st.op = "rename" /\ st.to = "receipts")
      BY <1>1, <1>4 DEF Suits
    <3>2. tables'["receipts"] = NewTable(st)
      BY <1>1, <2>2, <3>1 DEF Reshapes
    <3> QED BY <3>2 DEF NewTable
  <2> QED BY <2>1, <2>2
<1> QED BY <1>5, <1>6, <1>7, <1>8 DEF WithinScript

(* What a statement did to a table no migration rebuilds stands, and so does what it does now;
   0012 fills a column from one that 0011 has filled. *)
LEMMA OrdinaryIssued ==
    ASSUME LedgerFirst, OrdinaryStands, NEW p, NEW m, NEW s, Issues(p, m, s)
    PROVE  OrdinaryStands'
<1> PICK st : st = Script[m][s]
  OBVIOUS
<1>1. /\ m \in 1..LastMigration /\ s \in DOMAIN Script[m] /\ Fits(m, s, st)
      /\ Suits(m, s, st) /\ Does(tables, tables', st) /\ Reshapes(tables, tables', st)
  BY DEF Issues
<1> SUFFICES ASSUME NEW k \in 1..LastMigration, NEW j \in DOMAIN Script[k], Done(k, j)',
                    Script[k][j].t \in Ordinary
             PROVE  Stands(tables', Script[k][j])
  BY DEF OrdinaryStands
<1>2. CASE Done(k, j)
  <2> PICK old : old = Script[k][j]
    OBVIOUS
  <2>1. Stands(tables, old) /\ Suits(k, j, old) /\ old.t \in Ordinary
    BY <1>2, ScriptSuits DEF OrdinaryStands
  <2>2. old.t \in DOMAIN tables /\ old.t \in DOMAIN tables'
    BY <1>1, <2>1, OrdinaryNotTaken DEF Stands, Does, Grows
  <2>3. old.op = "add" => old.c \in tables'[old.t].cols
    BY <1>1, <2>1, <2>2 DEF Stands, Suits, Reshapes
  <2>4. old.op = "dropcol" => old.c \notin tables'[old.t].cols
    BY <1>1, <2>1, <2>2 DEF Stands, Suits, Reshapes
  <2>5. old.op = "fill" => old.c \in tables'[old.t].filled
    BY <1>1, <2>1, <2>2 DEF Stands, Reshapes
  <2> QED BY <2>2, <2>3, <2>4, <2>5 DEF Stands
<1>3. CASE k = m /\ j = s
  <2>1. st.t \in Ordinary /\ ~Takes(st, st.t)
    BY <1>1, <1>3, OrdinaryNotTaken
  <2>2. st.op \in {"create", "index", "add", "dropcol", "fill", "copy"}
    BY <1>1, <2>1 DEF Fits, WellFormed, Ops, Takes
  <2>3. st.op = "fill" => st.from \subseteq tables[st.t].filled
    <3> SUFFICES ASSUME st.op = "fill", m = 12, st.t = "receipts", st.from = {"pointer_paths"}
                 PROVE  "pointer_paths" \in tables["receipts"].filled
      BY <1>1 DEF Suits
    <3>1. /\ 2 \in DOMAIN Script[11] /\ Script[11][2].t = "receipts"
          /\ Script[11][2].op = "fill" /\ Script[11][2].c = "pointer_paths"
      BY Numbered DEF M0011, AddColumn, Fill
    <3>2. Done(11, 2)
      <4>1. 11 \in 1 .. calls[p].m - 1 /\ Open(p) /\ p \in Procs
        BY DEF Issues, Open
      <4> QED BY <4>1 DEF LedgerFirst, Done
    <3>3. Stands(tables, Script[11][2])
      BY <2>1, <3>1, <3>2, Seventeen DEF OrdinaryStands
    <3> QED BY <3>1, <3>3 DEF Stands
  <2> QED BY <1>1, <1>3, <2>2, <2>3 DEF Stands, Reshapes
<1> QED BY <1>2, <1>3, DoneIssued

(* Without overlap no statement makes a leftover again. *)
LEMMA LeftoversIssued ==
    ASSUME LedgerFirst, OneOpen, LeftoversGone, NEW p, NEW m, NEW s, Issues(p, m, s)
    PROVE  LeftoversGone'
<1> SUFFICES ASSUME NEW x \in Fleeting, Done(GoneAt(x).m, GoneAt(x).s)'
             PROVE  x \notin DOMAIN tables'
  BY DEF LeftoversGone
<1> PICK k, j : k = GoneAt(x).m /\ j = GoneAt(x).s
  OBVIOUS
<1>1. k \in 1..LastMigration /\ j \in DOMAIN Script[k] /\ Takes(Script[k][j], x) /\ Done(k, j)'
  BY GoneAtTakes
<1>2. /\ Does(tables, tables', Script[m][s]) /\ Suits(m, s, Script[m][s])
      /\ m \in 1..LastMigration /\ s \in Nat
  BY DEF Issues
<1>3. CASE Done(k, j)
  <2>1. x \notin DOMAIN tables
    BY <1>3 DEF LeftoversGone
  <2>2. k < m \/ (k = m /\ j < s)
    BY <1>1, <1>3, Ordered
  <2>3. k \in Nat /\ m \in Nat /\ j \in Nat
    <3>1. k \in 1..17 /\ m \in 1..17 BY <1>1, <1>2, Seventeen
    <3>2. IsScript(Script[k]) BY <1>1, ScriptShapes
    <3>3. j \in Nat BY <1>1, <3>2 DEF IsScript
    <3> QED BY <3>1, <3>3
  <2>4. ~Earlier(m, s, x)
    BY <1>2, <2>2, <2>3 DEF Earlier
  <2>5. ~Makes(Script[m][s], x)
    BY <1>2, <2>4 DEF Suits
  <2> QED BY <1>2, <2>1, <2>5 DEF Does
<1>4. CASE k = m /\ j = s
  BY <1>1, <1>2, <1>4 DEF Does
<1> QED BY <1>1, <1>3, <1>4, DoneIssued

(* Without overlap nothing takes away a table that the last rebuild of it made. *)
LEMMA RebuiltIssued ==
    ASSUME LedgerFirst, OneOpen, RebuiltStand, NEW p, NEW m, NEW s, Issues(p, m, s)
    PROVE  RebuiltStand'
<1> PICK st : st = Script[m][s]
  OBVIOUS
<1>1. /\ Fits(m, s, st) /\ Suits(m, s, st) /\ Does(tables, tables', st)
      /\ Reshapes(tables, tables', st) /\ m \in 1..17 /\ s \in Nat
  BY Seventeen DEF Issues
<1>2. "pointer_links" \in Kept /\ \A t \in Statused : t \in Kept /\ t # "pointer_links"
  BY DEF Kept, Statused
<1>3. ASSUME Done(8, 4)'
      PROVE  "pointer_links" \in DOMAIN tables'
  <2>1. CASE Done(8, 4)
    <3>1. 8 < m \/ (8 = m /\ 4 < s)
      BY <2>1, Ordered, Seventeen
    <3>2. ~Takes(st, "pointer_links")
      BY <1>1, <1>2, <3>1, Taken, LegacyNames
    <3> QED BY <1>1, <2>1, <3>2 DEF RebuiltStand, Does, Grows
  <2>2. CASE m = 8 /\ s = 4
    BY <1>1, <2>2, RebuiltAtMakes DEF IsRename, Does
  <2> QED BY <1>3, <2>1, <2>2, DoneIssued, RebuiltAtMakes, Seventeen
<1>4. ASSUME NEW t \in Statused, Done(14, RebuiltAt(t))'
      PROVE  Rebuilt(tables', t)
  <2>1. CASE Done(14, RebuiltAt(t))
    <3>1. 14 < m \/ (14 = m /\ RebuiltAt(t) < s)
      BY <2>1, Ordered, Seventeen
    <3>2. ~Takes(st, t)
      <4> SUFFICES ASSUME Takes(st, t) PROVE FALSE OBVIOUS
      <4>1. m \in {13, 14} /\ \E u \in Statused : \/ s = RenamedAt(u) /\ t = u
                                                  \/ s = DroppedAt(u) /\ t = Legacy(m, u)
        BY <1>1, <1>2, Taken, LegacyNames
      <4>2. m \in {13, 14} /\ s = RenamedAt(t)
        BY <4>1, LegacyNames
      <4>3. RenamedAt(t) < RebuiltAt(t) /\ RebuiltAt(t) \in Nat
        BY PositionTable, RebuiltTable DEF Statused
      <4> QED BY <1>1, <3>1, <4>2, <4>3
    <3>3. Rebuilt(tables, t)
      BY <2>1 DEF RebuiltStand
    <3>4. t \in DOMAIN tables /\ t \in DOMAIN tables'
      BY <1>1, <3>2, <3>3 DEF Rebuilt, Does, Grows
    <3>5. ~(st.op = "dropcol" /\ st.t = t)
      BY <1>1 DEF Suits, Statused
    <3> QED BY <1>1, <3>3, <3>4, <3>5 DEF Rebuilt, Reshapes
  <2>2. CASE m = 14 /\ s = RebuiltAt(t)
    <3>1. IsCreate(st, t, RebuiltColumns(t), NewStatuses)
      BY <2>2, RebuiltAtMakes
    <3>2. t \in DOMAIN tables' /\ tables'[t] = NewTable(st)
      BY <1>1, <3>1 DEF IsCreate, Reshapes
    <3> QED BY <3>1, <3>2 DEF IsCreate, Rebuilt, NewTable
  <2> QED BY <1>4, <2>1, <2>2, DoneIssued, RebuiltAtMakes, Seventeen
<1> QED BY <1>3, <1>4 DEF RebuiltStand

(* So a statement keeps Settling. *)
LEMMA SettlingIssued ==
    ASSUME Settling, NEW p, NEW m, NEW s, Issues(p, m, s)
    PROVE  Settling'
<1>1. LedgerFirst /\ WithinScript /\ OrdinaryStands
  BY DEF Settling
<1>2. LedgerFirst'
  <2>1. ASSUME NEW q \in Procs
        PROVE  /\ Open(q)' => Open(q) /\ calls'[q].m = calls[q].m
               /\ calls'[q].pc = "ready" => calls[q].pc = "ready"
    <3>1. CASE q = p BY <3>1 DEF Issues, Open
    <3>2. CASE q # p
      <4>1. calls'[q] = calls[q] BY <3>2 DEF Issues
      <4> QED BY <4>1 DEF Open
    <3> QED BY <3>1, <3>2
  <2> QED BY <1>1, <2>1 DEF LedgerFirst, Issues
<1>3. ASSUME ~overlap'
      PROVE  (OneOpen /\ LeftoversGone /\ RebuiltStand)'
  <2>1. OneOpen /\ LeftoversGone /\ RebuiltStand
    BY <1>3 DEF Settling, Issues
  <2>2. \A q \in Procs :
           /\ Open(q)' => Open(q)
           /\ calls'[q].pc \in {"exec", "record"} => calls[q].pc \in {"exec", "record"}
           /\ calls'[q].m = calls[q].m
    BY DEF Issues, Open
  <2>3. OneOpen'
    BY <2>1, <2>2 DEF OneOpen, Issues
  <2> QED BY <1>1, <2>1, <2>3, LeftoversIssued, RebuiltIssued
<1> QED BY <1>1, <1>2, <1>3, WithinIssued, OrdinaryIssued DEF Settling

(***************************************************************************)
(* Settling and the other steps.                                           *)
(***************************************************************************)
(* No table and no column changes, and nothing becomes done. *)
Still ==
    /\ DOMAIN tables' = DOMAIN tables
    /\ \A x \in DOMAIN tables : /\ tables'[x].cols = tables[x].cols
                               /\ tables'[x].filled = tables[x].filled
                               /\ tables'[x].check = tables[x].check
    /\ \A m \in 1..LastMigration : \A s \in DOMAIN Script[m] : Done(m, s)' => Done(m, s)
    /\ LedgerFirst'
    /\ ~overlap' => ~overlap /\ OneOpen'

(* Such a step keeps Settling. *)
LEMMA StillKeeps ==
    ASSUME Settling, Still
    PROVE  Settling'
<1>1. WithinScript'
  BY DEF Settling, Still, WithinScript
<1>2. OrdinaryStands'
  <2> SUFFICES ASSUME NEW m \in 1..LastMigration, NEW s \in DOMAIN Script[m], Done(m, s)',
                      Script[m][s].t \in Ordinary
               PROVE  Stands(tables', Script[m][s])
    BY DEF OrdinaryStands
  <2>1. Stands(tables, Script[m][s])
    BY DEF Settling, Still, OrdinaryStands
  <2> QED BY <2>1 DEF Still, Stands
<1>3. ASSUME ~overlap' PROVE (LeftoversGone /\ RebuiltStand)'
  <2>1. LeftoversGone /\ RebuiltStand
    BY <1>3 DEF Settling, Still
  <2>2. \A x \in Fleeting : Done(GoneAt(x).m, GoneAt(x).s)' => Done(GoneAt(x).m, GoneAt(x).s)
    BY GoneAtTakes DEF Still
  <2>3. LeftoversGone'
    BY <2>1, <2>2 DEF LeftoversGone, Still
  <2>4. /\ Done(8, 4)' => Done(8, 4)
        /\ \A t \in Statused : Done(14, RebuiltAt(t))' => Done(14, RebuiltAt(t))
    BY RebuiltAtMakes, Seventeen DEF Still
  <2>5. \A t \in Statused : Rebuilt(tables, t) => Rebuilt(tables', t)
    BY DEF Rebuilt, Still
  <2>6. RebuiltStand'
    BY <2>1, <2>4, <2>5 DEF RebuiltStand, Still
  <2> QED BY <2>3, <2>6
<1> QED BY <1>1, <1>2, <1>3 DEF Settling, Still

(* A step that moves one call and touches no table is such a step: a call begins a migration the
   ledger does not name, or records the one it is in. *)
LEMMA CallIsStill ==
    ASSUME Typed, Settling, NEW p \in Procs, NEW c, tables' = tables,
           calls' = [calls EXCEPT ![p] = c],
           ledger' = ledger \/ (calls[p].pc = "record" /\ ledger' = ledger \cup {calls[p].m}),
           c.pc \in {"check", "exec"} => 1 .. c.m - 1 \subseteq ledger',
           c.pc = "exec" => c.s = 1 /\ c.m \notin ledger',
           c.pc = "ready" => 1..LastMigration \subseteq ledger',
           c.pc # "record",
           overlap => overlap',
           ~overlap' /\ c.pc \in {"check", "exec"} =>
               Open(p) \/ \A q \in Procs \ {p} : ~Open(q)
    PROVE  Still
<1>1. \A q \in Procs : calls'[q] = IF q = p THEN c ELSE calls[q]
  BY DEF Typed
<1>2. LedgerFirst /\ (~overlap => OneOpen) /\ CallOK(calls[p])
  BY DEF Settling, Typed
<1>3. ASSUME NEW m \in 1..LastMigration, NEW s \in DOMAIN Script[m], Done(m, s)'
      PROVE  Done(m, s)
  <2>1. IsScript(Script[m])
    BY ScriptShapes
  <2>2. s \in Nat /\ s >= 1
    BY <2>1 DEF IsScript
  <2>3. CASE m \in ledger'
    BY <2>3 DEF Done
  <2>4. CASE m \notin ledger'
    <3>1. PICK q \in Procs :
             /\ calls'[q].m = m
             /\ calls'[q].pc = "record" \/ (calls'[q].pc = "exec" /\ calls'[q].s > s)
      BY <1>3, <2>4 DEF Done
    <3>2. q # p
      BY <1>1, <2>2, <3>1
    <3> QED BY <1>1, <3>1, <3>2 DEF Done
  <2> QED BY <2>3, <2>4
<1>4. \A q \in Procs : q # p => (Open(q)' <=> Open(q)) /\ calls'[q] = calls[q]
  BY <1>1 DEF Open
<1>5. Open(p)' <=> c.pc \in {"check", "exec"}
  BY <1>1 DEF Open
<1>6. LedgerFirst'
  <2>1. ledger \subseteq ledger'
    OBVIOUS
  <2>2. ledger' \subseteq 1..LastMigration
    BY <1>2 DEF LedgerFirst, CallOK
  <2>3. ASSUME NEW m \in ledger'
        PROVE  1..m \subseteq ledger'
    <3>1. CASE m \in ledger
      BY <1>2, <2>1, <3>1 DEF LedgerFirst
    <3>2. CASE m \notin ledger
      <4>1. m = calls[p].m /\ calls[p].pc = "record"
        BY <2>3, <3>2
      <4>2. 1 .. m - 1 \subseteq ledger
        BY <1>2, <4>1 DEF LedgerFirst, Open
      <4>3. m \in 1..17
        BY <2>2, <2>3, Seventeen
      <4>4. 1..m \subseteq 1..(m - 1) \cup {m}
        BY <4>3
      <4> QED BY <2>1, <2>3, <4>2, <4>4
    <3> QED BY <3>1, <3>2
  <2>4. \A q \in Procs : Open(q)' => 1 .. calls'[q].m - 1 \subseteq ledger'
    <3>1. \A q \in Procs : q # p /\ Open(q) => 1 .. calls[q].m - 1 \subseteq ledger'
      BY <1>2, <2>1 DEF LedgerFirst
    <3>2. Open(p)' => 1 .. calls'[p].m - 1 \subseteq ledger'
      BY <1>1, <1>5
    <3> QED BY <1>4, <3>1, <3>2
  <2>5. \A q \in Procs : calls'[q].pc = "ready" => 1..LastMigration \subseteq ledger'
    BY <1>1, <1>2, <2>1 DEF LedgerFirst
  <2> QED BY <2>2, <2>3, <2>4, <2>5 DEF LedgerFirst
<1>7. ASSUME ~overlap'
      PROVE  OneOpen'
  <2>1. OneOpen
    BY <1>2, <1>7
  <2>2. ASSUME NEW q \in Procs, NEW r \in Procs, Open(q)', Open(r)'
        PROVE  q = r
    <3>1. Open(p)' => \A u \in Procs : u # p => ~Open(u)
      BY <1>5, <1>7, <2>1 DEF OneOpen
    <3> QED BY <1>4, <2>1, <2>2, <3>1 DEF OneOpen
  <2>3. ASSUME NEW q \in Procs, calls'[q].pc \in {"exec", "record"}
        PROVE  calls'[q].m \notin ledger'
    <3>1. CASE q = p
      BY <1>1, <2>3, <3>1
    <3>2. CASE q # p
      <4>1. calls[q].m \notin ledger /\ Open(q)
        BY <1>4, <2>1, <2>3, <3>2 DEF OneOpen, Open
      <4>2. calls[p].pc # "record"
        BY <2>1, <3>2, <4>1 DEF OneOpen, Open
      <4> QED BY <1>4, <3>2, <4>1, <4>2
    <3> QED BY <3>1, <3>2
  <2> QED BY <2>2, <2>3 DEF OneOpen
<1> QED BY <1>3, <1>6, <1>7 DEF Still

(* New is called. *)
LEMMA StartOpenIsStill ==
    ASSUME IInv, Settling, NEW p \in Procs, StartOpen(p)
    PROVE  Still
<1>1. PICK c : c = [pc |-> "check", m |-> 1, s |-> 1]
  OBVIOUS
<1>2. calls' = [calls EXCEPT ![p] = c] /\ c.pc = "check" /\ c.m = 1
  BY <1>1 DEF StartOpen
<1>3. 1 .. c.m - 1 \subseteq ledger'
  BY <1>2
<1>4. ~overlap' => ~overlap /\ \A q \in Procs \ {p} : ~Open(q)
  BY DEF StartOpen
<1>5. Typed /\ tables' = tables /\ ledger' = ledger
  BY DEF IInv, StartOpen
<1> HIDE DEF Typed
<1> QED BY <1>2, <1>3, <1>4, <1>5, CallIsStill

(* The ledger is asked for a migration. *)
LEMMA CheckIsStill ==
    ASSUME IInv, Settling, NEW p \in Procs, Check(p)
    PROVE  Still
<1>1. CallOK(calls[p]) /\ calls[p].pc = "check" /\ calls[p].m \in 1..18 /\ Open(p)
  BY Seventeen DEF IInv, Typed, Check, CallOK, Open
<1>2. LedgerFirst
  BY DEF Settling
<1> PICK m : m = calls[p].m
  OBVIOUS
<1> DEFINE to == IF m > LastMigration THEN [pc |-> "ready", m |-> m, s |-> calls[p].s]
                 ELSE IF m \in ledger THEN [pc |-> "check", m |-> m + 1, s |-> 1]
                 ELSE [pc |-> "exec", m |-> m, s |-> 1]
<1>3. calls' = [calls EXCEPT ![p] = to]
  <2>1. [calls[p] EXCEPT !.pc = "ready"] = [pc |-> "ready", m |-> m, s |-> calls[p].s]
    BY <1>1 DEF CallOK, IsCall
  <2> QED BY <2>1 DEF Check
<1>4. PICK c : c = to OBVIOUS
<1>5. 1 .. m - 1 \subseteq ledger
  BY <1>1, <1>2 DEF LedgerFirst
<1>6. c.pc \in {"check", "exec"} => 1 .. c.m - 1 \subseteq ledger
  BY <1>1, <1>4, <1>5
<1>7. c.pc = "exec" => c.s = 1 /\ c.m \notin ledger
  BY <1>4
<1>8. c.pc = "ready" => 1..LastMigration \subseteq ledger
  BY <1>1, <1>4, <1>5, Seventeen
<1>9. c.pc # "record"
  BY <1>4
<1>10. calls' = [calls EXCEPT ![p] = c]
  BY <1>3, <1>4
<1>11. Typed /\ tables' = tables /\ ledger' = ledger /\ overlap' = overlap
  BY DEF IInv, Check
<1> HIDE DEF to
<1> QED BY <1>1, <1>6, <1>7, <1>8, <1>9, <1>10, <1>11, CallIsStill

(* A statement is refused, or the process or its context ends. *)
LEMMA EndIsStill ==
    ASSUME IInv, Settling, NEW p \in Procs, Refuse(p) \/ Cut(p)
    PROVE  Still
<1>1. CallOK(calls[p])
  BY DEF IInv, Typed
<1>2. PICK e \in {"failed", "cut"} : calls' = [calls EXCEPT ![p] = [calls[p] EXCEPT !.pc = e]]
  BY DEF Refuse, Cut
<1>3. PICK c : c = [pc |-> e, m |-> calls[p].m, s |-> calls[p].s]
  OBVIOUS
<1>4. calls' = [calls EXCEPT ![p] = c]
  <2>1. [calls[p] EXCEPT !.pc = e] = c
    BY <1>1, <1>3 DEF CallOK, IsCall
  <2> QED BY <1>2, <2>1
<1>5. c.pc \in {"failed", "cut"}
  BY <1>3
<1>6. Typed /\ tables' = tables /\ ledger' = ledger /\ overlap' = overlap
  BY DEF IInv, Refuse, Cut
<1> QED BY <1>4, <1>5, <1>6, CallIsStill

(* The migration is recorded. *)
LEMMA RecordIsStill ==
    ASSUME IInv, Settling, NEW p \in Procs, Record(p)
    PROVE  Still
<1>1. CallOK(calls[p]) /\ calls[p].pc = "record" /\ calls[p].m \in 1..17 /\ Open(p)
  BY Seventeen DEF IInv, Typed, Record, CallOK, Open
<1>2. PICK m : m = calls[p].m
  OBVIOUS
<1>3. PICK c : c = [pc |-> "check", m |-> m + 1, s |-> 1]
  OBVIOUS
<1>4. calls' = [calls EXCEPT ![p] = c] /\ c.pc = "check" /\ c.m = m + 1
  BY <1>2, <1>3 DEF Record
<1>5. 1 .. c.m - 1 \subseteq ledger'
  <2>1. 1 .. m - 1 \subseteq ledger
    BY <1>1, <1>2 DEF Settling, LedgerFirst
  <2>2. ledger' = ledger \cup {m}
    BY <1>2 DEF Record
  <2>3. \A i \in 1 .. c.m - 1 : i \in 1 .. m - 1 \/ i = m
    BY <1>1, <1>2, <1>4
  <2> QED BY <2>1, <2>2, <2>3
<1>6. Typed /\ tables' = tables /\ overlap' = overlap
      /\ ledger' = ledger \cup {calls[p].m}
  BY DEF IInv, Record
<1> QED BY <1>1, <1>4, <1>5, <1>6, CallIsStill

(* A work item is superseded: rows change, no column does. *)
LEMMA SupersedeIsStill ==
    ASSUME IInv, Settling, NEW p \in Procs, Supersede(p)
    PROVE  Still
<1> DEFINE r == tables["work_items"]
<1>1. "work_items" \in DOMAIN tables /\ IsTable(r)
  BY DEF Supersede, Exists, Schema, IInv, Typed
<1>2. PICK rows2 : tables' = [tables EXCEPT !["work_items"] = [r EXCEPT !.rows = rows2]]
  BY DEF Supersede
<1>3. PICK r2 : r2 = [r EXCEPT !.rows = rows2]
  OBVIOUS
<1>4. r2.cols = r.cols /\ r2.filled = r.filled /\ r2.check = r.check
  BY <1>1, <1>3 DEF IsTable
<1>5. /\ DOMAIN tables' = DOMAIN tables
      /\ \A x \in DOMAIN tables : tables'[x] = IF x = "work_items" THEN r2 ELSE tables[x]
  BY <1>1, <1>2, <1>3
<1>6. calls' = calls /\ ledger' = ledger /\ overlap' = overlap
  BY DEF Supersede
<1> QED BY <1>4, <1>5, <1>6 DEF Still, Settling, Done, LedgerFirst, OneOpen, Open

(* One statement of the script. *)
LEMMA ExecIssues ==
    ASSUME IInv, NEW p \in Procs, Exec(p)
    PROVE  Issues(p, calls[p].m, calls[p].s)
<1> DEFINE m == calls[p].m
           s == calls[p].s
           st == Script[m][s]
<1>1. /\ CallOK(calls[p]) /\ calls[p].pc = "exec"
      /\ m \in 1..LastMigration /\ s \in DOMAIN Script[m] /\ Current(p) = st
  BY DEF IInv, Typed, Exec, CallOK, Current
<1>2. Executed(p, st)
  BY <1>1, ExecIsExecuted
<1>3. Suits(m, s, st)
  <2> HIDE DEF m, s
  <2> QED BY <1>1, ScriptSuits
<1>4. Reshapes(tables, tables', st)
  <2>1. /\ Possible([tables |-> tables, indexes |-> indexes], st)
        /\ tables' = Effect([tables |-> tables, indexes |-> indexes], st).tables
    BY <1>1 DEF Exec, Schema
  <2>2. WellFormed(st) /\ \A x \in DOMAIN tables : IsTable(tables[x])
    BY <1>2 DEF Executed, Fits, IInv, Typed
  <2> HIDE DEF st
  <2> QED BY <2>1, <2>2, EffectReshapes
<1>5. PICK c : c = IF s = Len(Script[m]) THEN [pc |-> "record", m |-> m, s |-> s]
                   ELSE [pc |-> "exec", m |-> m, s |-> s + 1]
  OBVIOUS
<1>6. calls'[p] = c
  <2>1. [calls[p] EXCEPT !.pc = "record"] = [pc |-> "record", m |-> m, s |-> s]
    BY <1>1 DEF CallOK, IsCall
  <2>2. calls' = [calls EXCEPT ![p] = c]
    BY <1>5, <2>1 DEF Exec
  <2> QED BY <2>2 DEF IInv, Typed
<1>7. /\ c.m = m
      /\ (c.pc = "exec" /\ c.s = s + 1) \/ (c.pc = "record" /\ s = Len(Script[m]))
  BY <1>5
<1>8. ledger' = ledger /\ overlap' = overlap
  BY DEF Exec
<1>9. s \in Nat /\ Fits(m, s, st) /\ Does(tables, tables', st)
      /\ \A q \in Procs : q # p => calls'[q] = calls[q]
  BY <1>2 DEF Executed, Fits
<1> HIDE DEF st
<1> QED BY <1>1, <1>3, <1>4, <1>6, <1>7, <1>8, <1>9 DEF Issues, st

(* The database of an older release is as far as the release is. *)
LEMMA InitSettling == Init => Settling
<1> SUFFICES ASSUME Init PROVE Settling OBVIOUS
<1>1. PICK start \in Starts : tables = Left(start.v).tables /\ ledger = 1..start.v
  BY DEF Init
<1>2. PICK v : v = start.v
  OBVIOUS
<1>3. v \in 0..17 /\ ledger = 1..v
  BY <1>1, <1>2, StartsAssumption, Seventeen
<1>4. \A p \in Procs : calls[p].pc = "idle"
  BY DEF Init, NoCall
<1>5. /\ DOMAIN tables \subseteq FinalTables \cup (IF v < 15 THEN Doomed ELSE {})
      /\ \A m \in 1..v : \A s \in DOMAIN Script[m] :
            Script[m][s].t \in Ordinary => Stands(tables, Script[m][s])
      /\ v >= 8 => "pointer_links" \in DOMAIN tables
      /\ v >= 14 => \A t \in Statused : Rebuilt(tables, t)
      /\ \A t \in DOMAIN tables \cap FinalTables : tables[t].cols \subseteq GivenColumns(t)
      /\ "receipts" \in DOMAIN tables => tables["receipts"].filled \subseteq FilledColumns
  BY <1>1, <1>2, <1>3, LeftAssumption, Seventeen
<1>6. \A m, s : Done(m, s) <=> m \in 1..v
  BY <1>3, <1>4 DEF Done
<1>7. LedgerFirst
  BY <1>3, <1>4, Seventeen DEF LedgerFirst, Open
<1>8. OneOpen
  BY <1>4 DEF OneOpen, Open
<1>9. FinalTables \cap Fleeting = {} /\ Doomed \subseteq Fleeting
      /\ "pointer_links_new" \notin FinalTables \cup Doomed
  BY DEF FinalTables, Fleeting, Doomed, Legacies
<1>10. WithinScript
  BY <1>5, <1>9 DEF WithinScript
<1>11. OrdinaryStands
  BY <1>5, <1>6 DEF OrdinaryStands
<1>12. LeftoversGone
  <2> SUFFICES ASSUME NEW x \in Fleeting, GoneAt(x).m \in 1..v, x \in DOMAIN tables
               PROVE  FALSE
    BY <1>6 DEF LeftoversGone
  <2>1. v < 15 /\ x \in Doomed
    BY <1>5, <1>9
  <2>2. GoneAt(x).m = 15
    BY <2>1, GoneTable DEF Doomed
  <2> QED BY <1>3, <2>1, <2>2
<1>13. RebuiltStand
  BY <1>3, <1>5, <1>6 DEF RebuiltStand
<1> QED BY <1>7, <1>8, <1>10, <1>11, <1>12, <1>13 DEF Settling

(* Settling is inductive, given IInv. *)
LEMMA StepSettling == IInv /\ Settling /\ [Next]_vars => Settling'
<1> SUFFICES ASSUME IInv, Settling, [Next]_vars PROVE Settling' OBVIOUS
<1>1. CASE UNCHANGED vars
  <2>1. /\ tables' = tables /\ calls' = calls /\ ledger' = ledger /\ overlap' = overlap
    BY <1>1 DEF vars
  <2>2. Still
    BY <2>1 DEF Still, Settling, Done, LedgerFirst, OneOpen, Open
  <2> QED BY <2>2, StillKeeps
<1>2. ASSUME NEW p \in Procs, StartOpen(p) PROVE Settling'
  BY <1>2, StartOpenIsStill, StillKeeps
<1>3. ASSUME NEW p \in Procs, Check(p) PROVE Settling'
  BY <1>3, CheckIsStill, StillKeeps
<1>4. ASSUME NEW p \in Procs, Refuse(p) PROVE Settling'
  BY <1>4, EndIsStill, StillKeeps
<1>5. ASSUME NEW p \in Procs, Record(p) PROVE Settling'
  BY <1>5, RecordIsStill, StillKeeps
<1>6. ASSUME NEW p \in Procs, Cut(p) PROVE Settling'
  BY <1>6, EndIsStill, StillKeeps
<1>7. ASSUME NEW p \in Procs, Supersede(p) PROVE Settling'
  BY <1>7, SupersedeIsStill, StillKeeps
<1>8. ASSUME NEW p \in Procs, Exec(p) PROVE Settling'
  BY <1>8, ExecIssues, SettlingIssued
<1> QED BY <1>1, <1>2, <1>3, <1>4, <1>5, <1>6, <1>7, <1>8 DEF Next

(***************************************************************************)
(* And says what an open database is.                                      *)
(***************************************************************************)
(* Every table no migration rebuilds is created by one. *)
LEMMA OrdinaryCreated ==
    \A t \in Ordinary : \E m \in 1..LastMigration : \E s \in DOMAIN Script[m] : Script[m][s].t = t
<1>1. /\ 1 \in DOMAIN M0001 /\ M0001[1].t = "pointers"
      /\ 7 \in DOMAIN M0001 /\ M0001[7].t = "receipts"
      /\ 9 \in DOMAIN M0001 /\ M0001[9].t = "runs"
  BY DEF M0001, CreateAbsent, Create, Index
<1>2. /\ 1 \in DOMAIN M0003 /\ M0003[1].t = "pointer_candidates"
      /\ 1 \in DOMAIN M0007 /\ M0007[1].t = "verification_batches"
      /\ 3 \in DOMAIN M0007 /\ M0007[3].t = "verification_results"
      /\ 1 \in DOMAIN M0010 /\ M0010[1].t = "review_attempts"
  BY DEF M0003, M0007, M0010, CreateAbsent, Create, Index
<1>3. Ordinary \subseteq {"pointers", "receipts", "runs", "pointer_candidates",
                         "verification_batches", "verification_results", "review_attempts"}
  BY DEF Ordinary, FinalTables, Statused
<1>4. {1, 3, 7, 10} \subseteq 1..LastMigration
  BY Seventeen
<1>5. \A t \in {"pointers", "receipts", "runs"} : \E s \in DOMAIN Script[1] : Script[1][s].t = t
  BY <1>1, Numbered
<1>6. \E s \in DOMAIN Script[3] : Script[3][s].t = "pointer_candidates"
  BY <1>2, Numbered
<1>7. \A t \in {"verification_batches", "verification_results"} :
          \E s \in DOMAIN Script[7] : Script[7][s].t = t
  BY <1>2, Numbered
<1>8. \E s \in DOMAIN Script[10] : Script[10][s].t = "review_attempts"
  BY <1>2, Numbered
<1> QED BY <1>3, <1>4, <1>5, <1>6, <1>7, <1>8

(* What Issued, GivenColumns and FinalColumns hold. *)
LEMMA InIssued ==
    ASSUME NEW op, NEW t, NEW d \in Issued(op, t)
    PROVE  /\ d.op = op /\ d.t = t
           /\ \E m \in 1..LastMigration : \E s \in DOMAIN Script[m] : d = Script[m][s] /\ Suits(m, s, d)
<1>1. d.op = op /\ d.t = t /\ d \in UNION {Range(Script[m]) : m \in DOMAIN Script}
  BY DEF Issued
<1>2. PICK m \in DOMAIN Script : d \in Range(Script[m])
  BY <1>1
<1>3. PICK s \in DOMAIN Script[m] : d = Script[m][s]
  BY <1>2 DEF Range
<1>4. m \in 1..LastMigration
  BY Numbered, Seventeen
<1> QED BY <1>1, <1>3, <1>4, ScriptSuits

(* A column of FinalColumns was created or added, and is not dropped. *)
LEMMA InFinalColumns ==
    ASSUME NEW t, NEW c
    PROVE  /\ c \in FinalColumns(t) =>
                /\ \/ \E d \in Issued("create", t) : c \in d.cols
                   \/ \E d \in Issued("add", t) : c = d.c
                /\ \A d \in Issued("dropcol", t) : c # d.c
           /\ c \in GivenColumns(t) /\ (\A d \in Issued("dropcol", t) : c # d.c) =>
                c \in FinalColumns(t)
BY DEF FinalColumns, GivenColumns

(* With every migration done, the tables are the final ones. *)
LEMMA AllDone ==
    ASSUME Settling, ~overlap, 1..LastMigration \subseteq ledger
    PROVE  /\ DOMAIN tables = FinalTables
           /\ \A m \in 1..LastMigration : \A s \in DOMAIN Script[m] :
                 Script[m][s].t \in Ordinary => Stands(tables, Script[m][s])
           /\ \A t \in Statused : Rebuilt(tables, t)
<1>1. \A m \in 1..LastMigration : \A s : Done(m, s)
  BY DEF Done
<1>2. \A m \in 1..LastMigration : \A s \in DOMAIN Script[m] :
          Script[m][s].t \in Ordinary => Stands(tables, Script[m][s])
  BY <1>1 DEF Settling, OrdinaryStands
<1>3. "pointer_links" \in DOMAIN tables /\ \A t \in Statused : Rebuilt(tables, t)
  BY <1>1, Seventeen DEF Settling, RebuiltStand
<1>4. \A t \in Ordinary : t \in DOMAIN tables
  BY <1>2, OrdinaryCreated DEF Stands
<1>5. \A t \in FinalTables : t \in Ordinary \/ t \in Statused \/ t = "pointer_links"
  BY DEF Ordinary
<1>6. FinalTables \subseteq DOMAIN tables
  BY <1>3, <1>4, <1>5 DEF Rebuilt
<1>7. \A x \in Fleeting : x \notin DOMAIN tables
  BY <1>1, GoneAtTakes DEF Settling, LeftoversGone
<1>8. DOMAIN tables \subseteq FinalTables
  BY <1>7 DEF Settling, WithinScript
<1> QED BY <1>2, <1>3, <1>6, <1>8

(* And so are their columns. *)
LEMMA AllColumns ==
    ASSUME Settling, ~overlap, 1..LastMigration \subseteq ledger, NEW t \in FinalTables
    PROVE  tables[t].cols = FinalColumns(t)
<1>1. /\ t \in DOMAIN tables /\ tables[t].cols \subseteq GivenColumns(t)
      /\ \A m \in 1..LastMigration : \A s \in DOMAIN Script[m] :
            Script[m][s].t \in Ordinary => Stands(tables, Script[m][s])
      /\ \A u \in Statused : Rebuilt(tables, u)
  BY AllDone DEF Settling, WithinScript
<1>2. t \in Ordinary \/ t \in Statused \/ t = "pointer_links"
  BY DEF Ordinary
<1>3. "receipts" \in Ordinary /\ "receipts" \notin Statused \cup {"pointer_links"}
      /\ Ordinary \cap Statused = {} /\ "pointer_links" \notin Ordinary \cup Statused
  BY DEF Ordinary, Statused, FinalTables
<1>4. ASSUME NEW c \in tables[t].cols
      PROVE  c \in FinalColumns(t)
  <2>1. ASSUME NEW d \in Issued("dropcol", t)
        PROVE  c # d.c
    <3>1. PICK m \in 1..LastMigration : \E s \in DOMAIN Script[m] :
             d.op = "dropcol" /\ d.t = t /\ d = Script[m][s] /\ Suits(m, s, d)
      BY <2>1, InIssued
    <3>2. PICK s \in DOMAIN Script[m] :
             d.op = "dropcol" /\ d.t = t /\ d = Script[m][s] /\ Suits(m, s, d)
      BY <3>1
    <3>3. t \in Ordinary
      BY <1>3, <3>2 DEF Suits
    <3>4. Stands(tables, d)
      BY <1>1, <3>2, <3>3
    <3> QED BY <1>4, <3>2, <3>4 DEF Stands
  <2>2. c \in GivenColumns(t)
    BY <1>1, <1>4
  <2> QED BY <2>1, <2>2, InFinalColumns
<1>5. ASSUME NEW c \in FinalColumns(t)
      PROVE  c \in tables[t].cols
  <2>1. /\ \/ \E d \in Issued("create", t) : c \in d.cols
           \/ \E d \in Issued("add", t) : c = d.c
        /\ \A d \in Issued("dropcol", t) : c # d.c
    BY <1>5, InFinalColumns
  <2>2. ASSUME NEW d \in Issued("create", t), c \in d.cols
        PROVE  c \in tables[t].cols
    <3>1. d.op = "create" /\ d.t = t
      BY <2>2, InIssued
    <3>2. PICK m, s : Suits(m, s, d)
      BY <2>2, InIssued
    <3>3. CASE t \in Ordinary
      <4>1. t = "receipts" /\ c = "memory_ids"
        BY <2>2, <3>1, <3>2, <3>3 DEF Suits
      <4>2. /\ 3 \in DOMAIN Script[15] /\ Script[15][3].op = "dropcol"
            /\ Script[15][3].t = "receipts" /\ Script[15][3].c = "memory_ids"
        BY Numbered DEF M0015, DropPresent, Drop, DropColumn
      <4>3. Script[15][3] \in Issued("dropcol", "receipts")
        <5>1. 15 \in 1..LastMigration BY Seventeen
        <5>2. Script[15][3] \in Issued(Script[15][3].op, Script[15][3].t)
          BY <4>2, <5>1, Given
        <5> QED BY <4>2, <5>2
      <4> QED BY <2>1, <4>1, <4>2, <4>3
    <3>4. CASE t \in Statused
      BY <1>1, <2>2, <3>1, <3>2, <3>4 DEF Suits, Rebuilt
    <3>5. CASE t = "pointer_links"
      BY <2>2, <3>1, <3>2, <3>5 DEF Suits
    <3> QED BY <1>2, <3>3, <3>4, <3>5
  <2>3. ASSUME NEW d \in Issued("add", t), c = d.c
        PROVE  c \in tables[t].cols
    <3>1. PICK m \in 1..LastMigration : \E s \in DOMAIN Script[m] :
             d.op = "add" /\ d.t = t /\ d = Script[m][s] /\ Suits(m, s, d)
      BY <2>3, InIssued
    <3>2. PICK s \in DOMAIN Script[m] :
             d.op = "add" /\ d.t = t /\ d = Script[m][s] /\ Suits(m, s, d)
      BY <3>1
    <3>3. CASE t \in Ordinary
      <4>1. Stands(tables, d)
        BY <1>1, <3>2, <3>3
      <4> QED BY <2>3, <3>2, <4>1 DEF Stands
    <3>4. CASE t \in Statused
      BY <1>1, <2>3, <3>2, <3>4 DEF Suits, Rebuilt
    <3> QED BY <1>3, <3>2, <3>3, <3>4 DEF Suits
  <2> QED BY <2>1, <2>2, <2>3
<1> QED BY <1>4, <1>5

(* The rows of the older release are where the queries look for them: NoRowLost's invariant says
   in which table each one is, and of those only its own is left. *)
LEMMA AllRows ==
    ASSUME IInv, Settling, ~overlap, 1..LastMigration \subseteq ledger,
           NEW t \in FinalTables, t \in DOMAIN original
    PROVE  original[t] \subseteq DOMAIN tables[t].rows
<1>1. DOMAIN tables = FinalTables
  BY AllDone
<1> SUFFICES ASSUME NEW i \in original[t] PROVE i \in Valid(tables, t)
  BY <1>1 DEF Valid
<1>2. t \in Ordinary \/ t \in Statused \/ t = "pointer_links"
  BY DEF Ordinary
<1>3. CASE t \in Ordinary
  BY <1>3 DEF IInv, OrdinarySafe
<1>4. CASE t = "pointer_links"
  BY <1>1, <1>4 DEF IInv, LinksSafe, LinkSafe
<1>5. CASE t \in Statused
  <2>1. Legacy(13, t) \notin FinalTables /\ Legacy(14, t) \notin FinalTables
    BY <1>5, LegacyTable DEF Statused, FinalTables
  <2>2. \A x : x \notin DOMAIN tables => Valid(tables, x) = {}
    BY DEF Valid
  <2>3. RowSafe(t, i)
    BY <1>5 DEF IInv, StatusedSafe
  <2> QED BY <1>1, <2>1, <2>2, <2>3 DEF RowSafe
<1> QED BY <1>2, <1>3, <1>4, <1>5

(* An open database is settled. *)
LEMMA SettlingMeansSettled == IInv /\ Settling => ReadyMeansSettled
<1> SUFFICES ASSUME IInv, Settling, NEW p \in Procs, calls[p].pc = "ready", ~overlap
             PROVE  Settled
  BY DEF ReadyMeansSettled
<1>1. 1..LastMigration \subseteq ledger
  BY DEF Settling, LedgerFirst
<1>2. DOMAIN tables = FinalTables /\ \A t \in Statused : tables[t].check = NewStatuses
  BY <1>1, AllDone DEF Rebuilt
<1>3. tables["receipts"].filled = FilledColumns
  <2>1. /\ 2 \in DOMAIN Script[11] /\ Script[11][2].t = "receipts"
        /\ Script[11][2].op = "fill" /\ Script[11][2].c = "pointer_paths"
    BY Numbered DEF M0011, AddColumn, Fill
  <2>2. /\ 4 \in DOMAIN Script[12] /\ Script[12][4].t = "receipts"
        /\ Script[12][4].op = "fill" /\ Script[12][4].c = "initial_scope"
    BY Numbered DEF M0012, AddColumn, Fill
  <2>3. "receipts" \in Ordinary /\ "receipts" \in FinalTables
    BY DEF Ordinary, FinalTables, Statused
  <2>4. Stands(tables, Script[11][2]) /\ Stands(tables, Script[12][4])
    <3>1. 11 \in 1..LastMigration /\ 12 \in 1..LastMigration
      BY Seventeen
    <3>2. \A m \in 1..LastMigration : \A s \in DOMAIN Script[m] :
             Script[m][s].t \in Ordinary => Stands(tables, Script[m][s])
      BY <1>1, AllDone
    <3> QED BY <2>1, <2>2, <2>3, <3>1, <3>2
  <2>5. tables["receipts"].filled \subseteq FilledColumns
    BY <1>2, <2>3 DEF Settling, WithinScript
  <2> QED BY <2>1, <2>2, <2>4, <2>5 DEF Stands, FilledColumns
<1> QED BY <1>1, <1>2, <1>3, AllColumns, AllRows DEF Settled

(* An open that returns success leaves the schema the last migration describes, with every row
   where the queries look for it, wherever earlier calls of New were cut and as long as no two
   overlapped (New, applyMigrations). *)
THEOREM ReadyIsSettled == Spec => []ReadyMeansSettled
<1>1. Init => IInv /\ Settling
  BY InitIInv, InitSettling
<1>2. IInv /\ Settling /\ [Next]_vars => (IInv /\ Settling)'
  BY StepIInv, StepSettling
<1>3. IInv /\ Settling => ReadyMeansSettled
  BY SettlingMeansSettled
<1> QED BY <1>1, <1>2, <1>3, PTL DEF Spec

(***************************************************************************)
(* RefusedOnlyAfterCut and IndexesRestored.  As long as no two calls       *)
(* overlap and only migrations of C are cut, every schema a call meets is  *)
(* in a table that starts with what the releases leave, follows the script *)
(* and, for a migration of C, begins it again (Meets).  The assumptions of *)
(* Migrations say that Met has such tables and what is in them.            *)
(***************************************************************************)
Disturbed(C) == overlap \/ ~(cutIn \subseteq C)

(* The first n migrations are recorded, and the schema is one that met has for the statement
   the next one is at. *)
MeetsAt(met, n) ==
    /\ ledger = 1..n
    /\ n = LastMigration =>
          \E schema \in {Left(n)} \cup met[n][Len(Script[n]) + 1] : indexes = schema.indexes
    /\ n < LastMigration =>
          /\ \A p \in Procs : calls[p].pc = "exec" =>
                calls[p].m = n + 1 /\ Schema \in met[n + 1][calls[p].s]
          /\ \A p \in Procs : calls[p].pc = "record" =>
                calls[p].m = n + 1 /\ Schema \in met[n + 1][Len(Script[n + 1]) + 1]
          /\ (\A p \in Procs : calls[p].pc \notin {"exec", "record"}) => Schema \in met[n + 1][1]

(* What a call may meet, while nothing is disturbed. *)
Meets(met, C) ==
    /\ cutIn \subseteq 1..LastMigration
    /\ Disturbed(C) \/ \E n \in 0..LastMigration : MeetsAt(met, n)

(* A statement makes a schema of a schema. *)
IsSchema(e) == e = [tables |-> e.tables, indexes |-> e.indexes]

LEMMA EffectIsSchema ==
    ASSUME NEW tabs, NEW idx, NEW st, WellFormed(st)
    PROVE  IsSchema(Effect([tables |-> tabs, indexes |-> idx], st))
<1> DEFINE s == [tables |-> tabs, indexes |-> idx]
           e == Effect(s, st)
<1> SUFFICES \E t, j : e = [tables |-> t, indexes |-> j]
  BY DEF IsSchema
<1>1. CASE st.op = "create"
  <2>1. e = IF Exists(s, st.t) THEN s ELSE Put(s, st.t, NewTable(st))
    BY <1>1 DEF Effect
  <2> QED BY <2>1 DEF Put
<1>2. CASE st.op = "drop"
  <2>1. PICK j : e = [Without(s, st.t) EXCEPT !.indexes = j]
    BY <1>2 DEF Effect
  <2> QED BY <2>1 DEF Without
<1>3. CASE st.op = "index"
  <2>1. PICK j : e = [s EXCEPT !.indexes = j]
    BY <1>3 DEF Effect
  <2> QED BY <2>1
<1>4. CASE st.op \in {"add", "dropcol", "fill", "copy"}
  <2>1. e = s \/ \E t : e = [s EXCEPT !.tables = t]
    BY <1>4 DEF Effect
  <2> QED BY <2>1
<1>5. CASE st.op = "rename"
  <2>1. PICK j : e = [Put(Without(s, st.t), st.to, s.tables[st.t]) EXCEPT !.indexes = j]
    BY <1>5 DEF Effect
  <2> QED BY <2>1 DEF Put, Without
<1> QED BY <1>1, <1>2, <1>3, <1>4, <1>5 DEF WellFormed, Ops

(* A release leaves a schema that the table starts with. *)
LEMMA InitMeets ==
    ASSUME NEW met, NEW C, Covers(met, C), Init
    PROVE  Meets(met, C)
<1>1. PICK start \in Starts :
         tables = Left(start.v).tables /\ indexes = Left(start.v).indexes /\ ledger = 1..start.v
  BY DEF Init
<1>2. PICK v : v = start.v
  OBVIOUS
<1>3. v \in 0..17 /\ ledger = 1..v
  BY <1>1, <1>2, StartsAssumption, Seventeen
<1>4. \A p \in Procs : calls[p].pc = "idle"
  BY DEF Init, NoCall
<1>5. Schema = Left(v) /\ indexes = Left(v).indexes
  BY <1>1, <1>2 DEF Schema, Left
<1>6. ASSUME v < 17
      PROVE  Schema \in met[v + 1][1]
  <2>1. v + 1 \in 1..LastMigration /\ (v + 1) - 1 = v
    BY <1>3, <1>6, Seventeen
  <2>2. Left((v + 1) - 1) \in met[v + 1][1]
    BY <2>1 DEF Covers
  <2> QED BY <1>5, <2>1, <2>2
<1>7. MeetsAt(met, v)
  BY <1>3, <1>4, <1>5, <1>6, Seventeen DEF MeetsAt
<1>8. cutIn = {}
  BY DEF Init
<1> QED BY <1>3, <1>7, <1>8, Seventeen DEF Meets

(* A call at a statement is in the first migration the ledger lacks. *)
LEMMA InNext ==
    ASSUME IInv, OneOpen, NEW p \in Procs, calls[p].pc \in {"exec", "record"},
           NEW n \in 0..LastMigration, NEW met, MeetsAt(met, n)
    PROVE  /\ n < LastMigration /\ calls[p].m = n + 1 /\ n + 1 \in 1..LastMigration
           /\ calls[p].pc = "exec" =>
                 calls[p].s \in DOMAIN Script[n + 1] /\ Schema \in met[n + 1][calls[p].s]
           /\ calls[p].pc = "record" => Schema \in met[n + 1][Len(Script[n + 1]) + 1]
           /\ DOMAIN Script[n + 1] = 1..Len(Script[n + 1]) /\ Len(Script[n + 1]) \in Nat
<1>1. /\ CallOK(calls[p]) /\ calls[p].m \in 1..LastMigration
      /\ calls[p].m \notin ledger /\ ledger = 1..n
  BY DEF IInv, Typed, CallOK, OneOpen, MeetsAt
<1>2. n < LastMigration
  BY <1>1, Seventeen
<1>3. calls[p].m = n + 1
  BY <1>2 DEF MeetsAt
<1>4. IsScript(Script[n + 1])
  BY <1>1, <1>3, ScriptShapes
<1> QED BY <1>1, <1>2, <1>3, <1>4 DEF MeetsAt, CallOK, IsScript

(* One statement of a call. *)
LEMMA ExecMeets ==
    ASSUME IInv, OneOpen, NEW p \in Procs, Exec(p), NEW met, NEW C, Covers(met, C),
           NEW n \in 0..LastMigration, MeetsAt(met, n)
    PROVE  MeetsAt(met, n)'
<1> PICK m, s : m = n + 1 /\ s = calls[p].s
  OBVIOUS
<1> DEFINE st == Script[m][s]
<1>1. /\ CallOK(calls[p]) /\ calls[p].pc = "exec" /\ calls[p].m = m /\ n < LastMigration
      /\ m \in 1..LastMigration /\ s \in DOMAIN Script[m] /\ Schema \in met[m][s]
      /\ Current(p) = st
  BY InNext DEF Exec, Current, IInv, Typed
<1>2. Possible(Schema, st)
  BY <1>1 DEF Exec
<1>3. Schema' = Effect(Schema, st)
  <2>1. WellFormed(st)
    BY <1>1, ScriptFits DEF Fits
  <2>2. IsSchema(Effect(Schema, st))
    <3> HIDE DEF st
    <3> QED BY <2>1, EffectIsSchema DEF Schema
  <2> HIDE DEF st
  <2> QED BY <1>1, <2>2 DEF Exec, Schema, IsSchema
<1>4. Schema' \in met[m][s + 1]
  BY <1>1, <1>2, <1>3 DEF Covers
<1>5. PICK c : c = IF s = Len(Script[m]) THEN [pc |-> "record", m |-> m, s |-> s]
                   ELSE [pc |-> "exec", m |-> m, s |-> s + 1]
  OBVIOUS
<1>6. \A q \in Procs : calls'[q] = IF q = p THEN c ELSE calls[q]
  <2>1. [calls[p] EXCEPT !.pc = "record"] = [pc |-> "record", m |-> m, s |-> s]
    BY <1>1 DEF CallOK, IsCall
  <2>2. calls' = [calls EXCEPT ![p] = c]
    BY <1>1, <1>5, <2>1 DEF Exec
  <2> QED BY <2>2 DEF IInv, Typed
<1>7. \A q \in Procs : q # p => calls[q].pc \notin {"exec", "record"}
  BY <1>1 DEF OneOpen, Open
<1>8. /\ c.m = m
      /\ \/ c.pc = "exec" /\ c.s = s + 1
         \/ c.pc = "record" /\ s = Len(Script[m])
  BY <1>5
<1>9. ledger' = ledger
  BY DEF Exec
<1> HIDE DEF st
<1> QED BY <1>1, <1>4, <1>6, <1>7, <1>8, <1>9 DEF MeetsAt

(* A step of p that leaves the database and the ledger as they are and p at no statement but
   the first of the next migration. *)
LEMMA CallMeets ==
    ASSUME NEW p \in Procs, NEW c, \A q \in Procs : calls'[q] = IF q = p THEN c ELSE calls[q],
           tables' = tables, indexes' = indexes, ledger' = ledger,
           NEW n \in 0..LastMigration, NEW met, MeetsAt(met, n),
           c.pc # "record",
           n < LastMigration /\ c.pc = "exec" => c.m = n + 1 /\ c.s = 1,
           n < LastMigration /\ (\A q \in Procs : q # p => calls[q].pc \notin {"exec", "record"})
               => Schema \in met[n + 1][1],
           c.pc = "exec" => \A q \in Procs : q # p => calls[q].pc \notin {"exec", "record"}
    PROVE  MeetsAt(met, n)'
<1>1. Schema' = Schema
  BY DEF Schema
<1> QED BY <1>1 DEF MeetsAt

(* The ledger is asked. *)
LEMMA CheckMeets ==
    ASSUME IInv, LedgerFirst, OneOpen, NEW p \in Procs, Check(p),
           NEW met, NEW n \in 0..LastMigration, MeetsAt(met, n)
    PROVE  MeetsAt(met, n)'
<1> PICK m : m = calls[p].m
  OBVIOUS
<1>1. CallOK(calls[p]) /\ calls[p].pc = "check" /\ m \in 1..18 /\ Open(p)
  BY Seventeen DEF IInv, Typed, Check, CallOK, Open
<1>2. PICK c : c = IF m > LastMigration THEN [pc |-> "ready", m |-> m, s |-> calls[p].s]
                   ELSE IF m \in ledger THEN [pc |-> "check", m |-> m + 1, s |-> 1]
                   ELSE [pc |-> "exec", m |-> m, s |-> 1]
  OBVIOUS
<1>3. \A q \in Procs : calls'[q] = IF q = p THEN c ELSE calls[q]
  <2>1. [calls[p] EXCEPT !.pc = "ready"] = [pc |-> "ready", m |-> m, s |-> calls[p].s]
    BY <1>1 DEF CallOK, IsCall
  <2>2. calls' = [calls EXCEPT ![p] = c]
    BY <1>2, <2>1 DEF Check
  <2> QED BY <2>2 DEF IInv, Typed
<1>4. c.pc \in {"ready", "check", "exec"}
  BY <1>2
<1>5. \A q \in Procs : calls[q].pc \notin {"exec", "record"}
  BY <1>1 DEF OneOpen, Open
<1>6. n < LastMigration => Schema \in met[n + 1][1]
  BY <1>5 DEF MeetsAt
<1>7. ASSUME n < LastMigration, c.pc = "exec"
      PROVE  c.m = n + 1 /\ c.s = 1
  <2>1. c.m = m /\ c.s = 1 /\ m \notin ledger
    BY <1>2, <1>7
  <2>2. 1 .. m - 1 \subseteq 1..n /\ m \notin 1..n
    BY <1>1, <2>1 DEF LedgerFirst, MeetsAt
  <2>3. n \in Nat /\ m \in Nat /\ m >= 1
    BY <1>1, Seventeen
  <2>4. m - 1 \in 1 .. m - 1 \/ m = 1
    BY <2>3
  <2>5. m > n
    BY <2>2, <2>3
  <2>6. m - 1 <= n
    BY <2>2, <2>3, <2>4
  <2> QED BY <2>1, <2>3, <2>5, <2>6
<1>8. tables' = tables /\ indexes' = indexes /\ ledger' = ledger
  BY DEF Check
<1> QED BY <1>3, <1>4, <1>5, <1>6, <1>7, <1>8, CallMeets

(* A call ends at a statement of C: what it leaves is met again by the next one. *)
LEMMA EndMeets ==
    ASSUME IInv, OneOpen, NEW p \in Procs, NEW e \in {"failed", "cut"},
           calls' = [calls EXCEPT ![p].pc = e], Open(p),
           tables' = tables, indexes' = indexes, ledger' = ledger,
           NEW met, NEW C, Covers(met, C), NEW n \in 0..LastMigration, MeetsAt(met, n),
           calls[p].pc = "record" \/ (calls[p].pc = "exec" /\ calls[p].s > 1) => calls[p].m \in C
    PROVE  MeetsAt(met, n)'
<1>1. PICK c : c = [pc |-> e, m |-> calls[p].m, s |-> calls[p].s]
  OBVIOUS
<1>2. \A q \in Procs : calls'[q] = IF q = p THEN c ELSE calls[q]
  <2>1. [calls[p] EXCEPT !.pc = e] = c
    BY <1>1 DEF IInv, Typed, CallOK, IsCall
  <2>2. calls' = [calls EXCEPT ![p] = c]
    BY <2>1
  <2> QED BY <2>2 DEF IInv, Typed
<1>3. c.pc = e
  BY <1>1
<1>4. \A q \in Procs : q # p => calls[q].pc \notin {"exec", "record"}
  BY DEF OneOpen, Open
<1>5. ASSUME n < LastMigration
      PROVE  Schema \in met[n + 1][1]
  <2>1. CASE calls[p].pc \notin {"exec", "record"}
    BY <1>4, <1>5, <2>1 DEF MeetsAt
  <2>2. CASE calls[p].pc = "exec"
    <3>1. /\ calls[p].m = n + 1 /\ n + 1 \in 1..LastMigration
          /\ calls[p].s \in 1..Len(Script[n + 1]) /\ Schema \in met[n + 1][calls[p].s]
          /\ Len(Script[n + 1]) \in Nat
      BY <2>2, InNext
    <3>2. CASE calls[p].s = 1
      BY <3>1, <3>2
    <3>3. CASE calls[p].s > 1
      <4>1. met[n + 1][calls[p].s] \subseteq met[n + 1][1]
        BY <2>2, <3>1, <3>3 DEF Covers
      <4> QED BY <3>1, <4>1
    <3> QED BY <3>1, <3>2, <3>3
  <2>3. CASE calls[p].pc = "record"
    <3>1. /\ calls[p].m = n + 1 /\ n + 1 \in 1..LastMigration
          /\ Schema \in met[n + 1][Len(Script[n + 1]) + 1] /\ Len(Script[n + 1]) \in Nat
      BY <2>3, InNext
    <3>2. n + 1 \in C /\ Len(Script[n + 1]) + 1 \in 1 .. Len(Script[n + 1]) + 1
      BY <2>3, <3>1
    <3>3. met[n + 1][Len(Script[n + 1]) + 1] \subseteq met[n + 1][1]
      BY <3>1, <3>2 DEF Covers
    <3> QED BY <3>1, <3>3
  <2> QED BY <2>1, <2>2, <2>3
<1> QED BY <1>2, <1>3, <1>5, CallMeets

(* The migration is recorded, and the next one comes up. *)
LEMMA RecordMeets ==
    ASSUME IInv, OneOpen, NEW p \in Procs, Record(p), NEW met, NEW C, Covers(met, C),
           NEW n \in 0..LastMigration, MeetsAt(met, n)
    PROVE  n + 1 \in 0..LastMigration /\ MeetsAt(met, n + 1)'
<1>1. /\ CallOK(calls[p]) /\ calls[p].pc = "record" /\ Open(p)
      /\ n < LastMigration /\ calls[p].m = n + 1 /\ n + 1 \in 1..LastMigration
      /\ Schema \in met[n + 1][Len(Script[n + 1]) + 1]
  BY InNext DEF IInv, Typed, Record, Open
<1>2. \A q \in Procs : calls'[q].pc \notin {"exec", "record"}
  BY <1>1 DEF OneOpen, Open, Record, IInv, Typed
<1>3. ledger' = 1 .. n + 1 /\ Schema' = Schema /\ indexes' = indexes
  BY <1>1, Seventeen DEF Record, MeetsAt, Schema
<1>4. n + 1 < LastMigration => Schema' \in met[(n + 1) + 1][1]
  BY <1>1, <1>3 DEF Covers
<1>5. \E schema \in met[n + 1][Len(Script[n + 1]) + 1] : indexes' = schema.indexes
  BY <1>1, <1>3 DEF Schema
<1>6. MeetsAt(met, n + 1)'
  BY <1>2, <1>3, <1>4, <1>5 DEF MeetsAt
<1>7. n + 1 \in 0..LastMigration
  BY <1>1, Seventeen
<1> QED BY <1>6, <1>7

(* What was disturbed stays so. *)
LEMMA Remembered ==
    ASSUME [Next]_vars
    PROVE  (overlap => overlap') /\ cutIn \subseteq cutIn'
<1>1. CASE UNCHANGED vars
  BY <1>1 DEF vars
<1>2. ASSUME NEW p \in Procs, Check(p) \/ Exec(p) \/ Refuse(p) \/ Record(p) \/ Supersede(p)
      PROVE  overlap' = overlap /\ cutIn' = cutIn
  BY <1>2 DEF Check, Exec, Refuse, Record, Supersede
<1>3. ASSUME NEW p \in Procs, StartOpen(p)
      PROVE  (overlap => overlap') /\ cutIn \subseteq cutIn'
  BY <1>3 DEF StartOpen
<1>4. ASSUME NEW p \in Procs, Cut(p)
      PROVE  (overlap => overlap') /\ cutIn \subseteq cutIn'
  <2>1. cutIn' = cutIn \/ cutIn' = cutIn \cup {calls[p].m}
    BY <1>4 DEF Cut
  <2> QED BY <1>4, <2>1 DEF Cut
<1> QED BY <1>1, <1>2, <1>3, <1>4 DEF Next

(* Meets is inductive, given IInv and Settling. *)
LEMMA StepMeets ==
    ASSUME IInv, Settling, [Next]_vars, NEW met, NEW C, Covers(met, C), Meets(met, C)
    PROVE  Meets(met, C)'
<1>0. cutIn' \subseteq 1..LastMigration
  <2>1. cutIn \subseteq 1..LastMigration
    BY DEF Meets
  <2>2. CASE UNCHANGED vars
    BY <2>1, <2>2 DEF vars
  <2>3. ASSUME NEW p \in Procs, Cut(p)
        PROVE  cutIn' \subseteq 1..LastMigration
    <3>1. calls[p].pc \in {"exec", "record"} => calls[p].m \in 1..LastMigration
      BY DEF IInv, Typed, CallOK
    <3>2. cutIn' = IF calls[p].pc = "record" \/ (calls[p].pc = "exec" /\ calls[p].s > 1)
                   THEN cutIn \cup {calls[p].m} ELSE cutIn
      BY <2>3 DEF Cut
    <3> QED BY <2>1, <3>1, <3>2
  <2>4. ASSUME NEW p \in Procs, \/ StartOpen(p) \/ Check(p) \/ Exec(p) \/ Refuse(p)
                                \/ Record(p) \/ Supersede(p)
        PROVE  cutIn' = cutIn
    BY <2>4 DEF StartOpen, Check, Exec, Refuse, Record, Supersede
  <2> QED BY <2>1, <2>2, <2>3, <2>4 DEF Next
<1> SUFFICES ASSUME ~Disturbed(C)'
             PROVE  \E n \in 0..LastMigration : MeetsAt(met, n)'
  BY <1>0 DEF Meets
<1>1. (overlap => overlap') /\ cutIn \subseteq cutIn'
  BY Remembered
<1>2. ~overlap /\ ~Disturbed(C)
  BY <1>1 DEF Disturbed
<1>3. PICK n \in 0..LastMigration : MeetsAt(met, n)
  BY <1>2 DEF Meets
<1>4. LedgerFirst /\ OneOpen
  BY <1>2 DEF Settling
<1>5. CASE UNCHANGED vars
  BY <1>3, <1>5 DEF vars, MeetsAt, Schema
<1>6. ASSUME NEW p \in Procs, StartOpen(p)
      PROVE  MeetsAt(met, n)'
  <2>1. PICK c : c = [pc |-> "check", m |-> 1, s |-> 1]
    OBVIOUS
  <2>2. /\ \A q \in Procs : calls'[q] = IF q = p THEN c ELSE calls[q]
        /\ calls[p].pc \notin {"exec", "record"}
    BY <1>6, <2>1 DEF StartOpen, IInv, Typed
  <2>3. tables' = tables /\ indexes' = indexes /\ ledger' = ledger
    BY <1>6 DEF StartOpen
  <2>4. c.pc = "check"
    BY <2>1
  <2>5. n < LastMigration /\ (\A q \in Procs : q # p => calls[q].pc \notin {"exec", "record"})
            => Schema \in met[n + 1][1]
    BY <1>3, <2>2 DEF MeetsAt
  <2> QED BY <1>3, <2>2, <2>3, <2>4, <2>5, CallMeets
<1>7. ASSUME NEW p \in Procs, Check(p)
      PROVE  MeetsAt(met, n)'
  BY <1>3, <1>4, <1>7, CheckMeets
<1>8. ASSUME NEW p \in Procs, Exec(p)
      PROVE  MeetsAt(met, n)'
  BY <1>3, <1>4, <1>8, ExecMeets
<1>9. ASSUME NEW p \in Procs, Refuse(p)
      PROVE  MeetsAt(met, n)'
  <2>1. calls[p].pc = "exec" /\ Open(p) /\ ~Possible(Schema, Script[calls[p].m][calls[p].s])
    BY <1>9 DEF Refuse, Open, Current
  <2>2. /\ calls[p].m = n + 1 /\ n + 1 \in 1..LastMigration
        /\ calls[p].s \in DOMAIN Script[n + 1] /\ Schema \in met[n + 1][calls[p].s]
    BY <1>3, <1>4, <2>1, InNext
  <2>3. calls[p].m \in C
    BY <2>1, <2>2 DEF Covers
  <2>4. /\ calls' = [calls EXCEPT ![p].pc = "failed"]
        /\ tables' = tables /\ indexes' = indexes /\ ledger' = ledger
    BY <1>9 DEF Refuse
  <2> QED BY <1>3, <1>4, <2>1, <2>3, <2>4, EndMeets
<1>10. ASSUME NEW p \in Procs, Cut(p)
       PROVE  MeetsAt(met, n)'
  <2>1. /\ calls' = [calls EXCEPT ![p].pc = "cut"] /\ Open(p)
        /\ tables' = tables /\ indexes' = indexes /\ ledger' = ledger
        /\ cutIn' = IF calls[p].pc = "record" \/ (calls[p].pc = "exec" /\ calls[p].s > 1)
                    THEN cutIn \cup {calls[p].m} ELSE cutIn
    BY <1>10 DEF Cut
  <2>2. cutIn' \subseteq C
    BY DEF Disturbed
  <2>3. calls[p].pc = "record" \/ (calls[p].pc = "exec" /\ calls[p].s > 1) => calls[p].m \in C
    BY <2>1, <2>2
  <2> QED BY <1>3, <1>4, <2>1, <2>3, EndMeets
<1>11. ASSUME NEW p \in Procs, Record(p)
       PROVE  n + 1 \in 0..LastMigration /\ MeetsAt(met, n + 1)'
  BY <1>3, <1>4, <1>11, RecordMeets
<1>12. ASSUME NEW p \in Procs, Supersede(p)
       PROVE  MeetsAt(met, n)'
  <2>1. 1..LastMigration \subseteq 1..n
    BY <1>3, <1>4, <1>12 DEF Supersede, LedgerFirst, MeetsAt
  <2>2. ~(n < LastMigration)
    BY <2>1, Seventeen
  <2>3. ledger' = ledger /\ indexes' = indexes
    BY <1>12 DEF Supersede
  <2> QED BY <1>3, <2>2, <2>3 DEF MeetsAt
<1> QED
  BY <1>3, <1>5, <1>6, <1>7, <1>8, <1>9, <1>10, <1>11, <1>12 DEF Next

(* A call fails by a statement that is refused. *)
LEMMA FailedIsRefused ==
    ASSUME Typed, [Next]_vars, NEW p \in Procs, calls[p].pc # "failed", calls'[p].pc = "failed"
    PROVE  Refuse(p)
<1>1. ASSUME NEW q \in Procs, NEW c, calls' = [calls EXCEPT ![q] = c], c.pc # "failed"
      PROVE  FALSE
  BY <1>1 DEF Typed
<1>2. CASE UNCHANGED vars
  BY <1>2 DEF vars
<1>3. ASSUME NEW q \in Procs, StartOpen(q)
      PROVE  FALSE
  BY <1>1, <1>3 DEF StartOpen
<1>4. ASSUME NEW q \in Procs, Supersede(q)
      PROVE  FALSE
  BY <1>4 DEF Supersede
<1>5. ASSUME NEW q \in Procs, Record(q)
      PROVE  FALSE
  <2>1. PICK c : calls' = [calls EXCEPT ![q] = c] /\ c = [pc |-> "check", m |-> calls[q].m + 1, s |-> 1]
    BY <1>5 DEF Record
  <2> QED BY <1>1, <2>1
<1>6. ASSUME NEW q \in Procs, Check(q) \/ Exec(q) \/ Cut(q)
      PROVE  FALSE
  <2>1. calls[q] = [pc |-> calls[q].pc, m |-> calls[q].m, s |-> calls[q].s]
    BY DEF Typed, CallOK, IsCall
  <2>2. \A e : [calls[q] EXCEPT !.pc = e].pc = e
    BY <2>1
  <2>3. \E c : calls' = [calls EXCEPT ![q] = c] /\ c.pc # "failed"
    <3>1. CASE Check(q)
      BY <2>2, <3>1 DEF Check
    <3>2. CASE Exec(q)
      BY <2>2, <3>2 DEF Exec
    <3>3. CASE Cut(q)
      BY <2>2, <3>3 DEF Cut
    <3> QED BY <1>6, <3>1, <3>2, <3>3
  <2> QED BY <1>1, <2>3
<1>7. ASSUME NEW q \in Procs, Refuse(q)
      PROVE  q = p
  BY <1>7 DEF Refuse, Typed
<1> QED BY <1>2, <1>3, <1>4, <1>5, <1>6, <1>7 DEF Next

(* The table when only repeatable migrations are cut, and nothing refused. *)
Unrefused ==
    /\ Meets(MetRepeating, Repeatables)
    /\ Disturbed(Repeatables) \/ \A p \in Procs : calls[p].pc # "failed"

(* No statement that comes up is refused (RepeatAssumption). *)
LEMMA StepUnrefused == IInv /\ Settling /\ Unrefused /\ [Next]_vars => Unrefused'
<1> SUFFICES ASSUME IInv, Settling, Unrefused, [Next]_vars PROVE Unrefused' OBVIOUS
<1>1. Meets(MetRepeating, Repeatables)'
  BY RepeatAssumption, StepMeets DEF Unrefused
<1>2. ASSUME ~Disturbed(Repeatables)', NEW p \in Procs, calls'[p].pc = "failed"
      PROVE  FALSE
  <2>1. ~overlap /\ ~Disturbed(Repeatables)
    BY <1>2, Remembered DEF Disturbed
  <2>2. PICK n \in 0..LastMigration : MeetsAt(MetRepeating, n)
    BY <2>1 DEF Unrefused, Meets
  <2>3. OneOpen /\ calls[p].pc # "failed"
    BY <2>1 DEF Settling, Unrefused
  <2>4. Refuse(p)
    BY <1>2, <2>3, FailedIsRefused DEF IInv
  <2>5. calls[p].pc = "exec" /\ ~Possible(Schema, Script[calls[p].m][calls[p].s])
    BY <2>4 DEF Refuse, Current
  <2>6. /\ calls[p].m = n + 1 /\ n + 1 \in 1..LastMigration
        /\ calls[p].s \in DOMAIN Script[n + 1] /\ Schema \in MetRepeating[n + 1][calls[p].s]
    BY <2>2, <2>3, <2>5, InNext
  <2> QED BY <2>5, <2>6, RepeatAssumption
<1> QED BY <1>1, <1>2 DEF Unrefused

(* A statement is refused only after a call was cut inside a migration that alters tables in
   place, or two calls overlapped: opening fails for no reason of its own (New,
   applyMigrations). *)
THEOREM RefusedAfterCut == Spec => []RefusedOnlyAfterCut
<1>1. Init => IInv /\ Settling /\ Unrefused
  <2>1. Init => Meets(MetRepeating, Repeatables)
    BY RepeatAssumption, InitMeets
  <2>2. Init => \A p \in Procs : calls[p].pc # "failed"
    BY DEF Init, NoCall
  <2> QED BY <2>1, <2>2, InitIInv, InitSettling DEF Unrefused
<1>2. IInv /\ Settling /\ Unrefused /\ [Next]_vars => (IInv /\ Settling /\ Unrefused)'
  BY StepIInv, StepSettling, StepUnrefused
<1>3. IInv /\ Unrefused => RefusedOnlyAfterCut
  <2> SUFFICES ASSUME IInv, Unrefused, NEW p \in Procs, calls[p].pc = "failed", ~overlap
               PROVE  \E m \in cutIn : ~Repeatable(m)
    BY DEF RefusedOnlyAfterCut
  <2>1. PICK m \in cutIn : m \notin Repeatables
    BY DEF Unrefused, Disturbed
  <2>2. m \in 1..LastMigration
    BY <2>1 DEF Unrefused, Meets
  <2> QED BY <2>1, <2>2 DEF Repeatables
<1> QED BY <1>1, <1>2, <1>3, PTL DEF Spec

(* The database of the last release has its indexes, and so has what the last migration leaves
   unless 0013 or 0014 was cut (RestoreAssumption). *)
LEMMA MeetsMeansRestored == Settling /\ Meets(MetElsewhere, Elsewhere) => IndexesRestored
<1> SUFFICES ASSUME Settling, Meets(MetElsewhere, Elsewhere), NEW p \in Procs,
                    calls[p].pc = "ready", ~overlap, cutIn \cap {13, 14} = {}
             PROVE  FinalIndexes = DOMAIN indexes
  BY DEF IndexesRestored
<1>1. LedgerFirst /\ cutIn \subseteq 1..LastMigration
  BY DEF Settling, Meets
<1>2. PICK n \in 0..LastMigration : MeetsAt(MetElsewhere, n)
  BY <1>1 DEF Meets, Disturbed, Elsewhere
<1>3. n = LastMigration
  <2>1. 1..LastMigration \subseteq 1..n
    BY <1>1, <1>2 DEF LedgerFirst, MeetsAt
  <2> QED BY <2>1, Seventeen
<1>4. PICK schema \in {Left(LastMigration)}
                       \cup MetElsewhere[LastMigration][Len(Script[LastMigration]) + 1] :
         indexes = schema.indexes
  BY <1>2, <1>3 DEF MeetsAt
<1> QED BY <1>4, RestoreAssumption

(* Every index is there after an open, unless two overlapped or one was cut inside 0013 or
   0014: 0013 alone leaves some of them out, since its CREATE INDEX finds the names taken by the
   tables it has renamed, and 0014 puts them back (migrations 0013 and 0014). *)
THEOREM IndexesAreRestored == Spec => []IndexesRestored
<1>1. Init => IInv /\ Settling /\ Meets(MetElsewhere, Elsewhere)
  BY RestoreAssumption, InitIInv, InitSettling, InitMeets
<1>2. IInv /\ Settling /\ Meets(MetElsewhere, Elsewhere) /\ [Next]_vars
      => (IInv /\ Settling /\ Meets(MetElsewhere, Elsewhere))'
  BY RestoreAssumption, StepIInv, StepSettling, StepMeets
<1>3. Settling /\ Meets(MetElsewhere, Elsewhere) => IndexesRestored
  BY MeetsMeansRestored
<1> QED BY <1>1, <1>2, <1>3, PTL DEF Spec
=============================================================================
