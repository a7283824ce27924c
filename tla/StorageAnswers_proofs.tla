------------------------- MODULE StorageAnswers_proofs -------------------------
(***************************************************************************)
(* Theorems about what the two database adapters answer (StorageParity),   *)
(* on top of those about what they store (Storage_proofs).                 *)
(*                                                                         *)
(* Every query of an adapter is brought to one form that is the same for   *)
(* both: a set of rows taken from keys that both find, put into an order   *)
(* that both compute, and cut at a limit that both clamp.  What the orders *)
(* need of a database, besides agreeing with the other one, is an          *)
(* invariant of its own (Kept).                                            *)
(***************************************************************************)
EXTENDS Storage_proofs

-------------------------------------------------------------------------------
(* What the lookups and the listings need of a database: finitely many rows,
   keys and instants that are numbers, and runs in the order of their numbers and
   of the clock. *)

KeysKept(table) == IsFiniteSet(DOMAIN table) /\ DOMAIN table \in SUBSET Int
PairsKept(table) ==
    IsFiniteSet(DOMAIN table) /\ \A k \in DOMAIN table : k = <<k[1], k[2]>> /\ k[1] \in Int /\ k[2] \in Int
PointersKept(table) ==
    /\ KeysKept(table)
    /\ \A k \in DOMAIN table : table[k].path \in Int /\ (table[k].stale => table[k].staleAt \in Int)
DatesKept(table, c) == \A k \in DOMAIN table : table[k][c] \in Int
NumbersKept(log, next) ==
    /\ IsLog(log) /\ next \in Int
    /\ \A i \in DOMAIN log : log[i].id \in Int /\ log[i].id < next
    /\ \A i, j \in DOMAIN log : i < j => log[i].id < log[j].id
RunsKept(runs, receipts, at) ==
    /\ \A i \in DOMAIN runs : /\ runs[i].created \in Int /\ runs[i].created <= at
                              /\ runs[i].receipt \in DOMAIN receipts
    /\ \A i, j \in DOMAIN runs : i < j => runs[i].created <= runs[j].created

Kept(d, at) ==
    /\ PointersKept(d.pointers)
    /\ KeysKept(d.receipts) /\ DatesKept(d.receipts, "created")
    /\ KeysKept(d.plans) /\ DatesKept(d.plans, "updated")
    /\ PairsKept(d.items) /\ PairsKept(d.tasks)
    /\ NumbersKept(d.runs, d.nextRun) /\ RunsKept(d.runs, d.receipts, at)
    /\ NumbersKept(d.attempts, d.nextAttempt) /\ DatesKept(d.attempts, "created")

LEMMA KeptLater ==
  ASSUME NEW d, NEW at \in Int, NEW later \in Int, at <= later, Kept(d, at)
  PROVE  Kept(d, later)
<1>1. RunsKept(d.runs, d.receipts, later)
  BY DEF Kept, RunsKept
<1> QED BY <1>1 DEF Kept

(* Of a row after the upserts, where it comes from. *)
LEMMA UpsertEachRows ==
  ASSUME NEW table, NEW Cols, IsTable(table, Cols), NEW cols,
         NEW entries, NEW n \in Nat, AreEntries(entries, n, Cols),
         \A i, j \in 1..n : entries[i].key = entries[j].key => i = j,
         NEW u, u = UpsertEach(table, entries, cols), NEW k \in DOMAIN u
  PROVE  \/ k \in DOMAIN table /\ u[k] = table[k]
         \/ \E i \in 1..n : /\ k = entries[i].key
                            /\ \A c \in Cols \cap cols : u[k][c] = entries[i].row[c]
                            /\ \A c \in Cols : u[k][c] = entries[i].row[c]
                                               \/ (k \in DOMAIN table /\ u[k][c] = table[k][c])
<1>1. UpsertedUpTo(u, table, entries, n, cols)
  BY UpsertEachForm
<1>2. CASE \A i \in 1..n : entries[i].key # k
  BY <1>1, <1>2 DEF UpsertedUpTo, EntryKeys
<1>3. CASE \E i \in 1..n : entries[i].key = k
  <2>1. PICK i \in 1..n : entries[i].key = k
    BY <1>3
  <2>2. u[k] = Upserted(table, k, entries[i].row, cols)
    BY <1>1, <2>1 DEF UpsertedUpTo
  <2>3. DOMAIN entries[i].row = Cols
    BY DEF AreEntries
  <2>4. CASE k \notin DOMAIN table
    <3>1. u[k] = entries[i].row BY <2>2, <2>4 DEF Upserted
    <3> QED BY <3>1, <2>1
  <2>5. CASE k \in DOMAIN table
    <3>1. u[k] = [c \in Cols |-> IF c \in cols THEN entries[i].row[c] ELSE table[k][c]]
      BY <2>2, <2>3, <2>5 DEF Upserted
    <3>2. \A c \in Cols : u[k][c] = IF c \in cols THEN entries[i].row[c] ELSE table[k][c]
      BY <3>1
    <3> QED BY <3>2, <2>1, <2>5
  <2> QED BY <2>4, <2>5
<1> QED BY <1>2, <1>3

LEMMA UpsertEachKeys ==
  ASSUME NEW table, NEW Cols, IsTable(table, Cols), NEW cols,
         NEW entries, NEW n \in Nat, AreEntries(entries, n, Cols),
         \A i, j \in 1..n : entries[i].key = entries[j].key => i = j,
         NEW u, u = UpsertEach(table, entries, cols), NEW k \in DOMAIN u
  PROVE  k \in DOMAIN table \/ \E i \in 1..n : k = entries[i].key
BY UpsertEachRows

(* Pointers after upserts that set the columns of staleness. *)
LEMMA PointersUpserted ==
  ASSUME NEW table, IsTable(table, PointerCols), PointersKept(table), NEW cols, {"stale", "staleAt"} \subseteq cols,
         NEW entries, NEW n \in Nat, AreEntries(entries, n, PointerCols),
         \A i, j \in 1..n : entries[i].key = entries[j].key => i = j,
         \A i \in 1..n : /\ entries[i].key \in Int
                         /\ entries[i].row.path \in Int /\ ~ entries[i].row.stale,
         NEW u, u = UpsertEach(table, entries, cols)
  PROVE  PointersKept(u)
<1>1. IsFiniteSet(DOMAIN u)
  BY UpsertEachFinite DEF PointersKept, KeysKept
<1>2. ASSUME NEW k \in DOMAIN u
      PROVE  k \in Int /\ u[k].path \in Int /\ (u[k].stale => u[k].staleAt \in Int)
  <2>1. {"path", "stale", "staleAt"} \subseteq PointerCols
    BY DEF PointerCols
  <2>2. CASE k \in DOMAIN table /\ u[k] = table[k]
    BY <2>2 DEF PointersKept, KeysKept
  <2>3. CASE \E i \in 1..n : /\ k = entries[i].key
                             /\ \A c \in PointerCols \cap cols : u[k][c] = entries[i].row[c]
                             /\ \A c \in PointerCols : u[k][c] = entries[i].row[c]
                                                       \/ (k \in DOMAIN table /\ u[k][c] = table[k][c])
    <3>1. PICK i \in 1..n : /\ k = entries[i].key
                            /\ \A c \in PointerCols \cap cols : u[k][c] = entries[i].row[c]
                            /\ \A c \in PointerCols : u[k][c] = entries[i].row[c]
                                                      \/ (k \in DOMAIN table /\ u[k][c] = table[k][c])
      BY <2>3
    <3>2. u[k].path = entries[i].row.path \/ (k \in DOMAIN table /\ u[k].path = table[k].path)
      BY <2>1, <3>1
    <3>3. u[k].stale = entries[i].row.stale
      BY <2>1, <3>1
    <3> QED BY <3>1, <3>2, <3>3 DEF PointersKept
  <2> QED BY <2>2, <2>3, UpsertEachRows
<1> QED BY <1>1, <1>2 DEF PointersKept, KeysKept

(* One table has changed. *)
LEMMA KeptTables ==
  ASSUME NEW d, IsStore(d), NEW at, Kept(d, at), NEW t \in {"pointers", "items", "candidates", "batches", "results"},
         NEW u, (t = "pointers") => PointersKept(u), (t = "items") => PairsKept(u)
  PROVE  Kept([d EXCEPT ![t] = u], at)
<1>1. PICK e : e = [d EXCEPT ![t] = u]
  OBVIOUS
<1>2. t \in DOMAIN d /\ e[t] = u /\ \A f \in DOMAIN d : f # t => e[f] = d[f]
  BY <1>1 DEF IsStore, Tables
<1>3. {"receipts", "plans", "tasks", "runs", "attempts", "nextRun", "nextAttempt", "pointers", "items"} \subseteq DOMAIN d
  BY DEF IsStore, Tables
<1>4. /\ e.receipts = d.receipts /\ e.plans = d.plans /\ e.tasks = d.tasks /\ e.runs = d.runs
      /\ e.attempts = d.attempts /\ e.nextRun = d.nextRun /\ e.nextAttempt = d.nextAttempt
  BY <1>2, <1>3
<1>5. PointersKept(e.pointers) /\ PairsKept(e.items)
  <2>1. PointersKept(d.pointers) /\ PairsKept(d.items) BY DEF Kept
  <2>2. t = "pointers" => e.pointers = u BY <1>2
  <2>3. t # "pointers" => e.pointers = d.pointers BY <1>2, <1>3
  <2>4. t = "items" => e.items = u BY <1>2
  <2>5. t # "items" => e.items = d.items BY <1>2, <1>3
  <2> QED BY <2>1, <2>2, <2>3, <2>4, <2>5
<1>6. Kept(e, at)
  BY <1>4, <1>5 DEF Kept
<1> QED BY <1>1, <1>6

LEMMA StubsKept ==
  ASSUME NEW d, IsStore(d), NEW at \in Int, Kept(d, at), NEW stubs \in StubLists
  PROVE  Kept(StubsCall(d, stubs, at).db, at)
<1> DEFINE rows == ByKey(Keyed(stubs), Alike)
           e    == StubEntries(rows, at)
           u    == UpsertEach(d.pointers, e, StubCols)
<1>1. stubs \in Seq([key : Optional(Int), path : Int, kind : STRING, text : Text])
  BY InputAssumption
<1>2. Len(stubs) \in Nat /\ DOMAIN stubs = 1..Len(stubs) /\ DOMAIN Keyed(stubs) = 1..Len(stubs)
  BY <1>1 DEF Keyed
<1>3. \A i \in 1..Len(stubs) : Keyed(stubs)[i].key \in Int /\ Keyed(stubs)[i].path \in Int
  <2> SUFFICES ASSUME NEW i \in 1..Len(stubs) PROVE Keyed(stubs)[i].key \in Int /\ Keyed(stubs)[i].path \in Int
    OBVIOUS
  <2>1. stubs[i] \in [key : Optional(Int), path : Int, kind : STRING, text : Text]
    BY <1>1, SeqElements
  <2>2. Keyed(stubs)[i].key = OrElse(stubs[i].key, stubs[i].path) /\ Keyed(stubs)[i].path = stubs[i].path
    BY <1>2, <2>1 DEF Keyed
  <2> QED BY <2>1, <2>2 DEF OrElse, Optional
<1>4. IsOfEachKey(rows, Keyed(stubs))
  BY <1>2, <1>3, ByKeyOnce
<1> HIDE DEF rows
<1>5. PICK m \in Nat : DOMAIN rows = 1..m /\ \A i, j \in 1..m : rows[i].key = rows[j].key => i = j
  BY <1>4 DEF IsOfEachKey
<1>6. \A i \in 1..m : rows[i].key \in Int /\ rows[i].path \in Int
  BY <1>2, <1>3, <1>4, <1>5 DEF IsOfEachKey
<1>7. ASSUME NEW i \in 1..m PROVE e[i].key = rows[i].key /\ e[i].row = StubRow(rows[i], at)
  BY <1>5 DEF StubEntries
<1>8. e = [i \in 1..m |-> e[i]]
  BY <1>5 DEF StubEntries
<1> HIDE DEF e
<1>9. AreEntries(e, m, PointerCols) /\ \A i, j \in 1..m : e[i].key = e[j].key => i = j
  <2>1. \A i \in 1..m : IsRow(e[i].row, PointerCols)
    BY <1>7, StubRowsAgree
  <2> QED BY <1>5, <1>7, <1>8, <2>1 DEF AreEntries, IsRow
<1>10. \A i \in 1..m : e[i].key \in Int /\ e[i].row.path \in Int /\ ~ e[i].row.stale
  <2>1. \A s : StubRow(s, at).path = s.path /\ ~ StubRow(s, at).stale BY DEF StubRow
  <2> QED BY <1>6, <1>7, <2>1
<1>11. IsTable(d.pointers, PointerCols) /\ PointersKept(d.pointers) /\ {"stale", "staleAt"} \subseteq StubCols
  BY DEF IsStore, Tables, Columns, Kept, StubCols
<1>12. PointersKept(u)
  BY <1>9, <1>10, <1>11, PointersUpserted
<1>13. StubsCall(d, stubs, at).db = [d EXCEPT !["pointers"] = u]
  BY DEF StubsCall, Done, rows, e
<1> HIDE DEF u
<1>14. Kept([d EXCEPT !["pointers"] = u], at)
  BY <1>12, KeptTables
<1> QED BY <1>13, <1>14

LEMMA RulesKept ==
  ASSUME NEW d, IsStore(d), NEW at \in Int, Kept(d, at), NEW s \in RuleSyncs
  PROVE  Kept(RulesCall(d, s.source, s.rules, at).db, at)
<1> DEFINE list == s.rules
           rows == ByKey(list, Alike)
           e    == RuleEntries(s.source, rows, at)
           u    == UpsertEach(d.pointers, e, RuleCols)
           gone == MissingRules(u, s.source, rows)
           v    == Delete(u, gone)
<1>1. list \in Seq([key : Int, text : Text]) /\ s.source \in Int
  BY InputAssumption
<1>2. Len(list) \in Nat /\ DOMAIN list = 1..Len(list) /\ \A i \in 1..Len(list) : list[i] \in [key : Int, text : Text]
  BY <1>1, SeqElements
<1>3. \A i \in 1..Len(list) : list[i].key \in Int
  BY <1>2
<1> HIDE DEF list
<1>4. IsOfEachKey(rows, list)
  BY <1>2, <1>3, ByKeyOnce
<1> HIDE DEF rows
<1>5. PICK m \in Nat : DOMAIN rows = 1..m /\ \A i, j \in 1..m : rows[i].key = rows[j].key => i = j
  BY <1>4 DEF IsOfEachKey
<1>6. \A i \in 1..m : rows[i].key \in Int
  BY <1>2, <1>3, <1>4, <1>5 DEF IsOfEachKey
<1>7. ASSUME NEW i \in 1..m PROVE e[i].key = rows[i].key /\ e[i].row = RuleRow(s.source, rows[i], at)
  BY <1>5 DEF RuleEntries
<1>8. e = [i \in 1..m |-> e[i]]
  BY <1>5 DEF RuleEntries
<1> HIDE DEF e
<1>9. AreEntries(e, m, PointerCols) /\ \A i, j \in 1..m : e[i].key = e[j].key => i = j
  <2>1. \A i \in 1..m : IsRow(e[i].row, PointerCols)
    BY <1>7, RuleRowsAgree
  <2> QED BY <1>5, <1>7, <1>8, <2>1 DEF AreEntries, IsRow
<1>10. \A i \in 1..m : e[i].key \in Int /\ e[i].row.path \in Int /\ ~ e[i].row.stale
  <2>1. \A r : RuleRow(s.source, r, at).path = s.source /\ ~ RuleRow(s.source, r, at).stale BY DEF RuleRow
  <2> QED BY <1>1, <1>6, <1>7, <2>1
<1>11. IsTable(d.pointers, PointerCols) /\ PointersKept(d.pointers) /\ {"stale", "staleAt"} \subseteq RuleCols
  BY DEF IsStore, Tables, Columns, Kept, RuleCols
<1>12. PointersKept(u)
  BY <1>9, <1>10, <1>11, PointersUpserted
<1>13. RulesCall(d, s.source, s.rules, at).db = [d EXCEPT !["pointers"] = v]
  BY DEF RulesCall, Done, list, rows, e
<1> HIDE DEF u, gone
<1>14. PointersKept(v)
  <2>1. DOMAIN v \in SUBSET DOMAIN u /\ \A k \in DOMAIN v : v[k] = u[k]
    BY DEF Delete
  <2>2. IsFiniteSet(DOMAIN v)
    BY <1>12, <2>1, FS_Subset DEF PointersKept, KeysKept
  <2> HIDE DEF v
  <2> QED BY <1>12, <2>1, <2>2 DEF PointersKept, KeysKept
<1> HIDE DEF v
<1>15. Kept([d EXCEPT !["pointers"] = v], at)
  BY <1>14, KeptTables
<1> QED BY <1>13, <1>15

LEMMA PointersMarked ==
  ASSUME NEW table, IsTable(table, PointerCols), PointersKept(table), NEW keys, NEW at \in Int
  PROVE  /\ IsTable(Set(table, keys, StaleValues(at)), PointerCols)
         /\ PointersKept(Set(table, keys, StaleValues(at)))
<1> DEFINE u == Set(table, keys, StaleValues(at))
<1>1. /\ IsTable(u, PointerCols) /\ DOMAIN u = DOMAIN table
      /\ \A k \in DOMAIN table : u[k].path = table[k].path /\ (k \notin keys => u[k] = table[k])
  BY MarkedStale
<1>2. ASSUME NEW k \in DOMAIN table, k \in keys PROVE u[k].staleAt = at
  <2>1. u[k] = Joined(StaleValues(at), table[k])
    BY <1>2 DEF Set
  <2>2. "staleAt" \in DOMAIN StaleValues(at) /\ StaleValues(at).staleAt = at
    BY DEF StaleValues
  <2> DEFINE f == StaleValues(at)
  <2> HIDE DEF f
  <2>3. Joined(f, table[k]).staleAt = f.staleAt
    BY <2>2 DEF Joined, f
  <2> QED BY <2>1, <2>2, <2>3 DEF f
<1> HIDE DEF u
<1>3. PointersKept(u)
  BY <1>1, <1>2 DEF PointersKept, KeysKept
<1> QED BY <1>1, <1>3 DEF u

LEMMA SyncKept ==
  ASSUME NEW d, IsStore(d), NEW at \in Int, Kept(d, at), NEW input
  PROVE  Kept(SyncCall(d, input, at).db, at)
<1> DEFINE paths  == SyncPaths(input)
           first  == WithDeleted(d.pointers, paths, at)
           second == WithMissing(first, input.mode, paths, at)
           third  == WithRefreshed(second, paths, at)
           fresh  == FreshPaths(third, d.candidates, input.insertNew, paths)
           last   == WithFresh(d.candidates, fresh, paths, at)
<1>1. IsTable(d.pointers, PointerCols) /\ PointersKept(d.pointers)
  BY DEF IsStore, Tables, Columns, Kept
<1>2. IsTable(first, PointerCols) /\ PointersKept(first)
  <2> HIDE DEF paths
  <2> QED BY <1>1, PointersMarked DEF WithDeleted
<1>3. IsTable(second, PointerCols) /\ PointersKept(second)
  <2> HIDE DEF paths, first
  <2> QED BY <1>2, PointersMarked DEF WithMissing
<1>4. PointersKept(third)
  <2> HIDE DEF paths, second
  <2>1. /\ DOMAIN third = DOMAIN second
        /\ \A k \in DOMAIN second :
              /\ third[k].path = second[k].path
              /\ k \in HitBy(second, paths) => ~ third[k].stale
              /\ k \notin HitBy(second, paths) => third[k] = second[k]
    BY <1>3, RefreshedOnce
  <2> HIDE DEF third
  <2> QED BY <1>3, <2>1 DEF PointersKept, KeysKept
<1>5. SyncCall(d, input, at).db = [[d EXCEPT !["pointers"] = third] EXCEPT !["candidates"] = last]
  BY DEF SyncCall, Done, paths, first, second, third, fresh
<1> HIDE DEF third, last
<1>6. PICK e : e = [d EXCEPT !["pointers"] = third]
  OBVIOUS
<1>7. Kept(e, at)
  BY <1>4, <1>6, KeptTables
<1>8. [e EXCEPT !["candidates"] = last] = [d EXCEPT !["pointers"] = third, !["candidates"] = last]
  BY <1>6
<1>9. PICK r : r = [e EXCEPT !["candidates"] = last]
  OBVIOUS
<1>10. \A f \in DOMAIN d : f # "candidates" => r[f] = e[f]
  BY <1>6, <1>9
<1>11. {"receipts", "plans", "tasks", "runs", "attempts", "nextRun", "nextAttempt", "pointers", "items"} \subseteq DOMAIN d
  BY DEF IsStore, Tables
<1>12. Kept(r, at)
  BY <1>7, <1>10, <1>11 DEF Kept
<1> QED BY <1>5, <1>6, <1>9, <1>12

(* A receipt that is upserted keeps the instant it was made at. *)
LEMMA ReceiptsUpserted ==
  ASSUME NEW table, IsTable(table, Columns.receipts), KeysKept(table), DatesKept(table, "created"),
         NEW key \in Int, NEW row, IsRow(row, Columns.receipts), row.created \in Int, NEW cols, "created" \notin cols,
         NEW u, u = Upsert(table, key, row, cols)
  PROVE  KeysKept(u) /\ DatesKept(u, "created") /\ DOMAIN table \in SUBSET DOMAIN u /\ key \in DOMAIN u
<1>1. DOMAIN u = DOMAIN table \cup {key}
  BY DEF Upsert
<1>2. IsFiniteSet(DOMAIN u)
  <2>1. IsFiniteSet({key}) BY FS_Singleton
  <2> QED BY <1>1, <2>1, FS_Union DEF KeysKept
<1>3. ASSUME NEW k \in DOMAIN u PROVE u[k]["created"] \in Int
  <2>1. "created" \in Columns.receipts /\ DOMAIN row = Columns.receipts
    BY DEF Columns, IsRow
  <2>2. CASE k # key
    BY <1>1, <2>2 DEF Upsert, DatesKept
  <2>3. CASE k = key /\ key \notin DOMAIN table
    BY <2>3 DEF Upsert
  <2>4. CASE k = key /\ key \in DOMAIN table
    <3>1. u[k] = [c \in Columns.receipts |-> IF c \in cols THEN row[c] ELSE table[key][c]]
      BY <2>1, <2>4 DEF Upsert
    <3>2. u[k]["created"] = table[key]["created"]
      BY <2>1, <3>1
    <3> QED BY <2>4, <3>2 DEF DatesKept
  <2> QED BY <2>2, <2>3, <2>4
<1> QED BY <1>1, <1>2, <1>3 DEF KeysKept, DatesKept

LEMMA ScopeKept ==
  ASSUME NEW d, IsStore(d), NEW at \in Int, Kept(d, at), NEW input \in ScopeInputs
  PROVE  Kept(ScopeCall(d, input, at).db, at)
<1> DEFINE s == ReceiptScope(input)
           row == ScopeRow(s, at)
           u == Upsert(d.receipts, s.key, row, ScopeCols)
<1>1. s.key \in Int
  <2>1. input.key \in Int /\ s.key = input.key
    BY InputAssumption DEF ReceiptScope
  <2> QED BY <2>1
<1>2. IsRow(row, Columns.receipts) /\ row.created = at
  BY DEF IsRow, ScopeRow, Columns
<1>3. IsTable(d.receipts, Columns.receipts) /\ KeysKept(d.receipts) /\ DatesKept(d.receipts, "created")
  BY DEF IsStore, Tables, Kept
<1>4. "created" \notin ScopeCols
  BY DEF ScopeCols
<1>5. ScopeCall(d, input, at).db = [d EXCEPT !["receipts"] = u]
  BY DEF ScopeCall, Done
<1> HIDE DEF s, row
<1>6. KeysKept(u) /\ DatesKept(u, "created") /\ DOMAIN d.receipts \in SUBSET DOMAIN u
  BY <1>1, <1>2, <1>3, <1>4, ReceiptsUpserted
<1> HIDE DEF u
<1>7. PICK e : e = [d EXCEPT !["receipts"] = u]
  OBVIOUS
<1>8. Kept(e, at)
  <2>1. e.receipts = u /\ \A f \in DOMAIN d : f # "receipts" => e[f] = d[f]
    BY <1>7 DEF IsStore, Tables
  <2>2. {"receipts", "plans", "tasks", "runs", "attempts", "nextRun", "nextAttempt", "pointers", "items"} \subseteq DOMAIN d
    BY DEF IsStore, Tables
  <2>3. RunsKept(e.runs, e.receipts, at)
    BY <1>6, <2>1, <2>2 DEF Kept, RunsKept
  <2> QED BY <1>6, <2>1, <2>2, <2>3 DEF Kept
<1> QED BY <1>5, <1>7, <1>8

(* A row that is appended with the next number. *)
LEMMA NumberAppended ==
  ASSUME NEW log, NEW Cols, IsTable(log, Cols), NEW next \in Nat, NumbersKept(log, next), NEW row, row.id = next
  PROVE  /\ NumbersKept(Append(log, row), next + 1)
         /\ \E n \in Nat : /\ DOMAIN log = 1..n /\ DOMAIN Append(log, row) = 1..(n + 1)
                           /\ \A i \in 1..n : Append(log, row)[i] = log[i]
                           /\ Append(log, row)[n + 1] = row
<1>1. PICK n \in Nat : DOMAIN log = 1..n
  BY DEF NumbersKept, IsLog
<1> DEFINE u == Append(log, row)
<1>2. /\ DOMAIN u = 1..(n+1) /\ \A i \in 1..n : u[i] = log[i]
      /\ u[n+1] = row
  BY <1>1, AppendForm
<1> HIDE DEF u
<1>3. IsLog(u)
  BY <1>2 DEF IsLog
<1>4. \A i \in 1..n : log[i].id \in Int /\ log[i].id < next
  BY <1>1 DEF NumbersKept
<1>5. \A i, j \in 1..n : i < j => log[i].id < log[j].id
  BY <1>1 DEF NumbersKept
<1>6. \A i \in 1..(n+1) : i \in 1..n \/ i = n + 1
  OBVIOUS
<1>7. \A i \in 1..(n+1) : u[i].id \in Int /\ u[i].id < next + 1
  BY <1>2, <1>4, <1>6
<1>8. ASSUME NEW i \in 1..(n+1), NEW j \in 1..(n+1), i < j PROVE u[i].id < u[j].id
  <2>1. i \in 1..n BY <1>8
  <2>2. CASE j \in 1..n BY <1>2, <1>5, <1>8, <2>1, <2>2
  <2>3. CASE j = n + 1 BY <1>2, <1>4, <2>1, <2>3
  <2> QED BY <1>6, <2>2, <2>3
<1>9. NumbersKept(u, next + 1)
  BY <1>2, <1>3, <1>7, <1>8 DEF NumbersKept
<1> QED BY <1>1, <1>2, <1>9 DEF u

LEMMA RunKept ==
  ASSUME NEW d, IsStore(d), d.nextRun \in Nat, NEW at \in Int, Kept(d, at), NEW input \in RunInputs
  PROVE  Kept(RunCall(d, input, at).db, at)
<1> DEFINE s   == RunSummary(input)
           row == RunReceipt(s, at)
           u   == Upsert(d.receipts, s.key, row, RunReceiptCols)
           run == NewRun(s, d.nextRun, at)
           ur  == Append(d.runs, run)
<1>1. s.key \in Int
  <2>1. input.key \in Int /\ s.key = input.key
    BY InputAssumption DEF RunSummary
  <2> QED BY <2>1
<1>2. IsRow(row, Columns.receipts) /\ row.created = at
  BY DEF IsRow, RunReceipt, Columns
<1>2a. run.id = d.nextRun /\ run.created = at /\ run.receipt = s.key
  BY DEF NewRun
<1>3. /\ IsTable(d.receipts, Columns.receipts) /\ KeysKept(d.receipts) /\ DatesKept(d.receipts, "created")
      /\ IsTable(d.runs, Columns.runs) /\ NumbersKept(d.runs, d.nextRun) /\ RunsKept(d.runs, d.receipts, at)
  BY DEF IsStore, Tables, Kept
<1>4. "created" \notin RunReceiptCols
  BY DEF RunReceiptCols
<1>5. RunCall(d, input, at).db =
         [d EXCEPT !["receipts"] = u, !["runs"] = ur, !["nextRun"] = d.nextRun + 1]
  BY DEF RunCall, Done
<1> HIDE DEF s, row, run
<1>6. KeysKept(u) /\ DatesKept(u, "created") /\ DOMAIN d.receipts \in SUBSET DOMAIN u /\ s.key \in DOMAIN u
  BY <1>1, <1>2, <1>3, <1>4, ReceiptsUpserted
<1>7. /\ NumbersKept(ur, d.nextRun + 1)
      /\ \E n \in Nat : /\ DOMAIN d.runs = 1..n /\ DOMAIN ur = 1..(n + 1)
                        /\ \A i \in 1..n : ur[i] = d.runs[i]
                        /\ ur[n + 1] = run
  BY <1>2a, <1>3, NumberAppended
<1> HIDE DEF u, ur
<1>8. RunsKept(ur, u, at)
  <2>1. PICK n \in Nat : /\ DOMAIN d.runs = 1..n /\ DOMAIN ur = 1..(n + 1)
                         /\ \A i \in 1..n : ur[i] = d.runs[i]
                         /\ ur[n + 1] = run
    BY <1>7
  <2>2. \A i \in 1..(n+1) : i \in 1..n \/ i = n + 1
    OBVIOUS
  <2>3. \A i \in 1..n : ur[i].created \in Int /\ ur[i].created <= at /\ ur[i].receipt \in DOMAIN u
    BY <1>3, <1>6, <2>1 DEF RunsKept
  <2>4. \A i \in 1..(n+1) : ur[i].created \in Int /\ ur[i].created <= at /\ ur[i].receipt \in DOMAIN u
    BY <1>2a, <1>6, <2>1, <2>2, <2>3
  <2>5. ASSUME NEW i \in 1..(n+1), NEW j \in 1..(n+1), i < j PROVE ur[i].created <= ur[j].created
    <3>1. i \in 1..n BY <2>5
    <3>2. CASE j \in 1..n BY <1>3, <2>1, <2>5, <3>1, <3>2 DEF RunsKept
    <3>3. CASE j = n + 1 BY <1>2a, <2>1, <2>3, <3>1, <3>3
    <3> QED BY <2>2, <3>2, <3>3
  <2> QED BY <2>1, <2>4, <2>5 DEF RunsKept
<1>9. PICK e : e = [d EXCEPT !["receipts"] = u, !["runs"] = ur, !["nextRun"] = d.nextRun + 1]
  OBVIOUS
<1>10. Kept(e, at)
  <2>1. e.receipts = u /\ e.runs = ur /\ e.nextRun = d.nextRun + 1
        /\ \A f \in DOMAIN d : f \notin {"receipts", "runs", "nextRun"} => e[f] = d[f]
    BY <1>9 DEF IsStore, Tables
  <2>2. {"receipts", "plans", "tasks", "runs", "attempts", "nextRun", "nextAttempt", "pointers", "items"} \subseteq DOMAIN d
    BY DEF IsStore, Tables
  <2> QED BY <1>6, <1>7, <1>8, <2>1, <2>2 DEF Kept
<1> QED BY <1>5, <1>9, <1>10

(* Pairs after upserts of pairs. *)
LEMMA PairsUpserted ==
  ASSUME NEW table, NEW Cols, IsTable(table, Cols), PairsKept(table), NEW cols,
         NEW entries, NEW n \in Nat, AreEntries(entries, n, Cols),
         \A i, j \in 1..n : entries[i].key = entries[j].key => i = j,
         NEW a \in Int, \A i \in 1..n : \E b \in Int : entries[i].key = <<a, b>>,
         NEW u, u = UpsertEach(table, entries, cols)
  PROVE  PairsKept(u)
<1>1. IsFiniteSet(DOMAIN u)
  BY UpsertEachFinite DEF PairsKept
<1>2. ASSUME NEW k \in DOMAIN u PROVE k = <<k[1], k[2]>> /\ k[1] \in Int /\ k[2] \in Int
  <2>1. k \in DOMAIN table \/ \E i \in 1..n : k = entries[i].key
    BY UpsertEachKeys
  <2>2. CASE k \in DOMAIN table BY <2>2 DEF PairsKept
  <2>3. CASE \E i \in 1..n : k = entries[i].key
    <3>1. PICK b \in Int : k = <<a, b>> BY <2>3
    <3> QED BY <3>1
  <2> QED BY <2>1, <2>2, <2>3
<1> QED BY <1>1, <1>2 DEF PairsKept

LEMMA ItemsKept ==
  ASSUME NEW d, IsStore(d), NEW at \in Int, Kept(d, at), NEW input \in ItemInputs
  PROVE  Kept(ItemsCall(d, input.receipt, input.list, at).db, at)
<1> DEFINE rows == WorkItems(input.list)
           e    == ItemEntries(input.receipt, rows, at)
           u    == UpsertEach(d.items, e, ItemCols)
<1>1. CASE input.list = <<>> \/ input.receipt \notin DOMAIN d.receipts
  <2>1. ItemsCall(d, input.receipt, input.list, at).db = d
    BY <1>1 DEF ItemsCall, Failed
  <2> QED BY <2>1
<1>2. CASE ~ (input.list = <<>> \/ input.receipt \notin DOMAIN d.receipts)
  <2>1. ItemsCall(d, input.receipt, input.list, at).db = [d EXCEPT !["items"] = u]
    BY <1>2 DEF ItemsCall, Done
  <2>2. input.list \in Seq([key : Int, status : Statuses]) /\ input.receipt \in Int
    BY InputAssumption
  <2>3. Len(input.list) \in Nat /\ DOMAIN input.list = 1..Len(input.list)
        /\ \A i \in 1..Len(input.list) : input.list[i] \in [key : Int, status : Statuses]
    BY <2>2, SeqElements
  <2>4. \A i \in 1..Len(input.list) : input.list[i].key \in Int
    BY <2>3
  <2>5. IsOfEachKey(rows, input.list) BY <2>3, <2>4, ByKeyOnce DEF WorkItems
  <2> HIDE DEF rows
  <2>6. PICK m \in Nat : DOMAIN rows = 1..m /\ \A i, j \in 1..m : rows[i].key = rows[j].key => i = j
    BY <2>5 DEF IsOfEachKey
  <2>7. \A i \in 1..m : rows[i].key \in Int
    BY <2>3, <2>4, <2>5, <2>6 DEF IsOfEachKey
  <2>8. ASSUME NEW i \in 1..m
        PROVE  e[i].key = <<input.receipt, rows[i].key>> /\ e[i].row = ItemRow(rows[i].status, at)
    BY <2>6 DEF ItemEntries, ItemRow
  <2>9. e = [i \in 1..m |-> e[i]]
    BY <2>6 DEF ItemEntries
  <2> HIDE DEF e
  <2>10. AreEntries(e, m, Columns.items) /\ \A i, j \in 1..m : e[i].key = e[j].key => i = j
    <3>1. \A i \in 1..m : IsRow(e[i].row, Columns.items)
      BY <2>8, ItemRowsAgree
    <3> QED BY <2>6, <2>8, <2>9, <3>1 DEF AreEntries, IsRow
  <2>11. \A i \in 1..m : \E b \in Int : e[i].key = <<input.receipt, b>>
    BY <2>7, <2>8
  <2>12. IsTable(d.items, Columns.items) /\ PairsKept(d.items)
    BY DEF IsStore, Tables, Kept
  <2>13. PairsKept(u)
    BY <2>2, <2>10, <2>11, <2>12, PairsUpserted
  <2> HIDE DEF u
  <2>14. Kept([d EXCEPT !["items"] = u], at)
    BY <2>13, KeptTables
  <2> QED BY <2>1, <2>14
<1> QED BY <1>1, <1>2

LEMMA TasksWrittenKept ==
  ASSUME NEW d, IsStore(d), NEW at \in Int, PairsKept(d.tasks), NEW input \in PlanInputs
  PROVE  PairsKept(TasksWritten(d.tasks, d, input, at))
<1> DEFINE stored == StoredTasks(d, input)
           rows == IncomingTasks(stored, input)
           e    == TaskEntries(input.key, rows, at)
           t    == Delete(d.tasks, DoomedTasks(d, input))
           u    == UpsertEach(t, e, TaskCols)
<1>1. TasksWritten(d.tasks, d, input, at) = u
  BY DEF TasksWritten
<1>2. IncomingOnce(rows, input.tasks)
  <2>1. TasksAlike(stored, stored) BY DEF TasksAlike, TaskAlike
  <2> HIDE DEF stored
  <2> QED BY <2>1, IncomingAlike
<1> HIDE DEF stored, rows
<1>3. PICK m \in Nat : DOMAIN rows = 1..m /\ \A i, j \in 1..m : rows[i].key = rows[j].key => i = j
  BY <1>2 DEF IncomingOnce
<1>4. input.key \in Int /\ KeysOf(input.tasks) \in SUBSET Int
  <2> DEFINE X == [key : Int, status : Optional(Statuses), text : Text, reason : Optional(STRING)]
  <2>1. input.tasks \in Seq(X) /\ input.key \in Int
    BY InputAssumption
  <2>2. Len(input.tasks) \in Nat /\ DOMAIN input.tasks = 1..Len(input.tasks)
        /\ \A i \in 1..Len(input.tasks) : input.tasks[i] \in X
    <3> HIDE DEF X
    <3> QED BY <2>1, SeqElements
  <2>3. \A i \in 1..Len(input.tasks) : input.tasks[i].key \in Int
    BY <2>2
  <2> QED BY <2>1, <2>2, <2>3 DEF KeysOf
<1>5. \A i \in 1..m : rows[i].key \in Int
  BY <1>2, <1>3, <1>4 DEF IncomingOnce
<1>6. EntriesAgree(TaskEntries(input.key, rows, LiteTime(at)), e, m, Columns.tasks)
  BY <1>3, TaskEntriesAgree
<1>7. AreEntries(e, m, Columns.tasks)
  BY <1>6 DEF EntriesAgree
<1>8. \A i \in 1..m : e[i].key = <<input.key, rows[i].key>>
  BY <1>3 DEF TaskEntries
<1> HIDE DEF e
<1>9. \A i \in 1..m : \E b \in Int : e[i].key = <<input.key, b>>
  BY <1>5, <1>8
<1>10. \A i, j \in 1..m : e[i].key = e[j].key => i = j
  BY <1>3, <1>8
<1>11. IsTable(t, Columns.tasks) /\ PairsKept(t)
  <2>1. IsTable(d.tasks, Columns.tasks) /\ PairsKept(d.tasks)
    BY DEF IsStore, Tables
  <2>2. DOMAIN t \in SUBSET DOMAIN d.tasks /\ t = [k \in DOMAIN t |-> t[k]] /\ \A k \in DOMAIN t : t[k] = d.tasks[k]
    BY DEF Delete
  <2> HIDE DEF t
  <2>3. IsFiniteSet(DOMAIN t)
    BY <2>1, <2>2, FS_Subset DEF PairsKept
  <2>4. IsTable(t, Columns.tasks)
    BY <2>1, <2>2 DEF IsTable
  <2> QED BY <2>1, <2>2, <2>3, <2>4 DEF PairsKept
<1> HIDE DEF t
<1>12. PairsKept(u)
  BY <1>4, <1>7, <1>9, <1>10, <1>11, PairsUpserted
<1> QED BY <1>1, <1>12

(* A plan's row is dated by its last call. *)
LEMMA PlanTableKept ==
  ASSUME NEW d, IsStore(d), NEW at \in Int, KeysKept(d.plans), DatesKept(d.plans, "updated"), NEW input \in PlanInputs
  PROVE  KeysKept(PlanTable(d, input, at)) /\ DatesKept(PlanTable(d, input, at), "updated")
<1> DEFINE row == PlanRow(NextPlan(PlanNow(d, input), input), at)
           u   == Upsert(d.plans, input.key, row, PlanCols)
<1>1. PlanTable(d, input, at) = u
  BY DEF PlanTable
<1>2. input.key \in Int
  BY InputAssumption
<1>3. IsRow(row, Columns.plans) /\ row.updated = at
  <2>1. IsRow(row, Columns.plans)
    BY PlanRowsAgree
  <2>2. PICK next : next = NextPlan(PlanNow(d, input), input)
    OBVIOUS
  <2>3. "updated" \notin DOMAIN next
    BY <2>2 DEF NextPlan
  <2>4. row.updated = at
    BY <2>2, <2>3 DEF PlanRow, Joined
  <2> QED BY <2>1, <2>4
<1> HIDE DEF row
<1>4. DOMAIN u = DOMAIN d.plans \cup {input.key}
  BY DEF Upsert
<1>5. IsFiniteSet(DOMAIN u)
  <2>1. IsFiniteSet({input.key}) BY FS_Singleton
  <2> QED BY <1>4, <2>1, FS_Union DEF KeysKept
<1>6. ASSUME NEW k \in DOMAIN u PROVE u[k]["updated"] \in Int
  <2>1. "updated" \in Columns.plans /\ DOMAIN row = Columns.plans /\ "updated" \in PlanCols
    BY <1>3 DEF Columns, IsRow, PlanCols
  <2>2. CASE k # input.key
    BY <1>4, <2>2 DEF Upsert, DatesKept
  <2>3. CASE k = input.key
    <3>1. u[k]["updated"] = at
      BY <1>3, <2>1, <2>3 DEF Upsert
    <3> QED BY <3>1
  <2> QED BY <2>2, <2>3
<1> HIDE DEF u
<1> QED BY <1>1, <1>2, <1>4, <1>5, <1>6 DEF KeysKept, DatesKept

LEMMA PlanKept ==
  ASSUME NEW d, IsStore(d), NEW at \in Int, Kept(d, at), NEW input \in PlanInputs
  PROVE  Kept(PlanCall(d, input, at).db, at)
<1> DEFINE r == PlanCall(d, input, at).db
           u == PlanTable(d, input, at)
           x == TasksWritten(d.tasks, d, input, at)
<1>1. {"receipts", "plans", "tasks", "runs", "attempts", "nextRun", "nextAttempt", "pointers", "items"} \subseteq DOMAIN d
  BY DEF IsStore, Tables
<1>2. /\ \A f \in DOMAIN d : f \notin {"plans", "tasks"} => r[f] = d[f]
      /\ r.tasks = x
      /\ input.status # Blank => r.plans = u
      /\ input.status = Blank => r.plans = WithStatus(u, input.key, DerivePlanStatus(StatusesAt(r, input.key)))
  BY <1>1, PlanCallTables
<1>3. PairsKept(x)
  BY TasksWrittenKept DEF Kept
<1>4. KeysKept(u) /\ DatesKept(u, "updated")
  BY PlanTableKept DEF Kept
<1> HIDE DEF r, u, x
<1>5. ASSUME NEW s PROVE KeysKept(WithStatus(u, input.key, s)) /\ DatesKept(WithStatus(u, input.key, s), "updated")
  <2> DEFINE w == WithStatus(u, input.key, s)
  <2>1. DOMAIN w = DOMAIN u
        /\ \A k \in DOMAIN u : w[k] = IF k = input.key THEN [u[k] EXCEPT !.status = s] ELSE u[k]
    BY DEF WithStatus
  <2> HIDE DEF w
  <2>2. ASSUME NEW k \in DOMAIN u PROVE w[k]["updated"] = u[k]["updated"]
    <3>1. CASE k = input.key
      <4>1. w[k] = [u[k] EXCEPT !.status = s] BY <2>1, <3>1
      <4> QED BY <4>1
    <3>2. CASE k # input.key BY <2>1, <3>2
    <3> QED BY <3>1, <3>2
  <2>3. KeysKept(w) /\ DatesKept(w, "updated")
    BY <1>4, <2>1, <2>2 DEF KeysKept, DatesKept
  <2> QED BY <2>3 DEF w
<1>6. KeysKept(r.plans) /\ DatesKept(r.plans, "updated")
  BY <1>2, <1>4, <1>5
<1>7. Kept(r, at)
  BY <1>1, <1>2, <1>3, <1>6 DEF Kept
<1> QED BY <1>7 DEF r

LEMMA AttemptStored ==
  ASSUME NEW d, IsStore(d), d.nextAttempt \in Nat, NEW at, Kept(d, at), NEW input, NEW created \in Int,
         NEW u, u = Append(d.attempts, NewAttempt(input, d.nextAttempt, created))
  PROVE  Kept([d EXCEPT !["attempts"] = u, !["nextAttempt"] = d.nextAttempt + 1], at)
<1> DEFINE row == NewAttempt(input, d.nextAttempt, created)
<1>1. row.id = d.nextAttempt /\ row.created = created
  BY DEF NewAttempt
<1>2. IsTable(d.attempts, Columns.attempts) /\ NumbersKept(d.attempts, d.nextAttempt) /\ DatesKept(d.attempts, "created")
  BY DEF IsStore, Tables, Kept
<1>2a. u = Append(d.attempts, row)
  OBVIOUS
<1> HIDE DEF row
<1>3. /\ NumbersKept(u, d.nextAttempt + 1)
      /\ \E n \in Nat : /\ DOMAIN d.attempts = 1..n /\ DOMAIN u = 1..(n + 1)
                        /\ \A i \in 1..n : u[i] = d.attempts[i]
                        /\ u[n + 1] = row
  <2>1. PICK log, next, Cols : log = d.attempts /\ next = d.nextAttempt /\ Cols = Columns.attempts
    OBVIOUS
  <2>2. /\ NumbersKept(Append(log, row), next + 1)
        /\ \E n \in Nat : /\ DOMAIN log = 1..n /\ DOMAIN Append(log, row) = 1..(n + 1)
                          /\ \A i \in 1..n : Append(log, row)[i] = log[i]
                          /\ Append(log, row)[n + 1] = row
    BY <1>1, <1>2, <2>1, NumberAppended
  <2> QED BY <1>2a, <2>1, <2>2
<1>4. DatesKept(u, "created")
  <2>1. PICK n \in Nat : /\ DOMAIN d.attempts = 1..n /\ DOMAIN u = 1..(n + 1)
                         /\ \A i \in 1..n : u[i] = d.attempts[i]
                         /\ u[n + 1] = row
    BY <1>3
  <2>2. \A i \in 1..(n+1) : i \in 1..n \/ i = n + 1
    OBVIOUS
  <2> QED BY <1>1, <1>2, <2>1, <2>2 DEF DatesKept
<1>5. PICK e : e = [d EXCEPT !["attempts"] = u, !["nextAttempt"] = d.nextAttempt + 1]
  OBVIOUS
<1>6. /\ e.attempts = u /\ e.nextAttempt = d.nextAttempt + 1
      /\ \A f \in DOMAIN d : f \notin {"attempts", "nextAttempt"} => e[f] = d[f]
  BY <1>5 DEF IsStore, Tables
<1>7. {"receipts", "plans", "tasks", "runs", "attempts", "nextRun", "nextAttempt", "pointers", "items"} \subseteq DOMAIN d
  BY DEF IsStore, Tables
<1>8. Kept(e, at)
  BY <1>3, <1>4, <1>6, <1>7 DEF Kept
<1> QED BY <1>5, <1>8

LEMMA NumbersLater ==
  ASSUME NEW log, NEW next, NumbersKept(log, next), NEW a \in {0, 1}
  PROVE  NumbersKept(log, next + a)
<1>1. next \in Int /\ next + a \in Int /\ next <= next + a
  BY DEF NumbersKept
<1>2. \A i \in DOMAIN log : log[i].id \in Int /\ log[i].id < next + a
  <2> SUFFICES ASSUME NEW i \in DOMAIN log PROVE log[i].id \in Int /\ log[i].id < next + a
    OBVIOUS
  <2>1. log[i].id \in Int /\ log[i].id < next
    BY DEF NumbersKept
  <2> QED BY <1>1, <2>1
<1> QED BY <1>1, <1>2 DEF NumbersKept

(* A number that is drawn and not used. *)
LEMMA NumberLost ==
  ASSUME NEW d, IsStore(d), NEW at, Kept(d, at), NEW e,
         \A f \in Tables : e[f] = d[f], NEW a \in {0, 1}, NEW b \in {0, 1},
         e.nextRun = d.nextRun + a, e.nextAttempt = d.nextAttempt + b
  PROVE  Kept(e, at)
<1>1. {"receipts", "plans", "tasks", "runs", "attempts", "pointers", "items"} \subseteq Tables
  BY DEF Tables
<1>2. NumbersKept(e.runs, e.nextRun)
  <2>1. e.runs = d.runs /\ NumbersKept(d.runs, d.nextRun) BY <1>1 DEF Kept
  <2> QED BY <2>1, NumbersLater
<1>3. NumbersKept(e.attempts, e.nextAttempt)
  <2>1. e.attempts = d.attempts /\ NumbersKept(d.attempts, d.nextAttempt) BY <1>1 DEF Kept
  <2> QED BY <2>1, NumbersLater
<1> QED BY <1>1, <1>2, <1>3 DEF Kept

(* A second, and the ticks in it. *)
LEMMA WholeSeconds ==
  ASSUME NEW x \in Int
  PROVE  /\ LiteTime(x) \in Int /\ TicksPerSecond \in Int
         /\ LiteTime(x) * TicksPerSecond <= x /\ x < LiteTime(x) * TicksPerSecond + TicksPerSecond
<1>1. TicksPerSecond \in Nat /\ TicksPerSecond > 0
  BY ParityAssumption
<1>2. ASSUME NEW T \in Nat, T > 0 PROVE x \div T \in Int /\ (x \div T) * T <= x /\ x < (x \div T) * T + T
  BY <1>2
<1> QED BY <1>1, <1>2 DEF LiteTime

LEMMA SecondsReached ==
  ASSUME NEW x \in Int, NEW y \in Int, NEW p \in Int, NEW q \in Int, x <= y,
         p * TicksPerSecond <= x, y < q * TicksPerSecond + TicksPerSecond
  PROVE  p <= q
<1>1. TicksPerSecond \in Nat /\ TicksPerSecond > 0
  BY ParityAssumption
<1>2. ASSUME NEW T \in Nat, T > 0, p * T <= x, y < q * T + T, q + 1 <= p PROVE FALSE
  <2>1. (q + 1) * T <= p * T BY <1>2
  <2>2. (q + 1) * T = q * T + T BY <1>2
  <2>3. p * T \in Int /\ q * T \in Int BY <1>2
  <2> QED BY <1>2, <2>1, <2>2, <2>3
<1>3. ~ (q + 1 <= p)
  BY <1>1, <1>2
<1> QED BY <1>3

LEMMA SecondsGrow ==
  ASSUME NEW x \in Int, NEW y \in Int, x <= y
  PROVE  LiteTime(x) <= LiteTime(y)
<1>1. LiteTime(x) \in Int /\ LiteTime(y) \in Int /\ LiteTime(x) * TicksPerSecond <= x
      /\ y < LiteTime(y) * TicksPerSecond + TicksPerSecond
  BY WholeSeconds
<1> QED BY <1>1, SecondsReached

LEMMA AttemptKept ==
  ASSUME NEW l, NEW p, StoresMatch(l, p), NEW a, NEW b, Kept(l, a), Kept(p, b), NEW input, input.created \in Int
  PROVE  Kept(Lite!SaveReviewAttempt(l, input).db, a) /\ Kept(Pg!SaveReviewAttempt(p, input).db, b)
<1> DEFINE u == Append(l.attempts, NewAttempt(input, l.nextAttempt, LiteTime(input.created)))
           v == Append(p.attempts, NewAttempt(input, p.nextAttempt, input.created))
<1>1. /\ IsStore(l) /\ IsStore(p) /\ l.nextAttempt \in Nat /\ p.nextAttempt \in Nat
      /\ DOMAIN l.receipts = DOMAIN p.receipts
  BY MatchingStores DEF StoresMatch, Tables, TablesAgree
<1>2. CASE ~ AttemptAccepted(input)
  <2>1. Lite!SaveReviewAttempt(l, input) = Failed(l) /\ Pg!SaveReviewAttempt(p, input) = Failed(p)
    BY <1>2 DEF Lite!SaveReviewAttempt, Lite!AttemptAccepted, Lite!Failed,
                Pg!SaveReviewAttempt, Pg!AttemptAccepted, Pg!Failed, AttemptAccepted, Failed
  <2> QED BY <2>1 DEF Failed
<1>3. CASE AttemptAccepted(input) /\ input.receipt \notin DOMAIN l.receipts
  <2>1. Lite!SaveReviewAttempt(l, input) = Failed(l)
    BY <1>3 DEF Lite!SaveReviewAttempt, Lite!Failed, Failed
  <2>2. PICK q : q = [p EXCEPT !["nextAttempt"] = p.nextAttempt + 1]
    OBVIOUS
  <2>3. Pg!SaveReviewAttempt(p, input) = Failed(q)
    BY <1>1, <1>3, <2>2 DEF Pg!SaveReviewAttempt, Pg!AttemptAccepted, Pg!Failed, AttemptAccepted, Failed
  <2>4. /\ \A f \in Tables : q[f] = p[f]
        /\ q.nextRun = p.nextRun + 0 /\ q.nextAttempt = p.nextAttempt + 1
    <3>1. q.nextRun = p.nextRun /\ p.nextRun \in Int
      BY <1>1, <2>2 DEF IsStore, Tables, Kept, NumbersKept
    <3> QED BY <1>1, <2>2, <3>1 DEF IsStore, Tables
  <2>5. Kept(q, b)
    BY <1>1, <2>4, NumberLost
  <2> QED BY <2>1, <2>3, <2>5 DEF Failed
<1>4. CASE AttemptAccepted(input) /\ input.receipt \in DOMAIN l.receipts
  <2>1. Lite!SaveReviewAttempt(l, input)
          = Done([l EXCEPT !["attempts"] = u, !["nextAttempt"] = l.nextAttempt + 1], l.nextAttempt)
    BY <1>4 DEF Lite!SaveReviewAttempt, Lite!AttemptAccepted, Lite!Done, Lite!unixepoch,
                AttemptAccepted, Done, NewAttempt, LiteTime
  <2>2. Pg!SaveReviewAttempt(p, input)
          = Done([p EXCEPT !["attempts"] = v, !["nextAttempt"] = p.nextAttempt + 1], p.nextAttempt)
    BY <1>1, <1>4 DEF Pg!SaveReviewAttempt, Pg!AttemptAccepted, Pg!Done, Pg!NOW,
                AttemptAccepted, Done, NewAttempt
  <2>3. LiteTime(input.created) \in Int
    BY WholeSeconds
  <2>4. Kept([l EXCEPT !["attempts"] = u, !["nextAttempt"] = l.nextAttempt + 1], a)
    BY <1>1, <2>3, AttemptStored
  <2>5. Kept([p EXCEPT !["attempts"] = v, !["nextAttempt"] = p.nextAttempt + 1], b)
    BY <1>1, AttemptStored
  <2> HIDE DEF u, v
  <2> QED BY <2>1, <2>2, <2>4, <2>5 DEF Done
<1> QED BY <1>2, <1>3, <1>4

LEMMA OtherTablesKept ==
  ASSUME NEW d, IsStore(d), NEW at, Kept(d, at), NEW u, NEW v
  PROVE  Kept([d EXCEPT !["batches"] = u, !["results"] = v], at)
<1>1. PICK e : e = [d EXCEPT !["batches"] = u, !["results"] = v]
  OBVIOUS
<1>2. {"receipts", "plans", "tasks", "runs", "attempts", "nextRun", "nextAttempt", "pointers", "items"} \subseteq DOMAIN d
  BY DEF IsStore, Tables
<1>3. \A f \in DOMAIN d : f \notin {"batches", "results"} => e[f] = d[f]
  BY <1>1
<1>4. Kept(e, at)
  BY <1>2, <1>3 DEF Kept
<1> QED BY <1>1, <1>4

LEMMA BatchKept ==
  ASSUME NEW l, NEW p, StoresMatch(l, p), NEW a, NEW b, Kept(l, a), Kept(p, b), NEW input
  PROVE  Kept(Lite!SaveVerificationBatch(l, input).db, a) /\ Kept(Pg!SaveVerificationBatch(p, input).db, b)
<1>1. IsStore(l) /\ IsStore(p)
  BY MatchingStores
<1>2. Kept(Lite!SaveVerificationBatch(l, input).db, a)
  <2> DEFINE rows == Lite!BatchResults(input)
             u == Lite!Joined(l.batches, [k \in {input.key} |-> [receipt |-> input.receipt, status |-> input.status,
                                                                created |-> Lite!unixepoch(input.created)]])
             v == l.results \o [i \in DOMAIN rows |->
                                  [batch |-> input.key, test |-> rows[i].test, status |-> rows[i].status,
                                   started |-> Lite!unixepoch(rows[i].started),
                                   finished |-> Lite!unixepoch(rows[i].finished)]]
  <2>1. CASE ~ Lite!BatchAccepted(input) \/ input.key \in DOMAIN l.batches
    <3>1. Lite!SaveVerificationBatch(l, input) = Failed(l)
      BY <2>1 DEF Lite!SaveVerificationBatch, Lite!Failed, Failed
    <3> QED BY <3>1 DEF Failed
  <2>2. CASE ~ (~ Lite!BatchAccepted(input) \/ input.key \in DOMAIN l.batches)
    <3>1. Lite!SaveVerificationBatch(l, input) = Done([l EXCEPT !["batches"] = u, !["results"] = v], "ok")
      BY <2>2 DEF Lite!SaveVerificationBatch, Lite!Done, Done
    <3> HIDE DEF u, v
    <3>2. Kept([l EXCEPT !["batches"] = u, !["results"] = v], a)
      BY <1>1, OtherTablesKept
    <3> QED BY <3>1, <3>2 DEF Done
  <2> QED BY <2>1, <2>2
<1>3. Kept(Pg!SaveVerificationBatch(p, input).db, b)
  <2> DEFINE rows == Pg!BatchResults(input)
             u == Pg!Joined(p.batches, [k \in {input.key} |-> [receipt |-> input.receipt, status |-> input.status,
                                                              created |-> Pg!NOW(input.created)]])
             v == p.results \o [i \in DOMAIN rows |->
                                  [batch |-> input.key, test |-> rows[i].test, status |-> rows[i].status,
                                   started |-> Pg!NOW(rows[i].started),
                                   finished |-> Pg!NOW(rows[i].finished)]]
  <2>1. CASE ~ Pg!BatchAccepted(input) \/ input.key \in DOMAIN p.batches
    <3>1. Pg!SaveVerificationBatch(p, input) = Failed(p)
      BY <2>1 DEF Pg!SaveVerificationBatch, Pg!Failed, Failed
    <3> QED BY <3>1 DEF Failed
  <2>2. CASE ~ (~ Pg!BatchAccepted(input) \/ input.key \in DOMAIN p.batches)
    <3>1. Pg!SaveVerificationBatch(p, input) = Done([p EXCEPT !["batches"] = u, !["results"] = v], "ok")
      BY <2>2 DEF Pg!SaveVerificationBatch, Pg!Done, Done
    <3> HIDE DEF u, v
    <3>2. Kept([p EXCEPT !["batches"] = u, !["results"] = v], b)
      BY <1>1, OtherTablesKept
    <3> QED BY <3>1, <3>2 DEF Done
  <2> QED BY <2>1, <2>2
<1> QED BY <1>2, <1>3

LEMMA InterruptKept ==
  ASSUME NEW l, NEW p, StoresMatch(l, p), NEW a, NEW b, Kept(l, a), Kept(p, b)
  PROVE  Kept(Lite!Interrupted(l).db, a) /\ Kept(Pg!Interrupted(p).db, b)
<1>1. IsStore(p)
  BY MatchingStores
<1>2. PICK q : q = [p EXCEPT !["nextRun"] = p.nextRun + 1, !["nextAttempt"] = p.nextAttempt + 1]
  OBVIOUS
<1>3. /\ \A f \in Tables : q[f] = p[f]
      /\ q.nextRun = p.nextRun + 1 /\ q.nextAttempt = p.nextAttempt + 1
  BY <1>1, <1>2 DEF IsStore, Tables
<1>4. Kept(q, b)
  BY <1>1, <1>3, NumberLost
<1>5. Pg!Interrupted(p) = [db |-> q, result |-> Null]
  BY <1>2 DEF Pg!Interrupted
<1>6. Lite!Interrupted(l) = [db |-> l, result |-> Null]
  BY DEF Lite!Interrupted, Lite!Failed
<1> QED BY <1>4, <1>5, <1>6

LEMMA EmptyKept ==
  ASSUME NEW at PROVE Kept(EmptyDb, at)
<1>1. \A t \in Tables : EmptyDb[t] = [k \in {} |-> k] \/ EmptyDb[t] = <<>>
  BY DEF EmptyDb, Tables
<1>2. \A t \in Tables : DOMAIN EmptyDb[t] = {}
  BY <1>1
<1>3. IsFiniteSet({})
  BY FS_EmptySet
<1>4. 0 \in Nat /\ 1..0 = {}
  OBVIOUS
<1>5. EmptyDb.nextRun \in Int /\ EmptyDb.nextAttempt \in Int
  BY DEF EmptyDb
<1>6. PICK e : e = EmptyDb
  OBVIOUS
<1>7. Kept(e, at)
  BY <1>2, <1>3, <1>4, <1>5, <1>6
     DEF Tables, Kept, PointersKept, KeysKept, PairsKept, DatesKept, NumbersKept, RunsKept, IsLog
<1> QED BY <1>6, <1>7

KeptBoth(l, p, at) == Kept(l, LiteTime(at)) /\ Kept(p, at)

LEMMA NumberedDb ==
  ASSUME NEW x, NEW y
  PROVE  Numbered([db |-> x, result |-> y]).db = x
BY DEF Numbered

LEMMA CallsKept ==
  ASSUME NEW l, NEW p, StoresMatch(l, p), NEW t \in Int, KeptBoth(l, p, t)
  PROVE  /\ \A stubs \in StubLists :
               KeptBoth(Lite!UpsertPointerStubs(l, stubs, t).db, Pg!UpsertPointerStubs(p, stubs, t).db, t)
         /\ \A s \in RuleSyncs :
               KeptBoth(Lite!SyncRulePointers(l, s.source, s.rules, t).db,
                        Pg!SyncRulePointers(p, s.source, s.rules, t).db, t)
         /\ \A input \in SyncInputs :
               KeptBoth(Lite!ApplySync(l, input, t).db, Pg!ApplySync(p, input, t).db, t)
         /\ \A input \in ScopeInputs :
               KeptBoth(Lite!UpsertReceiptScope(l, input, t).db, Pg!UpsertReceiptScope(p, input, t).db, t)
         /\ \A input \in RunInputs :
               KeptBoth(Numbered(Lite!SaveRunReceiptSummary(l, input, t)).db,
                        Numbered(Pg!SaveRunReceiptSummary(p, input, t)).db, t)
         /\ \A input \in ItemInputs :
               KeptBoth(Lite!UpsertWorkItems(l, input.receipt, input.list, t).db,
                        Pg!UpsertWorkItems(p, input.receipt, input.list, t).db, t)
         /\ \A input \in PlanInputs :
               KeptBoth(Lite!UpsertWorkPlan(l, input, t).db, Pg!UpsertWorkPlan(p, input, t).db, t)
         /\ \A input : input.created \in Int =>
               KeptBoth(Numbered(Lite!SaveReviewAttempt(l, input)).db, Numbered(Pg!SaveReviewAttempt(p, input)).db, t)
         /\ \A input :
               KeptBoth(Lite!SaveVerificationBatch(l, input).db, Pg!SaveVerificationBatch(p, input).db, t)
         /\ KeptBoth(Lite!Interrupted(l).db, Pg!Interrupted(p).db, t)
<1>1. IsStore(l) /\ IsStore(p) /\ LiteTime(t) \in Int /\ Kept(l, LiteTime(t)) /\ Kept(p, t)
      /\ l.nextRun \in Nat /\ p.nextRun \in Nat
  BY MatchingStores, WholeSeconds DEF KeptBoth, StoresMatch
<1>2. ASSUME NEW stubs \in StubLists
      PROVE  KeptBoth(Lite!UpsertPointerStubs(l, stubs, t).db, Pg!UpsertPointerStubs(p, stubs, t).db, t)
  BY <1>1, StubsForm, StubsKept DEF KeptBoth
<1>3. ASSUME NEW s \in RuleSyncs
      PROVE  KeptBoth(Lite!SyncRulePointers(l, s.source, s.rules, t).db,
                      Pg!SyncRulePointers(p, s.source, s.rules, t).db, t)
  BY <1>1, RulesForm, RulesKept DEF KeptBoth
<1>4. ASSUME NEW input \in SyncInputs
      PROVE  KeptBoth(Lite!ApplySync(l, input, t).db, Pg!ApplySync(p, input, t).db, t)
  <2>1. PICK n \in Nat : ArePaths(SyncPaths(input), n)
    BY PathsOnce
  <2>2. /\ IsTable(l.pointers, PointerCols) /\ IsFiniteSet(DOMAIN l.pointers)
        /\ IsTable(l.candidates, CandidateCols) /\ IsTable(p.pointers, PointerCols)
    BY DEF StoresMatch, Tables, TablesAgree, Columns
  <2>3. Lite!ApplySync(l, input, t) = SyncCall(l, input, LiteTime(t))
    BY <2>1, <2>2, LiteSyncForm
  <2>4. Pg!ApplySync(p, input, t) = SyncCall(p, input, t)
    BY <2>1, <2>2, PgSyncForm
  <2> QED BY <1>1, <2>3, <2>4, SyncKept DEF KeptBoth
<1>5. ASSUME NEW input \in ScopeInputs
      PROVE  KeptBoth(Lite!UpsertReceiptScope(l, input, t).db, Pg!UpsertReceiptScope(p, input, t).db, t)
  BY <1>1, ScopeForm, ScopeKept DEF KeptBoth
<1>6. ASSUME NEW input \in RunInputs
      PROVE  KeptBoth(Numbered(Lite!SaveRunReceiptSummary(l, input, t)).db,
                      Numbered(Pg!SaveRunReceiptSummary(p, input, t)).db, t)
  <2>1. \A d, at : RunCall(d, input, at) = [db |-> RunCall(d, input, at).db, result |-> RunCall(d, input, at).result]
    BY DEF RunCall, Done
  <2>2. \A d, at : Numbered(RunCall(d, input, at)).db = RunCall(d, input, at).db
    BY <2>1, NumberedDb
  <2> QED BY <1>1, <2>2, RunForm, RunKept DEF KeptBoth
<1>7. ASSUME NEW input \in ItemInputs
      PROVE  KeptBoth(Lite!UpsertWorkItems(l, input.receipt, input.list, t).db,
                      Pg!UpsertWorkItems(p, input.receipt, input.list, t).db, t)
  <2>1. input.list \in Seq([key : Int, status : Statuses])
    BY InputAssumption
  <2>2. /\ Len(input.list) \in Nat /\ DOMAIN input.list = 1..Len(input.list)
        /\ \A i \in 1..Len(input.list) : input.list[i] \in [key : Int, status : Statuses]
    BY <2>1, SeqElements
  <2>3. \A i \in 1..Len(input.list) : input.list[i].key \in Int
    BY <2>2
  <2>4. /\ Lite!UpsertWorkItems(l, input.receipt, input.list, t)
               = ItemsCall(l, input.receipt, input.list, LiteTime(t))
        /\ Pg!UpsertWorkItems(p, input.receipt, input.list, t) = ItemsCall(p, input.receipt, input.list, t)
    BY <2>2, <2>3, ItemsForm
  <2> QED BY <1>1, <2>4, ItemsKept DEF KeptBoth
<1>8. ASSUME NEW input \in PlanInputs
      PROVE  KeptBoth(Lite!UpsertWorkPlan(l, input, t).db, Pg!UpsertWorkPlan(p, input, t).db, t)
  BY <1>1, PlanForm, PlanKept DEF KeptBoth
<1>9. ASSUME NEW input, input.created \in Int
      PROVE  KeptBoth(Numbered(Lite!SaveReviewAttempt(l, input)).db, Numbered(Pg!SaveReviewAttempt(p, input)).db, t)
  <2> DEFINE a == Lite!SaveReviewAttempt(l, input)
             b == Pg!SaveReviewAttempt(p, input)
  <2>1. a = [db |-> a.db, result |-> a.result]
    BY DEF Lite!SaveReviewAttempt, Lite!Done, Lite!Failed
  <2>2. b = [db |-> b.db, result |-> b.result]
    BY DEF Pg!SaveReviewAttempt, Pg!Done, Pg!Failed
  <2>3. Kept(a.db, LiteTime(t)) /\ Kept(b.db, t)
    BY <1>1, <1>9, AttemptKept
  <2> HIDE DEF a, b
  <2>4. Numbered(a).db = a.db /\ Numbered(b).db = b.db
    BY <2>1, <2>2, NumberedDb
  <2> QED BY <2>3, <2>4 DEF KeptBoth, a, b
<1>10. ASSUME NEW input
       PROVE  KeptBoth(Lite!SaveVerificationBatch(l, input).db, Pg!SaveVerificationBatch(p, input).db, t)
  BY <1>1, BatchKept DEF KeptBoth
<1>11. KeptBoth(Lite!Interrupted(l).db, Pg!Interrupted(p).db, t)
  BY <1>1, InterruptKept DEF KeptBoth
<1> QED BY <1>2, <1>3, <1>4, <1>5, <1>6, <1>7, <1>8, <1>9, <1>10, <1>11

(* The inductive invariant of what the lookups and listings answer. *)
KeptInv == StoresInv /\ KeptBoth(lite, pg, now)

LEMMA KeptInit ==
  ASSUME Init PROVE KeptInv
<1>1. StoresInv
  BY StoresInit
<1>2. lite = EmptyDb /\ pg = EmptyDb
  BY DEF Init
<1>3. KeptBoth(lite, pg, now)
  BY <1>2, EmptyKept DEF KeptBoth
<1> QED BY <1>1, <1>3 DEF KeptInv

LEMMA BothKept ==
  ASSUME now \in Int, NEW g, NEW a, NEW b, KeptBoth(a.db, b.db, now), Both(g, a, b)
  PROVE  KeptBoth(lite, pg, now)'
<1>1. now' \in Int /\ now <= now'
  BY ParityAssumption DEF Both
<1>2. lite' = a.db /\ pg' = b.db
  BY DEF Both
<1>3. LiteTime(now) \in Int /\ LiteTime(now') \in Int /\ LiteTime(now) <= LiteTime(now')
  BY <1>1, WholeSeconds, SecondsGrow
<1>4. Kept(a.db, LiteTime(now')) /\ Kept(b.db, now')
  BY <1>1, <1>3, KeptLater DEF KeptBoth
<1>5. Kept(lite', LiteTime(now')) /\ Kept(pg', now')
  BY <1>2, <1>4
<1> QED BY <1>5 DEF KeptBoth

LEMMA KeptStep ==
  ASSUME KeptInv, [Next]_vars
  PROVE  KeptInv'
<1>0. StoresInv'
  BY StoresStep DEF KeptInv
<1>0a. StoresMatch(lite, pg) /\ now \in Int /\ KeptBoth(lite, pg, now)
  BY DEF KeptInv, StoresInv
<1> DEFINE Goal == KeptBoth(lite, pg, now)'
<1>1. ASSUME UpsertPointerStubs PROVE Goal
  BY <1>0a, <1>1, BothKept, CallsKept DEF UpsertPointerStubs
<1>2. ASSUME SyncRulePointers PROVE Goal
  BY <1>0a, <1>2, BothKept, CallsKept DEF SyncRulePointers
<1>3. ASSUME ApplySync PROVE Goal
  BY <1>0a, <1>3, BothKept, CallsKept DEF ApplySync
<1>4. ASSUME UpsertReceiptScope PROVE Goal
  BY <1>0a, <1>4, BothKept, CallsKept DEF UpsertReceiptScope
<1>5. ASSUME SaveRunReceiptSummary PROVE Goal
  BY <1>0a, <1>5, BothKept, CallsKept DEF SaveRunReceiptSummary
<1>6. ASSUME UpsertWorkItems PROVE Goal
  BY <1>0a, <1>6, BothKept, CallsKept DEF UpsertWorkItems
<1>7. ASSUME UpsertWorkPlan PROVE Goal
  BY <1>0a, <1>7, BothKept, CallsKept DEF UpsertWorkPlan
<1>8. ASSUME SaveReviewAttempt PROVE Goal
  <2>1. PICK a \in AttemptInputs :
          LET input == [a EXCEPT !.created = now - a.created]
          IN  Both("gates", Numbered(Lite!SaveReviewAttempt(lite, input)),
                            Numbered(Pg!SaveReviewAttempt(pg, input)))
    BY <1>8 DEF SaveReviewAttempt
  <2> DEFINE input == [a EXCEPT !.created = now - a.created]
  <2>2. input.created \in Int
    BY <1>0a, InputAssumption
  <2> HIDE DEF input
  <2>3. KeptBoth(Numbered(Lite!SaveReviewAttempt(lite, input)).db, Numbered(Pg!SaveReviewAttempt(pg, input)).db, now)
    BY <1>0a, <2>2, CallsKept
  <2> QED BY <1>0a, <2>1, <2>3, BothKept DEF input
<1>9. ASSUME SaveVerificationBatch PROVE Goal
  <2>0. SaveVerificationBatch <=> \E b \in BatchInputs :
           Both("gates", Lite!SaveVerificationBatch(lite, Dated(b, now)), Pg!SaveVerificationBatch(pg, Dated(b, now)))
    BY Zenon DEF SaveVerificationBatch, Dated, DatedResult
  <2>1. PICK b \in BatchInputs :
           Both("gates", Lite!SaveVerificationBatch(lite, Dated(b, now)), Pg!SaveVerificationBatch(pg, Dated(b, now)))
    BY <1>9, <2>0
  <2>2. PICK input : input = Dated(b, now)
    OBVIOUS
  <2>3. KeptBoth(Lite!SaveVerificationBatch(lite, input).db, Pg!SaveVerificationBatch(pg, input).db, now)
    BY <1>0a, CallsKept
  <2> QED BY <1>0a, <2>1, <2>2, <2>3, BothKept
<1>10. ASSUME Interrupt PROVE Goal
  BY <1>0a, <1>10, BothKept, CallsKept DEF Interrupt
<1>11. ASSUME UNCHANGED vars PROVE Goal
  BY <1>0a, <1>11 DEF vars
<1>12. Goal
  BY <1>1, <1>2, <1>3, <1>4, <1>5, <1>6, <1>7, <1>8, <1>9, <1>10, <1>11 DEF Next
<1> QED BY <1>0, <1>12 DEF KeptInv

-------------------------------------------------------------------------------
(* Listings: the rows of the keys K, in an order Q of the keys. *)

Enumerated(K, Q) == [i \in 1..Cardinality(K) |-> CHOOSE k \in K : Rank(Q, K, k) = i - 1]
Listed(K, f, Q) == [i \in 1..Cardinality(K) |-> f[Enumerated(K, Q)[i]]]

LEMMA EnumeratedOnce ==
  ASSUME NEW K, IsFiniteSet(K), NEW Q, StrictOrder(Q, K)
  PROVE  /\ IsOrdered(Enumerated(K, Q), K, Q)
         /\ Cardinality(K) \in Nat
         /\ \A i \in 1..Cardinality(K) : Enumerated(K, Q)[i] \in K
         /\ \A i, j \in 1..Cardinality(K) : Enumerated(K, Q)[i] = Enumerated(K, Q)[j] => i = j
         /\ \A k \in K : \E i \in 1..Cardinality(K) : Enumerated(K, Q)[i] = k
<1> DEFINE o == Enumerated(K, Q)
<1>1. ASSUME NEW i \in 1..Cardinality(K) PROVE o[i] \in K /\ Rank(Q, K, o[i]) = i - 1
  <2>1. \E k \in K : Rank(Q, K, k) = i - 1
    BY RankIsReached
  <2>2. o[i] = CHOOSE k \in K : Rank(Q, K, k) = i - 1
    BY DEF Enumerated
  <2> HIDE DEF o
  <2> QED BY <2>1, <2>2
<1>2. DOMAIN o = 1..Cardinality(K) /\ o = [i \in 1..Cardinality(K) |-> o[i]]
  BY DEF Enumerated
<1> HIDE DEF o
<1>3. IsOrdered(o, K, Q)
  BY <1>1, <1>2 DEF IsOrdered
<1> QED BY <1>1, <1>3, OrderedOnce DEF o

(* An order of the keys that the rows are ordered by as well. *)
SameOrder(K, f, Q, R) == \A j, k \in K : <<f[j], f[k]>> \in R <=> <<j, k>> \in Q

IsImage(S, K, f) == S = {f[k] : k \in K}

LEMMA ImageRank ==
  ASSUME NEW K, IsFiniteSet(K), NEW Q, StrictOrder(Q, K), NEW f, NEW S, IsImage(S, K, f),
         NEW R, SameOrder(K, f, Q, R)
  PROVE  /\ \A j, k \in K : f[j] = f[k] => j = k
         /\ IsFiniteSet(S) /\ Cardinality(S) = Cardinality(K) /\ StrictOrder(R, S)
         /\ \A k \in K : Rank(R, S, f[k]) = Rank(Q, K, k)
<1>0. S = {f[k] : k \in K}
  BY DEF IsImage
<1>1. ASSUME NEW j \in K, NEW k \in K, f[j] = f[k], j # k PROVE FALSE
  <2>1. <<j, k>> \in Q \/ <<k, j>> \in Q
    BY <1>1 DEF StrictOrder
  <2>2. <<f[j], f[k]>> \in R \/ <<f[k], f[j]>> \in R
    BY <2>1 DEF SameOrder
  <2>3. <<f[j], f[j]>> \in R
    BY <1>1, <2>2
  <2> QED BY <2>3 DEF SameOrder, StrictOrder
<1>2. ASSUME NEW L \in SUBSET K
      PROVE  IsFiniteSet({f[k] : k \in L}) /\ Cardinality({f[k] : k \in L}) = Cardinality(L)
  <2> DEFINE g == [k \in L |-> f[k]]
             T == {f[k] : k \in L}
  <2>1. IsFiniteSet(L)
    BY FS_Subset
  <2>2. g \in Bijection(L, T)
    BY <1>1 DEF Bijection, Injection, Surjection, IsInjective
  <2> HIDE DEF g, T
  <2>3. IsFiniteSet(T) /\ Cardinality(T) = Cardinality(L)
    BY <2>1, <2>2, FS_Bijection DEF ExistsBijection
  <2> QED BY <2>3 DEF T
<1>3. IsFiniteSet(S) /\ Cardinality(S) = Cardinality(K)
  BY <1>0, <1>2
<1>4. StrictOrder(R, S)
  <2>1. \A x \in S : <<x, x>> \notin R
    BY <1>0 DEF SameOrder, StrictOrder
  <2>2. ASSUME NEW x \in S, NEW y \in S, NEW z \in S, <<x, y>> \in R, <<y, z>> \in R PROVE <<x, z>> \in R
    <3>1. PICK a \in K, b \in K, c \in K : x = f[a] /\ y = f[b] /\ z = f[c]
      BY <1>0
    <3>2. <<a, b>> \in Q /\ <<b, c>> \in Q
      BY <2>2, <3>1 DEF SameOrder
    <3>3. <<a, c>> \in Q
      BY <3>2 DEF StrictOrder
    <3> QED BY <3>1, <3>3 DEF SameOrder
  <2>3. ASSUME NEW x \in S, NEW y \in S, x # y PROVE <<x, y>> \in R \/ <<y, x>> \in R
    <3>1. PICK a \in K, b \in K : x = f[a] /\ y = f[b]
      BY <1>0
    <3>2. <<a, b>> \in Q \/ <<b, a>> \in Q
      BY <2>3, <3>1 DEF StrictOrder
    <3> QED BY <3>1, <3>2 DEF SameOrder
  <2> QED BY <2>1, <2>2, <2>3 DEF StrictOrder
<1>5. ASSUME NEW k \in K PROVE Rank(R, S, f[k]) = Rank(Q, K, k)
  <2>1. Below(R, S, f[k]) = {f[j] : j \in Below(Q, K, k)}
    <3>1. \A x : x \in Below(R, S, f[k]) <=> \E j \in K : x = f[j] /\ <<j, k>> \in Q
      BY <1>0 DEF Below, SameOrder
    <3>2. \A x : x \in {f[j] : j \in Below(Q, K, k)} <=> \E j \in K : x = f[j] /\ <<j, k>> \in Q
      BY DEF Below
    <3> QED BY <3>1, <3>2
  <2>2. Below(Q, K, k) \in SUBSET K
    BY DEF Below
  <2> QED BY <1>2, <2>1, <2>2 DEF Rank
<1> QED BY <1>1, <1>3, <1>4, <1>5

LEMMA ListedForm ==
  ASSUME NEW K, IsFiniteSet(K), NEW Q, StrictOrder(Q, K), NEW f, NEW S, IsImage(S, K, f),
         NEW R, SameOrder(K, f, Q, R), NEW o, IsOrdered(o, S, R)
  PROVE  o = Listed(K, f, Q)
<1>1. /\ IsFiniteSet(S) /\ Cardinality(S) = Cardinality(K) /\ StrictOrder(R, S)
      /\ \A k \in K : Rank(R, S, f[k]) = Rank(Q, K, k)
  BY ImageRank
<1>2. o \in [1..Cardinality(K) -> S]
  <2>1. o \in [1..Cardinality(S) -> S]
    BY DEF IsOrdered
  <2>2. Cardinality(S) = Cardinality(K)
    BY <1>1
  <2> QED BY <2>1, <2>2, Zenon
<1>2a. o = [i \in 1..Cardinality(K) |-> o[i]]
  BY <1>2
<1>3. ASSUME NEW i \in 1..Cardinality(K) PROVE o[i] = f[Enumerated(K, Q)[i]]
  <2> DEFINE k == Enumerated(K, Q)[i]
  <2>1. k \in K /\ Rank(Q, K, k) = i - 1
    BY EnumeratedOnce DEF IsOrdered
  <2>2. o[i] \in S /\ Rank(R, S, o[i]) = i - 1
    BY <1>1 DEF IsOrdered
  <2> HIDE DEF k
  <2>3. f[k] \in S /\ Rank(R, S, f[k]) = i - 1
    BY <1>1, <2>1 DEF IsImage
  <2>4. o[i] = f[k]
    BY <1>1, <2>2, <2>3, RankIsUnique
  <2> QED BY <2>4 DEF k
<1> QED BY <1>2a, <1>3 DEF Listed

LEMMA ListedSameRows ==
  ASSUME NEW K, IsFiniteSet(K), NEW Q, StrictOrder(Q, K), NEW f, NEW g, \A k \in K : SameRow(f[k], g[k])
  PROVE  SameRows(Listed(K, f, Q), Listed(K, g, Q))
<1>1. ASSUME NEW i \in 1..Cardinality(K) PROVE SameRow(Listed(K, f, Q)[i], Listed(K, g, Q)[i])
  <2>1. PICK k \in K : k = Enumerated(K, Q)[i]
    BY EnumeratedOnce
  <2>2. Listed(K, f, Q)[i] = f[k] /\ Listed(K, g, Q)[i] = g[k]
    BY <2>1 DEF Listed
  <2> QED BY <2>2
<1>2. DOMAIN Listed(K, f, Q) = 1..Cardinality(K) /\ DOMAIN Listed(K, g, Q) = 1..Cardinality(K)
  BY DEF Listed
<1> QED BY <1>1, <1>2 DEF SameRows

LEMMA ListedSet ==
  ASSUME NEW K, IsFiniteSet(K), NEW Q, StrictOrder(Q, K), NEW f
  PROVE  /\ \A i \in DOMAIN Listed(K, f, Q) : \E k \in K : Listed(K, f, Q)[i] = f[k]
         /\ \A k \in K : \E i \in DOMAIN Listed(K, f, Q) : Listed(K, f, Q)[i] = f[k]
<1> DEFINE e == Enumerated(K, Q)
           o == Listed(K, f, Q)
<1>1. DOMAIN o = 1..Cardinality(K) /\ \A i \in 1..Cardinality(K) : o[i] = f[e[i]]
  BY DEF Listed
<1>2. /\ \A i \in 1..Cardinality(K) : e[i] \in K
      /\ \A k \in K : \E i \in 1..Cardinality(K) : e[i] = k
  BY EnumeratedOnce
<1> HIDE DEF e, o
<1>3. \A i \in DOMAIN o : \E k \in K : o[i] = f[k]
  BY <1>1, <1>2
<1>4. \A k \in K : \E i \in DOMAIN o : o[i] = f[k]
  BY <1>1, <1>2
<1> QED BY <1>3, <1>4 DEF o

LEMMA ListedSameSet ==
  ASSUME NEW K, IsFiniteSet(K), NEW P, StrictOrder(P, K), NEW Q, StrictOrder(Q, K), NEW f, NEW g,
         \A k \in K : SameRow(f[k], g[k])
  PROVE  SameSet(Listed(K, f, P), Listed(K, g, Q))
<1> DEFINE l == Listed(K, f, P)
           p == Listed(K, g, Q)
<1>1. /\ \A i \in DOMAIN l : \E k \in K : l[i] = f[k]
      /\ \A k \in K : \E i \in DOMAIN l : l[i] = f[k]
  BY ListedSet
<1>2. /\ \A i \in DOMAIN p : \E k \in K : p[i] = g[k]
      /\ \A k \in K : \E i \in DOMAIN p : p[i] = g[k]
  BY ListedSet
<1> HIDE DEF l, p
<1>3. \A k \in K : Unnumbered(f[k]) = Unnumbered(InSeconds(g[k]))
  BY DEF SameRow
<1>4. \A i \in DOMAIN l : \E j \in DOMAIN p : Unnumbered(l[i]) = Unnumbered(InSeconds(p[j]))
  BY <1>1, <1>2, <1>3
<1>5. \A j \in DOMAIN p : \E i \in DOMAIN l : Unnumbered(l[i]) = Unnumbered(InSeconds(p[j]))
  BY <1>1, <1>2, <1>3
<1>6. SameSet(l, p)
  BY <1>4, <1>5 DEF SameSet
<1> QED BY <1>6 DEF l, p

(* LIMIT n of a listing. *)
Cut(seq, q, n) == IF q.unbounded \/ Len(seq) <= n THEN seq ELSE SubSeq(seq, 1, n)
Clamped(q) == Min({MaxLimit, IF q.limit <= 0 THEN DefaultLimit ELSE q.limit})

LEMMA ListOf ==
  ASSUME NEW m \in Nat, NEW o, o = [i \in 1..m |-> o[i]], NEW n \in Nat, n < m
  PROVE  /\ Len(o) = m /\ DOMAIN SubSeq(o, 1, n) = 1..n
         /\ \A i \in 1..n : SubSeq(o, 1, n)[i] = o[i]
<1> DEFINE S == {o[i] : i \in 1..m}
<1>1. o \in [1..m -> S]
  <2>1. \A i \in 1..m : o[i] \in S OBVIOUS
  <2> HIDE DEF S
  <2> QED BY <2>1
<1> HIDE DEF S
<1>2. o \in Seq(S) /\ Len(o) = m
  BY <1>1
<1> QED BY <1>2

LEMMA LengthOf ==
  ASSUME NEW m \in Nat, NEW o, o = [i \in 1..m |-> o[i]]
  PROVE  Len(o) = m
<1> DEFINE S == {o[i] : i \in 1..m}
<1>1. o \in [1..m -> S]
  <2>1. \A i \in 1..m : o[i] \in S OBVIOUS
  <2> HIDE DEF S
  <2> QED BY <2>1
<1> HIDE DEF S
<1> QED BY <1>1

LEMMA CutAgree ==
  ASSUME NEW m \in Nat, NEW l, l = [i \in 1..m |-> l[i]], NEW p, p = [i \in 1..m |-> p[i]],
         SameRows(l, p), NEW n \in Nat, NEW q
  PROVE  SameRows(Cut(l, q, n), Cut(p, q, n))
<1>1. Len(l) = m /\ Len(p) = m
  BY LengthOf
<1>2. CASE q.unbounded \/ m <= n
  <2>1. Cut(l, q, n) = l /\ Cut(p, q, n) = p
    BY <1>1, <1>2 DEF Cut
  <2> QED BY <2>1
<1>3. CASE ~ (q.unbounded \/ m <= n)
  <2>1. Cut(l, q, n) = SubSeq(l, 1, n) /\ Cut(p, q, n) = SubSeq(p, 1, n)
    BY <1>1, <1>3 DEF Cut
  <2>2. /\ DOMAIN SubSeq(l, 1, n) = 1..n /\ \A i \in 1..n : SubSeq(l, 1, n)[i] = l[i]
        /\ DOMAIN SubSeq(p, 1, n) = 1..n /\ \A i \in 1..n : SubSeq(p, 1, n)[i] = p[i]
    BY <1>3, ListOf
  <2>3. \A i \in 1..n : SameRow(l[i], p[i])
    BY <1>3 DEF SameRows
  <2>4. PICK x, y : x = SubSeq(l, 1, n) /\ y = SubSeq(p, 1, n)
    OBVIOUS
  <2>5. SameRows(x, y)
    BY <2>2, <2>3, <2>4 DEF SameRows
  <2> QED BY <2>1, <2>4, <2>5
<1> QED BY <1>2, <1>3

(* The adapters share the limits. *)
LEMMA ClampedLimit ==
  ASSUME NEW q, q.limit \in Int
  PROVE  Clamped(q) \in Nat
<1> DEFINE x == IF q.limit <= 0 THEN DefaultLimit ELSE q.limit
<1>1. x \in Nat /\ MaxLimit \in Nat
  BY ParityAssumption
<1> HIDE DEF x
<1>2. \E y \in {MaxLimit, x} : \A z \in {MaxLimit, x} : y <= z
  <2>1. CASE MaxLimit <= x BY <1>1, <2>1
  <2>2. CASE ~ (MaxLimit <= x) BY <1>1, <2>2
  <2> QED BY <2>1, <2>2
<1>3. (CHOOSE y \in {MaxLimit, x} : \A z \in {MaxLimit, x} : y <= z) \in {MaxLimit, x}
  BY <1>2
<1> QED BY <1>1, <1>3 DEF Clamped, Min, x

LEMMA SharedLimits ==
  \A seq, q : Lite!Limited(seq, q) = Cut(seq, q, Clamped(q)) /\ Pg!Limited(seq, q) = Cut(seq, q, Clamped(q))
BY DEF Lite!Limited, Pg!Limited, Lite!Min, Pg!Min, Cut, Clamped, Min

ByPath(a, b) == a.path < b.path \/ (a.path = b.path /\ a.key < b.key)
ByKeys(a, b) == a.key < b.key

LEMMA SharedOrders ==
  /\ \A S : Lite!Ordered(S, Lite!NewestRun) = Ordered(S, NewestRun) /\ Pg!Ordered(S, Pg!NewestRun) = Ordered(S, NewestRun)
  /\ \A S : Lite!Ordered(S, Lite!NewestFirst) = Ordered(S, NewestFirst)
            /\ Pg!Ordered(S, Pg!NewestFirst) = Ordered(S, NewestFirst)
  /\ \A S : Lite!Ordered(S, Lite!OldestFirst) = Ordered(S, OldestFirst)
            /\ Pg!Ordered(S, Pg!OldestFirst) = Ordered(S, OldestFirst)
BY DEF Lite!Ordered, Pg!Ordered, Lite!Cardinality, Pg!Cardinality, Lite!NewestRun, Pg!NewestRun, Lite!NewestFirst,
       Pg!NewestFirst, Lite!OldestFirst, Pg!OldestFirst, Ordered, Cardinality, NewestRun, NewestFirst, OldestFirst

LEMMA SharedCandidates ==
  \A S, q : LET n == IF q.limit <= 0 THEN DefaultLimit ELSE q.limit
            IN  /\ Lite!SortedCandidates(S, q) = Cut(Ordered(S, ByPath), q, n)
                /\ Pg!SortedCandidates(S, q) = Cut(Ordered(S, ByPath), q, n)
BY DEF Lite!SortedCandidates, Pg!SortedCandidates, Lite!Ordered, Pg!Ordered, Lite!Cardinality, Pg!Cardinality,
       Ordered, Cardinality, ByPath, Cut

(* Each ORDER BY, as a listing of the keys. *)

LEMMA NewestRunListed ==
  ASSUME NEW K, IsFiniteSet(K), NEW Q, StrictOrder(Q, K), NEW f, NEW S, IsImage(S, K, f),
         \A j, k \in K : NewestRun(f[j], f[k]) <=> <<j, k>> \in Q
  PROVE  Ordered(S, NewestRun) = Listed(K, f, Q)
<1> DEFINE R == {e \in S \X S : NewestRun(e[1], e[2])}
           o == Ordered(S, NewestRun)
<1>1. \A x, y \in S : <<x, y>> \in R <=> NewestRun(x, y)
  OBVIOUS
<1>2. SameOrder(K, f, Q, R)
  BY <1>1 DEF SameOrder, IsImage
<1>3. \A r \in S : {x \in S : NewestRun(x, r)} = Below(R, S, r)
  BY <1>1 DEF Below
<1>4. o = [i \in 1..Cardinality(S) |-> CHOOSE r \in S : Cardinality({x \in S : NewestRun(x, r)}) = i - 1]
  BY DEF Ordered
<1> HIDE DEF R, o
<1>5. IsFiniteSet(S) /\ StrictOrder(R, S)
  BY <1>2, ImageRank
<1>6. ASSUME NEW i \in 1..Cardinality(S) PROVE o[i] \in S /\ Rank(R, S, o[i]) = i - 1
  <2>1. \E r \in S : Cardinality({x \in S : NewestRun(x, r)}) = i - 1
    BY <1>3, <1>5, RankIsReached DEF Rank
  <2>2. o[i] \in S /\ Cardinality({x \in S : NewestRun(x, o[i])}) = i - 1
    BY <1>4, <2>1
  <2> QED BY <1>3, <2>2 DEF Rank
<1>7. IsOrdered(o, S, R)
  BY <1>4, <1>6 DEF IsOrdered
<1> QED BY <1>2, <1>7, ListedForm DEF o

LEMMA NewestFirstListed ==
  ASSUME NEW K, IsFiniteSet(K), NEW Q, StrictOrder(Q, K), NEW f, NEW S, IsImage(S, K, f),
         \A j, k \in K : NewestFirst(f[j], f[k]) <=> <<j, k>> \in Q
  PROVE  Ordered(S, NewestFirst) = Listed(K, f, Q)
<1> DEFINE R == {e \in S \X S : NewestFirst(e[1], e[2])}
           o == Ordered(S, NewestFirst)
<1>1. \A x, y \in S : <<x, y>> \in R <=> NewestFirst(x, y)
  OBVIOUS
<1>2. SameOrder(K, f, Q, R)
  BY <1>1 DEF SameOrder, IsImage
<1>3. \A r \in S : {x \in S : NewestFirst(x, r)} = Below(R, S, r)
  BY <1>1 DEF Below
<1>4. o = [i \in 1..Cardinality(S) |-> CHOOSE r \in S : Cardinality({x \in S : NewestFirst(x, r)}) = i - 1]
  BY DEF Ordered
<1> HIDE DEF R, o
<1>5. IsFiniteSet(S) /\ StrictOrder(R, S)
  BY <1>2, ImageRank
<1>6. ASSUME NEW i \in 1..Cardinality(S) PROVE o[i] \in S /\ Rank(R, S, o[i]) = i - 1
  <2>1. \E r \in S : Cardinality({x \in S : NewestFirst(x, r)}) = i - 1
    BY <1>3, <1>5, RankIsReached DEF Rank
  <2>2. o[i] \in S /\ Cardinality({x \in S : NewestFirst(x, o[i])}) = i - 1
    BY <1>4, <2>1
  <2> QED BY <1>3, <2>2 DEF Rank
<1>7. IsOrdered(o, S, R)
  BY <1>4, <1>6 DEF IsOrdered
<1> QED BY <1>2, <1>7, ListedForm DEF o

LEMMA OldestFirstListed ==
  ASSUME NEW K, IsFiniteSet(K), NEW Q, StrictOrder(Q, K), NEW f, NEW S, IsImage(S, K, f),
         \A j, k \in K : OldestFirst(f[j], f[k]) <=> <<j, k>> \in Q
  PROVE  Ordered(S, OldestFirst) = Listed(K, f, Q)
<1> DEFINE R == {e \in S \X S : OldestFirst(e[1], e[2])}
           o == Ordered(S, OldestFirst)
<1>1. \A x, y \in S : <<x, y>> \in R <=> OldestFirst(x, y)
  OBVIOUS
<1>2. SameOrder(K, f, Q, R)
  BY <1>1 DEF SameOrder, IsImage
<1>3. \A r \in S : {x \in S : OldestFirst(x, r)} = Below(R, S, r)
  BY <1>1 DEF Below
<1>4. o = [i \in 1..Cardinality(S) |-> CHOOSE r \in S : Cardinality({x \in S : OldestFirst(x, r)}) = i - 1]
  BY DEF Ordered
<1> HIDE DEF R, o
<1>5. IsFiniteSet(S) /\ StrictOrder(R, S)
  BY <1>2, ImageRank
<1>6. ASSUME NEW i \in 1..Cardinality(S) PROVE o[i] \in S /\ Rank(R, S, o[i]) = i - 1
  <2>1. \E r \in S : Cardinality({x \in S : OldestFirst(x, r)}) = i - 1
    BY <1>3, <1>5, RankIsReached DEF Rank
  <2>2. o[i] \in S /\ Cardinality({x \in S : OldestFirst(x, o[i])}) = i - 1
    BY <1>4, <2>1
  <2> QED BY <1>3, <2>2 DEF Rank
<1>7. IsOrdered(o, S, R)
  BY <1>4, <1>6 DEF IsOrdered
<1> QED BY <1>2, <1>7, ListedForm DEF o

LEMMA ByPathListed ==
  ASSUME NEW K, IsFiniteSet(K), NEW Q, StrictOrder(Q, K), NEW f, NEW S, IsImage(S, K, f),
         \A j, k \in K : ByPath(f[j], f[k]) <=> <<j, k>> \in Q
  PROVE  Ordered(S, ByPath) = Listed(K, f, Q)
<1> DEFINE R == {e \in S \X S : ByPath(e[1], e[2])}
           o == Ordered(S, ByPath)
<1>1. \A x, y \in S : <<x, y>> \in R <=> ByPath(x, y)
  OBVIOUS
<1>2. SameOrder(K, f, Q, R)
  BY <1>1 DEF SameOrder, IsImage
<1>3. \A r \in S : {x \in S : ByPath(x, r)} = Below(R, S, r)
  BY <1>1 DEF Below
<1>4. o = [i \in 1..Cardinality(S) |-> CHOOSE r \in S : Cardinality({x \in S : ByPath(x, r)}) = i - 1]
  BY DEF Ordered
<1> HIDE DEF R, o
<1>5. IsFiniteSet(S) /\ StrictOrder(R, S)
  BY <1>2, ImageRank
<1>6. ASSUME NEW i \in 1..Cardinality(S) PROVE o[i] \in S /\ Rank(R, S, o[i]) = i - 1
  <2>1. \E r \in S : Cardinality({x \in S : ByPath(x, r)}) = i - 1
    BY <1>3, <1>5, RankIsReached DEF Rank
  <2>2. o[i] \in S /\ Cardinality({x \in S : ByPath(x, o[i])}) = i - 1
    BY <1>4, <2>1
  <2> QED BY <1>3, <2>2 DEF Rank
<1>7. IsOrdered(o, S, R)
  BY <1>4, <1>6 DEF IsOrdered
<1> QED BY <1>2, <1>7, ListedForm DEF o

LEMMA ByKeysListed ==
  ASSUME NEW K, IsFiniteSet(K), NEW Q, StrictOrder(Q, K), NEW f, NEW S, IsImage(S, K, f),
         \A j, k \in K : ByKeys(f[j], f[k]) <=> <<j, k>> \in Q
  PROVE  Ordered(S, ByKeys) = Listed(K, f, Q)
<1> DEFINE R == {e \in S \X S : ByKeys(e[1], e[2])}
           o == Ordered(S, ByKeys)
<1>1. \A x, y \in S : <<x, y>> \in R <=> ByKeys(x, y)
  OBVIOUS
<1>2. SameOrder(K, f, Q, R)
  BY <1>1 DEF SameOrder, IsImage
<1>3. \A r \in S : {x \in S : ByKeys(x, r)} = Below(R, S, r)
  BY <1>1 DEF Below
<1>4. o = [i \in 1..Cardinality(S) |-> CHOOSE r \in S : Cardinality({x \in S : ByKeys(x, r)}) = i - 1]
  BY DEF Ordered
<1> HIDE DEF R, o
<1>5. IsFiniteSet(S) /\ StrictOrder(R, S)
  BY <1>2, ImageRank
<1>6. ASSUME NEW i \in 1..Cardinality(S) PROVE o[i] \in S /\ Rank(R, S, o[i]) = i - 1
  <2>1. \E r \in S : Cardinality({x \in S : ByKeys(x, r)}) = i - 1
    BY <1>3, <1>5, RankIsReached DEF Rank
  <2>2. o[i] \in S /\ Cardinality({x \in S : ByKeys(x, o[i])}) = i - 1
    BY <1>4, <2>1
  <2> QED BY <1>3, <2>2 DEF Rank
<1>7. IsOrdered(o, S, R)
  BY <1>4, <1>6 DEF IsOrdered
<1> QED BY <1>2, <1>7, ListedForm DEF o

(* Orders of keys. *)
Lex(K, v) == {e \in K \X K : v[e[1]] < v[e[2]] \/ (v[e[1]] = v[e[2]] /\ e[1] < e[2])}
BySecond(K) == {e \in K \X K : e[1][2] < e[2][2]}
Backwards(K) == {e \in K \X K : e[1] > e[2]}

LEMMA LexStrict ==
  ASSUME NEW K, K \in SUBSET Int, NEW v, \A k \in K : v[k] \in Int
  PROVE  /\ StrictOrder(Lex(K, v), K)
         /\ \A j, k \in K : <<j, k>> \in Lex(K, v) <=> v[j] < v[k] \/ (v[j] = v[k] /\ j < k)
<1>1. \A j, k \in K : <<j, k>> \in Lex(K, v) <=> v[j] < v[k] \/ (v[j] = v[k] /\ j < k)
  BY DEF Lex
<1>2. StrictOrder(Lex(K, v), K)
  <2>1. ASSUME NEW x \in K PROVE <<x, x>> \notin Lex(K, v)
    BY <1>1
  <2>2. ASSUME NEW x \in K, NEW y \in K, NEW z \in K, <<x, y>> \in Lex(K, v), <<y, z>> \in Lex(K, v)
        PROVE  <<x, z>> \in Lex(K, v)
    <3>1. /\ v[x] < v[y] \/ (v[x] = v[y] /\ x < y)
          /\ v[y] < v[z] \/ (v[y] = v[z] /\ y < z)
      BY <1>1, <2>2
    <3>2. v[x] < v[z] \/ (v[x] = v[z] /\ x < z)
      BY <3>1
    <3> QED BY <1>1, <3>2
  <2>3. ASSUME NEW x \in K, NEW y \in K, x # y PROVE <<x, y>> \in Lex(K, v) \/ <<y, x>> \in Lex(K, v)
    BY <1>1, <2>3
  <2> QED BY <2>1, <2>2, <2>3 DEF StrictOrder
<1> QED BY <1>1, <1>2

LEMMA BySecondStrict ==
  ASSUME NEW K, \A k \in K : k = <<k[1], k[2]>> /\ k[2] \in Int, \A j, k \in K : j[1] = k[1]
  PROVE  /\ StrictOrder(BySecond(K), K)
         /\ \A j, k \in K : <<j, k>> \in BySecond(K) <=> j[2] < k[2]
<1>1. \A j, k \in K : <<j, k>> \in BySecond(K) <=> j[2] < k[2]
  BY DEF BySecond
<1>2. ASSUME NEW j \in K, NEW k \in K, j # k PROVE j[2] < k[2] \/ k[2] < j[2]
  BY <1>2
<1> QED BY <1>1, <1>2 DEF StrictOrder

LEMMA BackwardsStrict ==
  ASSUME NEW K, K \in SUBSET Int
  PROVE  /\ StrictOrder(Backwards(K), K)
         /\ \A j, k \in K : <<j, k>> \in Backwards(K) <=> j > k
BY DEF Backwards, StrictOrder

LEMMA IntOrderStrict ==
  ASSUME NEW K, K \in SUBSET Int
  PROVE  StrictOrder(IntOrder(K), K) /\ \A j, k \in K : <<j, k>> \in IntOrder(K) <=> j < k
BY DEF IntOrder, StrictOrder

(* A row of an answer agrees if its columns do. *)
LEMMA AnswerRow ==
  ASSUME NEW Cols, NEW l, NEW p, IsRow(l, Cols), IsRow(p, Cols),
         \A c \in Cols : c = "id" \/ c \in Times \/ l[c] = p[c],
         \A c \in Cols : c \in Times => l[c] = Seconds(c, p[c])
  PROVE  SameRow(l, p)
<1>1. \A c \in Cols : c # "id" => l[c] = Seconds(c, p[c])
  BY Instant
<1>2. RowsAgree(l, p, Cols)
  BY <1>1 DEF RowsAgree
<1> QED BY <1>2, SameRowForm

(* The columns of the rows of a table. *)
LEMMA StoredColumns ==
  ASSUME NEW l, NEW p, StoresMatch(l, p), NEW t \in Tables
  PROVE  /\ DOMAIN l[t] = DOMAIN p[t]
         /\ \A k \in DOMAIN l[t], c \in Columns[t] :
               /\ c # "id" => l[t][k][c] = Seconds(c, p[t][k][c])
               /\ c # "id" /\ c \notin Times => l[t][k][c] = p[t][k][c]
<1>1. TablesAgree(l[t], p[t], Columns[t])
  BY DEF StoresMatch
<1> QED BY <1>1, Instant DEF TablesAgree, RowsAgree

LEMMA SecondOf ==
  ASSUME NEW c \in Times, NEW x \in Int
  PROVE  Seconds(c, x) = LiteTime(x)
BY Instant

-------------------------------------------------------------------------------
(* The pointers. *)

LiteFresh(pointers, q) ==
    {k \in DOMAIN pointers : /\ pointers[k].stale => q.allowStale
                             /\ pointers[k].stale /\ q.before # Null =>
                                   pointers[k].staleAt * TicksPerSecond <= q.before}
PgFresh(pointers, q) ==
    {k \in DOMAIN pointers : /\ q.allowStale \/ ~ pointers[k].stale
                             /\ \/ q.before = Null \/ ~ pointers[k].stale
                                \/ (pointers[k].staleAt # Null /\ pointers[k].staleAt <= q.before)}
ComparableIn(pointers, before) == \A k \in DOMAIN pointers :
    LET at == pointers[k].staleAt
    IN  at = Null \/ at <= before \/ at \div TicksPerSecond > before \div TicksPerSecond
CandidateOf(k, r) ==
    [key |-> k, path |-> r.path, kind |-> r.kind, text |-> r.text, rule |-> r.rule,
     stale |-> r.stale, updated |-> r.updated]
CandidateRows(pointers) == [k \in DOMAIN pointers |-> CandidateOf(k, pointers[k])]
AnswerCols == {"key", "path", "kind", "text", "rule", "stale", "updated"}

LEMMA CandidateForms ==
  ASSUME NEW d, NEW q
  PROVE  LET n == IF q.limit <= 0 THEN DefaultLimit ELSE q.limit
         IN  /\ Lite!FetchCandidatePointers(d, q) =
                   Cut(Ordered({CandidateRows(d.pointers)[k] : k \in LiteFresh(d.pointers, q)}, ByPath), q, n)
             /\ Pg!FetchCandidatePointers(d, q) =
                   Cut(Ordered({CandidateRows(d.pointers)[k] : k \in PgFresh(d.pointers, q)}, ByPath), q, n)
<1> DEFINE n == IF q.limit <= 0 THEN DefaultLimit ELSE q.limit
           S == {CandidateRows(d.pointers)[k] : k \in LiteFresh(d.pointers, q)}
           T == {CandidateRows(d.pointers)[k] : k \in PgFresh(d.pointers, q)}
<1>1. Lite!FetchCandidatePointers(d, q) = Lite!SortedCandidates(S, q)
  <2>1. Lite!Where(d.pointers, LAMBDA p : Lite!matchesStaleFilter(p, q)) = LiteFresh(d.pointers, q)
    BY DEF Lite!Where, Lite!matchesStaleFilter, LiteFresh
  <2>2. {Lite!Candidate(k, d.pointers[k]) : k \in LiteFresh(d.pointers, q)} = S
    BY DEF LiteFresh, CandidateRows, CandidateOf, Lite!Candidate
  <2> QED BY <2>1, <2>2 DEF Lite!FetchCandidatePointers
<1>2. Pg!FetchCandidatePointers(d, q) = Pg!SortedCandidates(T, q)
  <2>1. Pg!Where(d.pointers, LAMBDA p : q.allowStale \/ ~ p.stale)
          \cap Pg!Where(d.pointers, LAMBDA p : q.before = Null \/ ~ p.stale
                                                 \/ (p.staleAt # Null /\ p.staleAt <= q.before))
          = PgFresh(d.pointers, q)
    BY DEF Pg!Where, PgFresh
  <2>2. {Pg!Candidate(k, d.pointers[k]) : k \in PgFresh(d.pointers, q)} = T
    BY DEF PgFresh, CandidateRows, CandidateOf, Pg!Candidate
  <2> QED BY <2>1, <2>2 DEF Pg!FetchCandidatePointers
<1> HIDE DEF S, T
<1> QED BY <1>1, <1>2, SharedCandidates DEF S, T

LEMMA CutListed ==
  ASSUME NEW K, IsFiniteSet(K), NEW f, NEW g, NEW Q, SameRows(Listed(K, f, Q), Listed(K, g, Q)),
         NEW n \in Nat, NEW q
  PROVE  SameRows(Cut(Listed(K, f, Q), q, n), Cut(Listed(K, g, Q), q, n))
<1>1. PICK m, x, y : m \in Nat /\ m = Cardinality(K) /\ x = Listed(K, f, Q) /\ y = Listed(K, g, Q)
  BY FS_CardinalityType
<1>2. x = [i \in 1..m |-> x[i]] /\ y = [i \in 1..m |-> y[i]]
  BY <1>1 DEF Listed
<1> QED BY <1>1, <1>2, CutAgree

LEMMA FreshAgree ==
  ASSUME NEW l, NEW p, NEW t \in Int, StoresMatch(l, p), Kept(p, t), NEW q,
         q.before = Null \/ (q.before \in Int /\ ComparableIn(p.pointers, q.before))
  PROVE  LiteFresh(l.pointers, q) = PgFresh(p.pointers, q)
<1> DEFINE a == l.pointers
           b == p.pointers
<1>1. "pointers" \in Tables /\ Columns["pointers"] = PointerCols
  BY DEF Tables, Columns
<1>2. DOMAIN a = DOMAIN b
      /\ \A k \in DOMAIN a : a[k].stale = b[k].stale /\ a[k].staleAt = Seconds("staleAt", b[k].staleAt)
  <2>1. {"stale", "staleAt"} \subseteq PointerCols /\ "stale" \notin Times
    BY DEF PointerCols, Times
  <2> QED BY <1>1, <2>1, StoredColumns
<1>3. \A k \in DOMAIN b : b[k].stale => b[k].staleAt \in Int
  BY DEF Kept, PointersKept
<1>4. Null \notin Int
  BY ParityAssumption
<1> HIDE DEF a, b
<1>5. ASSUME NEW k \in DOMAIN b, b[k].stale
      PROVE  a[k].staleAt = LiteTime(b[k].staleAt) /\ b[k].staleAt \in Int
  BY <1>2, <1>3, <1>5, SecondOf DEF Times
<1>6. ASSUME NEW k \in DOMAIN b, b[k].stale, q.before # Null
      PROVE  a[k].staleAt * TicksPerSecond <= q.before
             <=> (b[k].staleAt # Null /\ b[k].staleAt <= q.before)
  <2>1. PICK x \in Int : x = b[k].staleAt
    BY <1>3, <1>6
  <2>2. PICK z \in Int : z = q.before
    BY <1>6
  <2>3. x <= z \/ LiteTime(x) > LiteTime(z)
    <3>1. x = Null \/ x <= z \/ x \div TicksPerSecond > z \div TicksPerSecond
      BY <1>6, <2>1, <2>2 DEF ComparableIn, b
    <3> QED BY <1>4, <3>1 DEF LiteTime
  <2>4. LiteTime(x) * TicksPerSecond <= z <=> x <= z
    <3>1. /\ LiteTime(x) \in Int /\ LiteTime(z) \in Int /\ TicksPerSecond \in Int /\ TicksPerSecond > 0
          /\ LiteTime(x) * TicksPerSecond <= x /\ z < LiteTime(z) * TicksPerSecond + TicksPerSecond
      BY WholeSeconds, ParityAssumption
    <3>2. ASSUME NEW T \in Int, T > 0, NEW i \in Int, NEW j \in Int, i > j PROVE i * T >= j * T + T
      <4>1. i - j >= 1 BY <3>2
      <4>2. (i - j) * T >= T BY <3>2, <4>1
      <4> QED BY <3>2, <4>2
    <3>3. CASE x <= z
      BY <3>1, <3>3
    <3>4. CASE LiteTime(x) > LiteTime(z)
      <4>1. LiteTime(x) * TicksPerSecond >= LiteTime(z) * TicksPerSecond + TicksPerSecond
        BY <3>1, <3>2, <3>4
      <4>2. PICK u \in Int, v \in Int : u = LiteTime(x) * TicksPerSecond /\ v = LiteTime(z) * TicksPerSecond
        BY <3>1
      <4> QED BY <3>1, <4>1, <4>2
    <3> QED BY <2>3, <3>3, <3>4
  <2>5. a[k].staleAt = LiteTime(x)
    BY <1>5, <1>6, <2>1
  <2> QED BY <1>4, <2>1, <2>2, <2>4, <2>5
<1>7. ASSUME NEW k \in DOMAIN b
      PROVE  k \in LiteFresh(a, q) <=> k \in PgFresh(b, q)
  <2>1. CASE ~ b[k].stale
    <3>1. ~ a[k].stale BY <1>2, <2>1
    <3> QED BY <1>2, <2>1, <3>1 DEF LiteFresh, PgFresh
  <2>2. CASE b[k].stale
    <3>1. a[k].stale BY <1>2, <2>2
    <3> QED BY <1>2, <1>6, <2>2, <3>1 DEF LiteFresh, PgFresh
  <2> QED BY <2>1, <2>2
<1>8. LiteFresh(a, q) \subseteq DOMAIN b /\ PgFresh(b, q) \subseteq DOMAIN b
  BY <1>2 DEF LiteFresh, PgFresh
<1>9. LiteFresh(a, q) = PgFresh(b, q)
  BY <1>7, <1>8
<1> QED BY <1>9 DEF a, b

LEMMA CandidateRow ==
  \A k, r : /\ CandidateOf(k, r).key = k /\ CandidateOf(k, r).path = r.path
            /\ IsRow(CandidateOf(k, r), AnswerCols)
            /\ \A c \in AnswerCols \ {"key"} : CandidateOf(k, r)[c] = r[c]
            /\ CandidateOf(k, r)["key"] = k
BY DEF CandidateOf, IsRow, AnswerCols

LEMMA CandidateSame ==
  ASSUME NEW l, NEW p, StoresMatch(l, p), NEW k \in DOMAIN p.pointers
  PROVE  SameRow(CandidateOf(k, l.pointers[k]), CandidateOf(k, p.pointers[k]))
<1>1. "pointers" \in Tables /\ Columns["pointers"] = PointerCols
  BY DEF Tables, Columns
<1>2. AnswerCols \ {"key"} \subseteq PointerCols /\ "id" \notin AnswerCols /\ "key" \notin Times
  BY DEF AnswerCols, PointerCols, Times
<1>3. k \in DOMAIN l.pointers /\ \A c \in AnswerCols \ {"key"} : l.pointers[k][c] = Seconds(c, p.pointers[k][c])
  BY <1>1, <1>2, StoredColumns
<1>4. \A c \in AnswerCols \ {"key"} : c \notin Times => l.pointers[k][c] = p.pointers[k][c]
  BY <1>3, Instant
<1>5. PICK x, y : x = CandidateOf(k, l.pointers[k]) /\ y = CandidateOf(k, p.pointers[k])
  OBVIOUS
<1>6. IsRow(x, AnswerCols) /\ IsRow(y, AnswerCols)
  BY <1>5, CandidateRow
<1>7. \A c \in AnswerCols : /\ c \in Times \/ x[c] = y[c]
                            /\ c \in Times => x[c] = Seconds(c, y[c])
  BY <1>2, <1>3, <1>4, <1>5, CandidateRow
<1> QED BY <1>5, <1>6, <1>7, AnswerRow

LEMMA CandidatesAgree ==
  ASSUME NEW l, NEW p, NEW t \in Int, StoresMatch(l, p), Kept(p, t), NEW q, q.limit \in Int,
         q.before = Null \/ (q.before \in Int /\ ComparableIn(p.pointers, q.before))
  PROVE  SameRows(Lite!FetchCandidatePointers(l, q), Pg!FetchCandidatePointers(p, q))
<1> DEFINE n == IF q.limit <= 0 THEN DefaultLimit ELSE q.limit
           K == PgFresh(p.pointers, q)
           f == CandidateRows(l.pointers)
           g == CandidateRows(p.pointers)
           v == [k \in K |-> p.pointers[k].path]
           Q == Lex(K, v)
           S == {f[k] : k \in K}
           T == {g[k] : k \in K}
<1>1. LiteFresh(l.pointers, q) = K
  BY FreshAgree
<1>2. Lite!FetchCandidatePointers(l, q) = Cut(Ordered(S, ByPath), q, n)
  BY <1>1, CandidateForms
<1>3. Pg!FetchCandidatePointers(p, q) = Cut(Ordered(T, ByPath), q, n)
  BY CandidateForms
<1>4. n \in Nat
  BY ParityAssumption
<1>5. K \in SUBSET DOMAIN p.pointers /\ IsFiniteSet(K) /\ K \in SUBSET Int /\ \A k \in K : p.pointers[k].path \in Int
  <2>1. K \in SUBSET DOMAIN p.pointers
    BY DEF PgFresh
  <2> HIDE DEF K
  <2> QED BY <2>1, FS_Subset DEF Kept, PointersKept, KeysKept
<1>6. \A k \in K : k \in DOMAIN l.pointers /\ l.pointers[k].path = p.pointers[k].path
  <2>1. "pointers" \in Tables /\ "path" \in Columns["pointers"] /\ "path" \notin Times
    BY DEF Tables, Columns, PointerCols, Times
  <2> QED BY <1>5, <2>1, StoredColumns
<1>7. \A k \in K : /\ f[k] = CandidateOf(k, l.pointers[k]) /\ f[k].key = k /\ f[k].path = v[k]
                   /\ g[k] = CandidateOf(k, p.pointers[k]) /\ g[k].key = k /\ g[k].path = v[k]
  BY <1>5, <1>6, CandidateRow DEF CandidateRows
<1>8. \A k \in K : v[k] \in Int
  BY <1>5
<1>9. IsImage(S, K, f) /\ IsImage(T, K, g)
  BY DEF IsImage
<1>10. \A k \in K : SameRow(f[k], g[k])
  BY <1>5, <1>7, CandidateSame
<1> HIDE DEF n, K, f, g, v, S, T
<1>11. /\ StrictOrder(Q, K)
       /\ \A j, k \in K : <<j, k>> \in Q <=> v[j] < v[k] \/ (v[j] = v[k] /\ j < k)
  BY <1>5, <1>8, LexStrict
<1> HIDE DEF Q
<1>12. \A j, k \in K : /\ ByPath(f[j], f[k]) <=> <<j, k>> \in Q
                       /\ ByPath(g[j], g[k]) <=> <<j, k>> \in Q
  <2>1. ASSUME NEW j \in K, NEW k \in K
        PROVE  /\ f[j].path = v[j] /\ f[k].path = v[k] /\ f[j].key = j /\ f[k].key = k
               /\ g[j].path = v[j] /\ g[k].path = v[k] /\ g[j].key = j /\ g[k].key = k
    BY <1>7
  <2>2. ASSUME NEW j \in K, NEW k \in K
        PROVE  /\ ByPath(f[j], f[k]) <=> v[j] < v[k] \/ (v[j] = v[k] /\ j < k)
               /\ ByPath(g[j], g[k]) <=> v[j] < v[k] \/ (v[j] = v[k] /\ j < k)
    BY <2>1 DEF ByPath
  <2> QED BY <1>11, <2>2
<1>13. Ordered(S, ByPath) = Listed(K, f, Q) /\ Ordered(T, ByPath) = Listed(K, g, Q)
  BY <1>5, <1>9, <1>11, <1>12, ByPathListed
<1>14. SameRows(Listed(K, f, Q), Listed(K, g, Q))
  BY <1>5, <1>10, <1>11, ListedSameRows
<1>15. SameRows(Cut(Listed(K, f, Q), q, n), Cut(Listed(K, g, Q), q, n))
  BY <1>4, <1>5, <1>14, CutListed
<1> QED BY <1>2, <1>3, <1>13, <1>15

LEMMA NotARow ==
  /\ \A r, Cols : IsRow(r, Cols) /\ Cols # {} => r # NotFound
  /\ Lite!NotFound = NotFound /\ Pg!NotFound = NotFound
<1>1. DOMAIN NotFound = {}
  BY DEF NotFound
<1>2. Lite!NotFound = NotFound /\ Pg!NotFound = NotFound
  BY DEF NotFound, Lite!NotFound, Pg!NotFound
<1>3. ASSUME NEW r, NEW Cols, IsRow(r, Cols), Cols # {} PROVE r # NotFound
  <2>1. DOMAIN r = Cols
    BY <1>3 DEF IsRow
  <2> QED BY <1>1, <1>3, <2>1
<1> QED BY <1>2, <1>3

LEMMA InventoryAgrees ==
  ASSUME NEW l, NEW p, StoresMatch(l, p)
  PROVE  Lite!ListPointerInventory(l) = Pg!ListPointerInventory(p)
<1> DEFINE a == l.pointers
           b == p.pointers
           before(x, y) == x.path < y.path
           lp == {a[k].path : k \in DOMAIN a}
           pp == {b[k].path : k \in DOMAIN b}
           lr(x) == [path |-> x, stale |-> Lite!Where(a, LAMBDA r : r.path = x /\ r.stale) # {}]
           pr(x) == [path |-> x, stale |-> \E k \in DOMAIN b : b[k].path = x /\ b[k].stale]
           S == {lr(x) : x \in lp}
           T == {pr(x) : x \in pp}
<1>1. "pointers" \in Tables /\ {"path", "stale"} \subseteq Columns["pointers"]
      /\ "path" \notin Times /\ "stale" \notin Times
  BY DEF Tables, Columns, PointerCols, Times
<1>2. DOMAIN a = DOMAIN b /\ \A k \in DOMAIN a : a[k].path = b[k].path /\ a[k].stale = b[k].stale
  BY <1>1, StoredColumns
<1>3. Lite!ListPointerInventory(l) = Lite!Ordered(S, before)
  BY DEF Lite!ListPointerInventory
<1>4. Pg!ListPointerInventory(p) = Pg!Ordered(T, before)
  BY DEF Pg!ListPointerInventory
<1> HIDE DEF a, b
<1>5. lp = pp
  BY <1>2
<1>6. ASSUME NEW x PROVE lr(x) = pr(x)
  <2>1. Lite!Where(a, LAMBDA r : r.path = x /\ r.stale) = {k \in DOMAIN a : a[k].path = x /\ a[k].stale}
    BY DEF Lite!Where
  <2>2. (Lite!Where(a, LAMBDA r : r.path = x /\ r.stale) # {}) = (\E k \in DOMAIN b : b[k].path = x /\ b[k].stale)
    BY <1>2, <2>1
  <2> QED BY <2>2
<1> HIDE DEF lr, pr, lp, pp
<1>7. S = T
  BY <1>5, <1>6
<1> HIDE DEF S, T
<1>8. Lite!Ordered(S, before) = Pg!Ordered(S, before)
  BY DEF Lite!Ordered, Pg!Ordered, Lite!Cardinality, Pg!Cardinality
<1> QED BY <1>3, <1>4, <1>7, <1>8

LEMMA PointerAgrees ==
  ASSUME NEW l, NEW p, StoresMatch(l, p), NEW k
  PROVE  SameAnswer(Lite!LookupPointerByKey(l, k), Pg!LookupPointerByKey(p, k))
<1>1. "pointers" \in Tables /\ "stale" \in Columns["pointers"] /\ "stale" \notin Times
  BY DEF Tables, Columns, PointerCols, Times
<1>2. DOMAIN l.pointers = DOMAIN p.pointers
      /\ \A x \in DOMAIN l.pointers : l.pointers[x].stale = p.pointers[x].stale
  BY <1>1, StoredColumns
<1>3. Lite!Where(l.pointers, LAMBDA r : ~ r.stale) = {x \in DOMAIN l.pointers : ~ l.pointers[x].stale}
  BY DEF Lite!Where
<1>4. CASE k \in DOMAIN l.pointers /\ ~ l.pointers[k].stale
  <2>1. PICK x, y : x = CandidateOf(k, l.pointers[k]) /\ y = CandidateOf(k, p.pointers[k])
    OBVIOUS
  <2>2. Lite!LookupPointerByKey(l, k) = x
    BY <1>3, <1>4, <2>1 DEF Lite!LookupPointerByKey, Lite!Candidate, CandidateOf
  <2>3. Pg!LookupPointerByKey(p, k) = y
    BY <1>2, <1>4, <2>1 DEF Pg!LookupPointerByKey, Pg!Candidate, CandidateOf
  <2>4. SameRow(x, y)
    BY <1>2, <1>4, <2>1, CandidateSame
  <2>5. x # NotFound /\ y # NotFound
    BY <2>1, CandidateRow, NotARow DEF AnswerCols
  <2>6. SameAnswer(x, y)
    BY <2>4, <2>5 DEF SameAnswer
  <2> QED BY <2>2, <2>3, <2>6
<1>5. CASE ~ (k \in DOMAIN l.pointers /\ ~ l.pointers[k].stale)
  <2>1. Lite!LookupPointerByKey(l, k) = NotFound
    BY <1>3, <1>5, NotARow DEF Lite!LookupPointerByKey
  <2>2. Pg!LookupPointerByKey(p, k) = NotFound
    BY <1>2, <1>5, NotARow DEF Pg!LookupPointerByKey
  <2> QED BY <2>1, <2>2 DEF SameAnswer
<1> QED BY <1>4, <1>5

LEMMA ScopesAgree ==
  ASSUME NEW l, NEW p, StoresMatch(l, p), NEW k
  PROVE  Lite!FetchReceiptScope(l, k) = Pg!FetchReceiptScope(p, k)
<1> DEFINE C == {"task", "phase", "pointers", "scope", "baseline", "actor"}
<1>1. "receipts" \in Tables /\ C \subseteq Columns["receipts"] /\ C \cap Times = {} /\ "id" \notin C
  BY DEF Tables, Columns, Times
<1>2. DOMAIN l.receipts = DOMAIN p.receipts
      /\ \A x \in DOMAIN l.receipts, c \in C : l.receipts[x][c] = p.receipts[x][c]
  BY <1>1, StoredColumns
<1>3. CASE k \notin DOMAIN l.receipts
  BY <1>2, <1>3, NotARow DEF Lite!FetchReceiptScope, Pg!FetchReceiptScope
<1>4. CASE k \in DOMAIN l.receipts
  <2>1. /\ l.receipts[k].task = p.receipts[k].task /\ l.receipts[k].phase = p.receipts[k].phase
        /\ l.receipts[k].pointers = p.receipts[k].pointers /\ l.receipts[k].scope = p.receipts[k].scope
        /\ l.receipts[k].baseline = p.receipts[k].baseline /\ l.receipts[k].actor = p.receipts[k].actor
    BY <1>2, <1>4
  <2> QED BY <1>2, <1>4, <2>1 DEF Lite!FetchReceiptScope, Pg!FetchReceiptScope
<1> QED BY <1>3, <1>4

-------------------------------------------------------------------------------
(* The runs. *)

RunAnswerCols == {"id", "receipt", "request", "status", "files", "outcome", "created", "task", "phase"}
RunOf(receipts, r) ==
    [id |-> r.id, receipt |-> r.receipt, request |-> r.request, status |-> r.status,
     files |-> r.files, outcome |-> r.outcome, created |-> r.created,
     task |-> receipts[r.receipt].task, phase |-> receipts[r.receipt].phase]
RunRows(d) == [i \in DOMAIN d.runs |-> RunOf(d.receipts, d.runs[i])]

LEMMA RunAnswerForm ==
  /\ \A d, r : Lite!RunRow(d, r) = RunOf(d.receipts, r) /\ Pg!RunRow(d, r) = RunOf(d.receipts, r)
  /\ \A x, r : /\ IsRow(RunOf(x, r), RunAnswerCols)
               /\ RunOf(x, r).id = r.id /\ RunOf(x, r).created = r.created
               /\ \A c \in RunAnswerCols \ {"task", "phase"} : RunOf(x, r)[c] = r[c]
               /\ RunOf(x, r)["task"] = x[r.receipt].task /\ RunOf(x, r)["phase"] = x[r.receipt].phase
<1>1. \A d, r : Lite!RunRow(d, r) = RunOf(d.receipts, r) /\ Pg!RunRow(d, r) = RunOf(d.receipts, r)
  BY DEF Lite!RunRow, Pg!RunRow, RunOf
<1>2. \A x, r : IsRow(RunOf(x, r), RunAnswerCols)
  BY DEF RunOf, IsRow, RunAnswerCols
<1>3. \A x, r : RunOf(x, r).id = r.id /\ RunOf(x, r).created = r.created
  BY DEF RunOf
<1>4. \A x, r : \A c \in RunAnswerCols \ {"task", "phase"} : RunOf(x, r)[c] = r[c]
  BY DEF RunOf, RunAnswerCols
<1>5. \A x, r : RunOf(x, r)["task"] = x[r.receipt].task /\ RunOf(x, r)["phase"] = x[r.receipt].phase
  BY DEF RunOf
<1> QED BY <1>1, <1>2, <1>3, <1>4, <1>5

LEMMA RunSame ==
  ASSUME NEW l, NEW p, StoresMatch(l, p), NEW t, Kept(p, t), NEW i \in DOMAIN p.runs
  PROVE  SameRow(RunOf(l.receipts, l.runs[i]), RunOf(p.receipts, p.runs[i]))
<1> DEFINE D == RunAnswerCols \ {"task", "phase", "id"}
<1>1. "runs" \in Tables /\ "receipts" \in Tables /\ {"task", "phase"} \subseteq Columns["receipts"]
      /\ RunAnswerCols \ {"task", "phase"} \subseteq Columns["runs"] /\ "receipt" \in Columns["runs"]
      /\ {"task", "phase", "receipt"} \cap Times = {}
  BY DEF Tables, Columns, Times, RunAnswerCols
<1>2. i \in DOMAIN l.runs
      /\ \A c \in D : /\ l.runs[i][c] = Seconds(c, p.runs[i][c])
                      /\ c \notin Times => l.runs[i][c] = p.runs[i][c]
  BY <1>1, StoredColumns
<1>2a. \A c \in RunAnswerCols : c \in D \/ c \in {"task", "phase", "id"}
  OBVIOUS
<1>3. p.runs[i].receipt \in DOMAIN p.receipts
  BY DEF Kept, RunsKept
<1>4. l.runs[i].receipt = p.runs[i].receipt
  <2>1. i \in DOMAIN l.runs /\ "receipt" \in Columns["runs"] /\ "receipt" # "id" /\ "receipt" \notin Times
    BY <1>1, <1>2
  <2> QED BY <1>1, <2>1, StoredColumns
<1>5. /\ l.receipts[l.runs[i].receipt].task = p.receipts[p.runs[i].receipt].task
      /\ l.receipts[l.runs[i].receipt].phase = p.receipts[p.runs[i].receipt].phase
  BY <1>1, <1>3, <1>4, StoredColumns
<1>6. PICK x, y : x = RunOf(l.receipts, l.runs[i]) /\ y = RunOf(p.receipts, p.runs[i])
  OBVIOUS
<1>7. IsRow(x, RunAnswerCols) /\ IsRow(y, RunAnswerCols)
  BY <1>6, RunAnswerForm
<1>8. x["task"] = y["task"] /\ x["phase"] = y["phase"]
  BY <1>5, <1>6, RunAnswerForm
<1>9. \A c \in D : x[c] = l.runs[i][c] /\ y[c] = p.runs[i][c]
  BY <1>6, RunAnswerForm
<1> HIDE DEF D
<1>10. \A c \in RunAnswerCols : c = "id" \/ c \in Times \/ x[c] = y[c]
  <2>1. ASSUME NEW c \in RunAnswerCols, c # "id", c \notin Times PROVE x[c] = y[c]
    <3>1. CASE c = "task" BY <1>8, <3>1
    <3>2. CASE c = "phase" BY <1>8, <3>2
    <3>3. CASE c # "task" /\ c # "phase"
      <4>1. c \in D
        BY <1>2a, <2>1, <3>3
      <4> QED BY <1>2, <1>9, <2>1, <4>1
    <3> QED BY <3>1, <3>2, <3>3
  <2> QED BY <2>1
<1>11. \A c \in RunAnswerCols : c \in Times => x[c] = Seconds(c, y[c])
  <2>1. "task" \notin Times /\ "phase" \notin Times /\ "id" \notin Times
    BY DEF Times
  <2>2. ASSUME NEW c \in RunAnswerCols, c \in Times PROVE x[c] = Seconds(c, y[c])
    <3>1. c \in D
      BY <1>2a, <2>1, <2>2
    <3> QED BY <1>2, <1>9, <3>1
  <2> QED BY <2>2
<1> QED BY <1>6, <1>7, <1>10, <1>11, AnswerRow

LEMMA RunAgrees ==
  ASSUME NEW l, NEW p, StoresMatch(l, p), NEW t, Kept(p, t), NEW s, Kept(l, s), NEW i \in DOMAIN l.runs
  PROVE  SameAnswer(Lite!LookupRunHistory(l, l.runs[i].id), Pg!LookupRunHistory(p, p.runs[i].id))
<1>1. "runs" \in Tables
  BY DEF Tables
<1>2. DOMAIN l.runs = DOMAIN p.runs
  BY <1>1, StoredColumns
<1>3. ASSUME NEW d, NEW u, Kept(d, u), i \in DOMAIN d.runs
      PROVE  {j \in DOMAIN d.runs : d.runs[j].id = d.runs[i].id} = {i}
  <2>1. PICK n \in Nat : DOMAIN d.runs = 1..n
    BY <1>3 DEF Kept, NumbersKept, IsLog
  <2>2. \A j, k \in 1..n : j < k => d.runs[j].id < d.runs[k].id
    BY <1>3, <2>1 DEF Kept, NumbersKept
  <2>3. \A j \in 1..n : d.runs[j].id \in Int
    BY <1>3, <2>1 DEF Kept, NumbersKept
  <2>4. ASSUME NEW j \in 1..n, d.runs[j].id = d.runs[i].id PROVE j = i
    <3>1. i \in 1..n /\ d.runs[i].id \in Int
      BY <1>3, <2>1, <2>3
    <3>2. CASE j < i BY <2>2, <2>3, <2>4, <3>1, <3>2
    <3>3. CASE i < j BY <2>2, <2>3, <2>4, <3>1, <3>3
    <3> QED BY <3>1, <3>2, <3>3
  <2> QED BY <1>3, <2>1, <2>4
<1>4. {j \in DOMAIN l.runs : l.runs[j].id = l.runs[i].id} = {i}
  BY <1>3
<1>5. {j \in DOMAIN p.runs : p.runs[j].id = p.runs[i].id} = {i}
  BY <1>2, <1>3
<1>6. {i} # {} /\ (CHOOSE j \in {i} : TRUE) = i
  OBVIOUS
<1>7. Lite!LookupRunHistory(l, l.runs[i].id) = Lite!RunRow(l, l.runs[i])
  BY <1>4, <1>6 DEF Lite!LookupRunHistory
<1>8. Pg!LookupRunHistory(p, p.runs[i].id) = Pg!RunRow(p, p.runs[i])
  BY <1>5, <1>6 DEF Pg!LookupRunHistory
<1>9. PICK x, y : x = RunOf(l.receipts, l.runs[i]) /\ y = RunOf(p.receipts, p.runs[i])
  OBVIOUS
<1>10. SameRow(x, y)
  BY <1>2, <1>9, RunSame
<1>11. x # NotFound /\ y # NotFound
  BY <1>9, RunAnswerForm, NotARow DEF RunAnswerCols
<1>12. SameAnswer(x, y)
  BY <1>10, <1>11 DEF SameAnswer
<1> QED BY <1>7, <1>8, <1>9, <1>12, RunAnswerForm

-------------------------------------------------------------------------------
(* The work items of a receipt. *)

ItemAnswerCols == {"key", "status", "updated"}
ItemOf(k, r) == [key |-> k[2], status |-> r.status, updated |-> r.updated]
ItemKeys(items, receipt) == {x \in DOMAIN items : x[1] = receipt}
ItemListing(items, receipt) == [k \in ItemKeys(items, receipt) |-> ItemOf(k, items[k])]

StatusSet(rows) == {rows[i].status : i \in DOMAIN rows}

LEMMA ItemForm ==
  \A k, r : /\ IsRow(ItemOf(k, r), ItemAnswerCols) /\ ItemOf(k, r).key = k[2]
            /\ ItemOf(k, r)["key"] = k[2] /\ ItemOf(k, r)["status"] = r.status /\ ItemOf(k, r)["updated"] = r.updated
BY DEF ItemOf, IsRow, ItemAnswerCols

LEMMA ItemsForms ==
  ASSUME NEW d, NEW receipt
  PROVE  LET S == {ItemListing(d.items, receipt)[k] : k \in ItemKeys(d.items, receipt)}
         IN  Lite!ListWorkItems(d, receipt) = Ordered(S, ByKeys) /\ Pg!ListWorkItems(d, receipt) = Ordered(S, ByKeys)
<1> DEFINE K == ItemKeys(d.items, receipt)
           S == {ItemListing(d.items, receipt)[k] : k \in K}
           T == {[key |-> k[2], status |-> d.items[k].status, updated |-> d.items[k].updated] :
                    k \in {x \in DOMAIN d.items : x[1] = receipt}}
<1>1. S = T
  <2>1. K = {x \in DOMAIN d.items : x[1] = receipt}
    BY DEF ItemKeys
  <2>2. \A k \in K : ItemListing(d.items, receipt)[k]
                       = [key |-> k[2], status |-> d.items[k].status, updated |-> d.items[k].updated]
    BY DEF ItemListing, ItemOf
  <2> QED BY <2>1, <2>2
<1>2. Lite!ListWorkItems(d, receipt) = Ordered(T, ByKeys)
  BY DEF Lite!ListWorkItems, Lite!Ordered, Lite!Cardinality, Ordered, Cardinality, ByKeys
<1>3. Pg!ListWorkItems(d, receipt) = Ordered(T, ByKeys)
  BY DEF Pg!ListWorkItems, Pg!Ordered, Pg!Cardinality, Ordered, Cardinality, ByKeys
<1> HIDE DEF S, T
<1>4. Lite!ListWorkItems(d, receipt) = Ordered(S, ByKeys) /\ Pg!ListWorkItems(d, receipt) = Ordered(S, ByKeys)
  BY <1>1, <1>2, <1>3
<1> QED BY <1>4 DEF S

LEMMA ItemsListed ==
  ASSUME NEW l, NEW p, StoresMatch(l, p), NEW t, Kept(p, t), NEW receipt
  PROVE  \E m \in Nat :
           LET a == Lite!ListWorkItems(l, receipt)
               b == Pg!ListWorkItems(p, receipt)
           IN  /\ a = [i \in 1..m |-> a[i]] /\ b = [i \in 1..m |-> b[i]]
               /\ SameRows(a, b)
               /\ StatusSet(a) = StatusSet(b)
<1> DEFINE K == ItemKeys(p.items, receipt)
           f == ItemListing(l.items, receipt)
           g == ItemListing(p.items, receipt)
           Q == BySecond(K)
           S == {f[k] : k \in K}
           T == {g[k] : k \in K}
           a == Lite!ListWorkItems(l, receipt)
           b == Pg!ListWorkItems(p, receipt)
<1>1. "items" \in Tables /\ {"status", "updated"} \subseteq Columns["items"] /\ "status" \notin Times /\ "key" \notin Times
  BY DEF Tables, Columns, Times
<1>2. /\ DOMAIN l.items = DOMAIN p.items
      /\ \A k \in DOMAIN l.items : /\ l.items[k].status = p.items[k].status
                                   /\ l.items[k].updated = Seconds("updated", p.items[k].updated)
  BY <1>1, StoredColumns
<1>3. ItemKeys(l.items, receipt) = K
  BY <1>2 DEF ItemKeys
<1>4. a = Ordered(S, ByKeys)
  BY <1>3, ItemsForms
<1>5. b = Ordered(T, ByKeys)
  BY ItemsForms
<1>6. /\ IsFiniteSet(K) /\ \A k \in K : k = <<k[1], k[2]>> /\ k[2] \in Int
      /\ \A j, k \in K : j[1] = k[1]
      /\ K \in SUBSET DOMAIN p.items
  <2>1. K \in SUBSET DOMAIN p.items /\ \A k \in K : k[1] = receipt
    BY DEF ItemKeys
  <2> HIDE DEF K
  <2> QED BY <2>1, FS_Subset DEF Kept, PairsKept
<1>7. \A k \in K : f[k] = ItemOf(k, l.items[k]) /\ g[k] = ItemOf(k, p.items[k])
  BY <1>3 DEF ItemListing
<1>8. IsImage(S, K, f) /\ IsImage(T, K, g)
  BY DEF IsImage
<1> HIDE DEF K, f, g, S, T, a, b
<1>9. StrictOrder(Q, K) /\ \A j, k \in K : <<j, k>> \in Q <=> j[2] < k[2]
  BY <1>6, BySecondStrict
<1> HIDE DEF Q
<1>10. \A k \in K : f[k].key = k[2] /\ g[k].key = k[2]
  BY <1>7, ItemForm
<1>11. \A k \in K : f[k].status = g[k].status /\ f[k].updated = Seconds("updated", g[k].updated)
  BY <1>2, <1>6, <1>7, ItemForm
<1>12. ASSUME NEW k \in K PROVE SameRow(f[k], g[k])
  <2>1. PICK x, y : x = f[k] /\ y = g[k]
    OBVIOUS
  <2>2. IsRow(x, ItemAnswerCols) /\ IsRow(y, ItemAnswerCols)
    BY <1>7, <2>1, ItemForm
  <2>3. x["key"] = y["key"] /\ x["status"] = y["status"] /\ x["updated"] = Seconds("updated", y["updated"])
    BY <1>10, <1>11, <2>1
  <2>4. \A c \in ItemAnswerCols : c \in {"key", "status", "updated"}
    BY DEF ItemAnswerCols
  <2>5. \A c \in ItemAnswerCols : c = "id" \/ c \in Times \/ x[c] = y[c]
    <3>1. "updated" \in Times BY DEF Times
    <3> QED BY <2>3, <2>4, <3>1
  <2>6. \A c \in ItemAnswerCols : c \in Times => x[c] = Seconds(c, y[c])
    BY <1>1, <2>3, <2>4
  <2> QED BY <2>1, <2>2, <2>5, <2>6, AnswerRow
<1>13. \A j, k \in K : (ByKeys(f[j], f[k]) <=> <<j, k>> \in Q) /\ (ByKeys(g[j], g[k]) <=> <<j, k>> \in Q)
  <2>1. ASSUME NEW j \in K, NEW k \in K
        PROVE  (ByKeys(f[j], f[k]) <=> j[2] < k[2]) /\ (ByKeys(g[j], g[k]) <=> j[2] < k[2])
    BY <1>10 DEF ByKeys
  <2> QED BY <1>9, <2>1
<1>14. a = Listed(K, f, Q) /\ b = Listed(K, g, Q)
  BY <1>4, <1>5, <1>6, <1>8, <1>9, <1>13, ByKeysListed
<1>15. SameRows(a, b)
  BY <1>6, <1>9, <1>12, <1>14, ListedSameRows
<1>16. PICK m \in Nat : m = Cardinality(K)
  BY <1>6, FS_CardinalityType
<1>17. a = [i \in 1..m |-> a[i]] /\ b = [i \in 1..m |-> b[i]]
  BY <1>14, <1>16 DEF Listed
<1>18. \A i \in 1..m : a[i].status = b[i].status
  <2>1. ASSUME NEW i \in 1..m PROVE a[i].status = b[i].status
    <3>1. PICK k \in K : k = Enumerated(K, Q)[i]
      BY <1>6, <1>9, <1>16, EnumeratedOnce
    <3>2. a[i] = f[k] /\ b[i] = g[k]
      BY <1>14, <1>16, <3>1 DEF Listed
    <3> QED BY <1>11, <3>2
  <2> QED BY <2>1
<1>19. StatusSet(a) = StatusSet(b)
  BY <1>17, <1>18 DEF StatusSet
<1> QED BY <1>15, <1>17, <1>19 DEF a, b

-------------------------------------------------------------------------------
(* The newest run of a receipt. *)

RunIndexes(runs, receipt) == {j \in DOMAIN runs : runs[j].receipt = receipt}
NewestIndex(K) == Enumerated(K, Backwards(K))[1]

LEMMA NewestIsLast ==
  ASSUME NEW d, NEW t, Kept(d, t), NEW j \in DOMAIN d.runs, NEW k \in DOMAIN d.runs
  PROVE  NewestRun(d.runs[j], d.runs[k]) <=> j > k
<1>1. PICK n \in Nat : DOMAIN d.runs = 1..n
  BY DEF Kept, NumbersKept, IsLog
<1>2. PICK a, b, x, y : a = d.runs[j].created /\ b = d.runs[k].created /\ x = d.runs[j].id /\ y = d.runs[k].id
  OBVIOUS
<1>3. a \in Int /\ b \in Int /\ x \in Int /\ y \in Int
  BY <1>2 DEF Kept, NumbersKept, RunsKept
<1>4. (j < k => a <= b /\ x < y) /\ (k < j => b <= a /\ y < x)
  BY <1>2 DEF Kept, NumbersKept, RunsKept
<1>5. j \in Int /\ k \in Int
  BY <1>1
<1>6. (j = k) => (a = b /\ x = y)
  BY <1>2
<1>7. NewestRun(d.runs[j], d.runs[k]) <=> a > b \/ (a = b /\ x > y)
  BY <1>2 DEF NewestRun
<1> QED BY <1>3, <1>4, <1>5, <1>6, <1>7

LEMMA RunsListed ==
  ASSUME NEW d, NEW t, Kept(d, t), NEW K, K \in SUBSET DOMAIN d.runs, NEW f, NEW S, IsImage(S, K, f),
         \A j \in K : f[j].created = d.runs[j].created /\ f[j].id = d.runs[j].id
  PROVE  /\ IsFiniteSet(K) /\ StrictOrder(Backwards(K), K)
         /\ Ordered(S, NewestRun) = Listed(K, f, Backwards(K))
<1>1. PICK n \in Nat : DOMAIN d.runs = 1..n
  BY DEF Kept, NumbersKept, IsLog
<1>2. IsFiniteSet(K) /\ K \in SUBSET Int
  <2>1. IsFiniteSet(1..n)
    BY FS_Interval
  <2> QED BY <1>1, <2>1, FS_Subset
<1>3. StrictOrder(Backwards(K), K) /\ \A j, k \in K : <<j, k>> \in Backwards(K) <=> j > k
  BY <1>2, BackwardsStrict
<1>4. ASSUME NEW j \in K, NEW k \in K PROVE NewestRun(f[j], f[k]) <=> <<j, k>> \in Backwards(K)
  <2>1. NewestRun(d.runs[j], d.runs[k]) <=> j > k
    BY NewestIsLast
  <2>2. NewestRun(f[j], f[k]) <=> NewestRun(d.runs[j], d.runs[k])
    BY DEF NewestRun
  <2> QED BY <1>3, <2>1, <2>2
<1> QED BY <1>2, <1>3, <1>4, NewestRunListed

LEMMA LatestForm ==
  ASSUME NEW d, NEW t, Kept(d, t), NEW receipt
  PROVE  LET K == RunIndexes(d.runs, receipt)
             run == IF K = {} THEN NoRun ELSE d.runs[NewestIndex(K)]
         IN  /\ Lite!LatestRun(d, receipt) = run /\ Pg!LatestRun(d, receipt) = run
             /\ K # {} => NewestIndex(K) \in K
<1> DEFINE K == RunIndexes(d.runs, receipt)
           S == {d.runs[i] : i \in K}
           o == Ordered(S, NewestRun)
           run == IF K = {} THEN NoRun ELSE d.runs[NewestIndex(K)]
<1>1. K = {j \in DOMAIN d.runs : d.runs[j].receipt = receipt}
  BY DEF RunIndexes
<1>2. Lite!LatestRun(d, receipt) = IF o = <<>> THEN Lite!NoRun ELSE o[1]
  <2>1. Lite!LatestRun(d, receipt) = IF Lite!Ordered(S, Lite!NewestRun) = <<>> THEN Lite!NoRun
                                     ELSE Lite!Ordered(S, Lite!NewestRun)[1]
    BY DEF Lite!LatestRun, Lite!Ordered, Lite!Cardinality, Lite!NewestRun, RunIndexes
  <2> HIDE DEF S
  <2>2. Lite!Ordered(S, Lite!NewestRun) = o
    BY SharedOrders
  <2> QED BY <2>1, <2>2
<1>3. Pg!LatestRun(d, receipt) = IF K = {} THEN Pg!NoRun ELSE o[1]
  <2>1. Pg!LatestRun(d, receipt) = IF K = {} THEN Pg!NoRun ELSE Pg!Ordered(S, Pg!NewestRun)[1]
    BY DEF Pg!LatestRun, Pg!Ordered, Pg!Cardinality, Pg!NewestRun, RunIndexes
  <2> HIDE DEF S
  <2>2. Pg!Ordered(S, Pg!NewestRun) = o
    BY SharedOrders
  <2> QED BY <2>1, <2>2
<1>4. Lite!NoRun = NoRun /\ Pg!NoRun = NoRun
  BY DEF Lite!NoRun, Pg!NoRun, NoRun
<1>5. K \in SUBSET DOMAIN d.runs
  BY <1>1
<1>6. IsImage(S, K, d.runs)
  BY DEF IsImage
<1> HIDE DEF K, S
<1>7. /\ IsFiniteSet(K) /\ StrictOrder(Backwards(K), K)
      /\ Ordered(S, NewestRun) = Listed(K, d.runs, Backwards(K))
  BY <1>5, <1>6, RunsListed
<1>8. o = Listed(K, d.runs, Backwards(K))
  BY <1>7
<1> HIDE DEF o
<1>9. CASE K = {}
  <2>1. Cardinality(K) = 0
    BY <1>9, FS_EmptySet
  <2>2. DOMAIN o = 1..0
    BY <1>8, <2>1 DEF Listed
  <2>3. o = <<>>
    <3>1. o = [i \in 1..0 |-> o[i]]
      BY <1>8, <2>1 DEF Listed
    <3> QED BY <3>1
  <2> QED BY <1>2, <1>3, <1>4, <1>9, <2>3 DEF K
<1>10. CASE K # {}
  <2>1. Cardinality(K) \in Nat /\ Cardinality(K) # 0
    BY <1>7, <1>10, FS_CardinalityType, FS_EmptySet
  <2>2. 1 \in 1..Cardinality(K)
    BY <2>1
  <2>3. o[1] = d.runs[NewestIndex(K)] /\ o # <<>>
    <3>1. DOMAIN o = 1..Cardinality(K) /\ o[1] = d.runs[Enumerated(K, Backwards(K))[1]]
      BY <1>8, <2>2 DEF Listed
    <3>2. DOMAIN <<>> = {}
      OBVIOUS
    <3>3. o # <<>>
      BY <2>2, <3>1, <3>2
    <3> QED BY <3>1, <3>3 DEF NewestIndex
  <2>4. NewestIndex(K) \in K
    BY <1>7, <2>2, EnumeratedOnce DEF NewestIndex
  <2> QED BY <1>2, <1>3, <1>4, <1>10, <2>3, <2>4 DEF K
<1> QED BY <1>9, <1>10

StateCols == {"receipt", "items", "runStatus", "planStatus", "updated"}
StateOf(receipt, items, status, plan, at) ==
    [receipt |-> receipt, items |-> items, runStatus |-> status, planStatus |-> plan, updated |-> at]

LEMMA StateForm ==
  \A k, n, a, b, c :
    /\ IsRow(StateOf(k, n, a, b, c), StateCols)
    /\ StateOf(k, n, a, b, c)["receipt"] = k /\ StateOf(k, n, a, b, c)["items"] = n
    /\ StateOf(k, n, a, b, c)["runStatus"] = a /\ StateOf(k, n, a, b, c)["planStatus"] = b
    /\ StateOf(k, n, a, b, c)["updated"] = c
BY DEF StateOf, IsRow, StateCols

LEMMA StateCounted ==
  \A k, n, a, b, c : [StateOf(k, n, a, b, c) EXCEPT !.items = Len(@)] = StateOf(k, Len(n), a, b, c)
BY DEF StateOf

(* What a receipt shows of its newest run. *)
LEMMA NewestRunAgrees ==
  ASSUME NEW l, NEW p, StoresMatch(l, p), NEW t \in Int, KeptBoth(l, p, t), NEW k \in DOMAIN p.receipts
  PROVE  LET a == Lite!LatestRun(l, k)
             b == Pg!LatestRun(p, k)
         IN  /\ COALESCE(a.status, Blank) = COALESCE(b.status, Blank)
             /\ COALESCE(a.request, Blank) = COALESCE(b.request, Blank)
             /\ COALESCE(b.created, p.receipts[k].created) \in Int
             /\ COALESCE(a.created, l.receipts[k].created)
                  = LiteTime(COALESCE(b.created, p.receipts[k].created))
<1> DEFINE K == RunIndexes(p.runs, k)
           a == Lite!LatestRun(l, k)
           b == Pg!LatestRun(p, k)
<1>1. Kept(l, LiteTime(t)) /\ Kept(p, t)
  BY DEF KeptBoth
<1>2. /\ "runs" \in Tables /\ {"receipt", "status", "request", "created"} \subseteq Columns["runs"]
      /\ "receipts" \in Tables /\ "created" \in Columns["receipts"] /\ "created" \in Times
      /\ {"receipt", "status", "request"} \cap Times = {} /\ "created" # "id"
  BY DEF Tables, Columns, Times
<1>3. /\ DOMAIN l.runs = DOMAIN p.runs
      /\ \A i \in DOMAIN l.runs : /\ l.runs[i].receipt = p.runs[i].receipt
                                  /\ l.runs[i].status = p.runs[i].status
                                  /\ l.runs[i].request = p.runs[i].request
                                  /\ l.runs[i].created = Seconds("created", p.runs[i].created)
  BY <1>2, StoredColumns
<1>4. /\ k \in DOMAIN l.receipts
      /\ l.receipts[k].created = Seconds("created", p.receipts[k].created)
  BY <1>2, StoredColumns
<1>5. p.receipts[k].created \in Int /\ \A i \in DOMAIN p.runs : p.runs[i].created \in Int
  BY <1>1 DEF Kept, DatesKept, RunsKept
<1>6. RunIndexes(l.runs, k) = K
  BY <1>3 DEF RunIndexes
<1>7. /\ a = IF K = {} THEN NoRun ELSE l.runs[NewestIndex(K)]
      /\ b = IF K = {} THEN NoRun ELSE p.runs[NewestIndex(K)]
      /\ K # {} => NewestIndex(K) \in K
  BY <1>1, <1>6, LatestForm
<1>8. K \subseteq DOMAIN p.runs
  BY DEF RunIndexes
<1>9. \A x \in Int : LiteTime(x) \in Int /\ x # Null /\ Seconds("created", x) = LiteTime(x)
  BY <1>2, ParityAssumption, Instant
<1> HIDE DEF K, a, b
<1>10. CASE K = {}
  <2>1. a = NoRun /\ b = NoRun
    BY <1>7, <1>10
  <2>2. a.status = Null /\ b.status = Null /\ a.request = Null /\ b.request = Null /\ a.created = Null /\ b.created = Null
    BY <2>1 DEF NoRun
  <2> QED BY <1>4, <1>5, <1>9, <2>2 DEF COALESCE, a, b
<1>11. CASE K # {}
  <2>1. PICK i \in DOMAIN p.runs : a = l.runs[i] /\ b = p.runs[i]
    BY <1>7, <1>8, <1>11
  <2>2. a.status = b.status /\ a.request = b.request /\ b.created \in Int /\ a.created = LiteTime(b.created)
    BY <1>3, <1>5, <1>9, <2>1
  <2>3. b.created # Null /\ a.created # Null
    BY <1>9, <2>2
  <2> QED BY <2>2, <2>3 DEF COALESCE, a, b
<1> QED BY <1>10, <1>11

LEMMA StateForms ==
  ASSUME NEW d, NEW k \in DOMAIN d.receipts
  PROVE  /\ LET run   == Lite!LatestRun(d, k)
                items == Lite!ListWorkItems(d, k)
            IN  Lite!LookupFetchState(d, k) =
                   StateOf(k, items, COALESCE(run.status, Blank),
                           DerivePlanStatus(StatusSet(items)),
                           COALESCE(run.created, d.receipts[k].created))
         /\ LET run   == Pg!LatestRun(d, k)
                items == Pg!ListWorkItems(d, k)
            IN  Pg!LookupFetchState(d, k) =
                   StateOf(k, items, COALESCE(run.status, Blank),
                           DerivePlanStatus(StatusSet(items)),
                           COALESCE(run.created, d.receipts[k].created))
<1>1. \A S : Lite!DerivePlanStatus(S) = DerivePlanStatus(S) /\ Pg!DerivePlanStatus(S) = DerivePlanStatus(S)
  BY SharedPlans
<1>2. \A x, y : Lite!COALESCE(x, y) = COALESCE(x, y) /\ Pg!COALESCE(x, y) = COALESCE(x, y)
  BY DEF Lite!COALESCE, Pg!COALESCE, COALESCE
<1> QED BY <1>1, <1>2 DEF Lite!LookupFetchState, Pg!LookupFetchState, StateOf, StatusSet

LEMMA StateAgrees ==
  ASSUME NEW l, NEW p, StoresMatch(l, p), NEW t \in Int, KeptBoth(l, p, t), NEW k
  PROVE  LET x == Lite!LookupFetchState(l, k)
             y == Pg!LookupFetchState(p, k)
         IN  /\ (x = NotFound) = (y = NotFound)
             /\ x # NotFound => SameRow([x EXCEPT !.items = Len(@)], [y EXCEPT !.items = Len(@)])
<1>1. "receipts" \in Tables
  BY DEF Tables
<1>2. DOMAIN l.receipts = DOMAIN p.receipts
  BY <1>1, StoredColumns
<1>3. CASE k \notin DOMAIN p.receipts
  <2>1. Lite!LookupFetchState(l, k) = NotFound
    BY <1>2, <1>3, NotARow DEF Lite!LookupFetchState
  <2>2. Pg!LookupFetchState(p, k) = NotFound
    BY <1>3, NotARow DEF Pg!LookupFetchState
  <2> QED BY <2>1, <2>2
<1>4. CASE k \in DOMAIN p.receipts
  <2> DEFINE a == Lite!ListWorkItems(l, k)
             b == Pg!ListWorkItems(p, k)
             S == StatusSet(a)
             T == StatusSet(b)
             u == COALESCE(Lite!LatestRun(l, k).status, Blank)
             v == COALESCE(Pg!LatestRun(p, k).status, Blank)
             e == COALESCE(Lite!LatestRun(l, k).created, l.receipts[k].created)
             f == COALESCE(Pg!LatestRun(p, k).created, p.receipts[k].created)
  <2>1. Lite!LookupFetchState(l, k) = StateOf(k, a, u, DerivePlanStatus(S), e)
    BY <1>2, <1>4, StateForms
  <2>2. Pg!LookupFetchState(p, k) = StateOf(k, b, v, DerivePlanStatus(T), f)
    BY <1>4, StateForms
  <2>3. u = v /\ f \in Int /\ e = LiteTime(f)
    BY <1>4, NewestRunAgrees
  <2>4. Kept(p, t)
    BY DEF KeptBoth
  <2>5. S = T /\ \E m \in Nat : a = [i \in 1..m |-> a[i]] /\ b = [i \in 1..m |-> b[i]]
    BY <2>4, ItemsListed
  <2> HIDE DEF a, b, S, T, u, v, e, f
  <2>6. Len(a) = Len(b)
    BY <2>5, LengthOf
  <2>7. PICK x, y : x = Lite!LookupFetchState(l, k) /\ y = Pg!LookupFetchState(p, k)
    OBVIOUS
  <2>8. x # NotFound /\ y # NotFound
    BY <2>1, <2>2, <2>7, StateForm, NotARow DEF StateCols
  <2>9. PICK x1, y1 : x1 = [x EXCEPT !.items = Len(@)] /\ y1 = [y EXCEPT !.items = Len(@)]
    OBVIOUS
  <2>10. x1 = StateOf(k, Len(a), u, DerivePlanStatus(S), e) /\ y1 = StateOf(k, Len(b), v, DerivePlanStatus(T), f)
    BY <2>1, <2>2, <2>7, <2>9, StateCounted
  <2>11. IsRow(x1, StateCols) /\ IsRow(y1, StateCols)
    BY <2>10, StateForm
  <2>12. /\ x1["receipt"] = y1["receipt"] /\ x1["items"] = y1["items"] /\ x1["runStatus"] = y1["runStatus"]
         /\ x1["planStatus"] = y1["planStatus"] /\ x1["updated"] = Seconds("updated", y1["updated"])
    <3>1. Seconds("updated", f) = LiteTime(f)
      BY <2>3, SecondOf DEF Times
    <3>2. /\ x1["receipt"] = k /\ x1["items"] = Len(a) /\ x1["runStatus"] = u
          /\ x1["planStatus"] = DerivePlanStatus(S) /\ x1["updated"] = e
      BY <2>10, StateForm
    <3>3. /\ y1["receipt"] = k /\ y1["items"] = Len(b) /\ y1["runStatus"] = v
          /\ y1["planStatus"] = DerivePlanStatus(T) /\ y1["updated"] = f
      BY <2>10, StateForm
    <3> QED BY <2>3, <2>5, <2>6, <3>1, <3>2, <3>3
  <2>13. \A c \in StateCols : c = "id" \/ c \in Times \/ x1[c] = y1[c]
    BY <2>12 DEF StateCols, Times
  <2>14. \A c \in StateCols : c \in Times => x1[c] = Seconds(c, y1[c])
    BY <2>12 DEF StateCols, Times
  <2>15. SameRow(x1, y1)
    BY <2>11, <2>13, <2>14, AnswerRow
  <2> QED BY <2>7, <2>8, <2>9, <2>15
<1> QED BY <1>3, <1>4

-------------------------------------------------------------------------------
(* The tasks of a plan, and the plan. *)

TaskAnswerCols == {"key", "status", "text", "reason", "created", "updated"}
TaskListing(d, plan) == [k \in DOMAIN TasksAt(d, plan) |-> Joined([key |-> k], TasksAt(d, plan)[k])]

LEMMA TasksForms ==
  ASSUME NEW d, NEW plan
  PROVE  LET S == {TaskListing(d, plan)[k] : k \in DOMAIN TasksAt(d, plan)}
         IN  Lite!ListWorkPlanTasks(d, plan) = Ordered(S, ByKeys) /\ Pg!ListWorkPlanTasks(d, plan) = Ordered(S, ByKeys)
<1> DEFINE a == TasksAt(d, plan)
           S == {TaskListing(d, plan)[k] : k \in DOMAIN a}
           T == {Joined([key |-> k], a[k]) : k \in DOMAIN a}
<1>1. S = T
  BY DEF TaskListing
<1>2. Lite!ListWorkPlanTasks(d, plan) = Ordered(T, ByKeys)
  <2>1. Lite!TasksOf(d, plan) = a /\ \A x, y : Lite!Joined(x, y) = Joined(x, y)
    BY SharedPlans, SharedForms
  <2>2. {Lite!Joined([key |-> k], a[k]) : k \in DOMAIN a} = T
    BY <2>1
  <2>3. Lite!ListWorkPlanTasks(d, plan) = Ordered({Lite!Joined([key |-> k], a[k]) : k \in DOMAIN a}, ByKeys)
    BY <2>1 DEF Lite!ListWorkPlanTasks, Lite!Ordered, Lite!Cardinality, Ordered, Cardinality, ByKeys
  <2> QED BY <2>2, <2>3
<1>3. Pg!ListWorkPlanTasks(d, plan) = Ordered(T, ByKeys)
  <2>1. Pg!TasksOf(d, plan) = a /\ \A x, y : Pg!Joined(x, y) = Joined(x, y)
    BY SharedPlans, SharedForms
  <2>2. {Pg!Joined([key |-> k], a[k]) : k \in DOMAIN a} = T
    BY <2>1
  <2>3. Pg!ListWorkPlanTasks(d, plan) = Ordered({Pg!Joined([key |-> k], a[k]) : k \in DOMAIN a}, ByKeys)
    BY <2>1 DEF Pg!ListWorkPlanTasks, Pg!Ordered, Pg!Cardinality, Ordered, Cardinality, ByKeys
  <2> QED BY <2>2, <2>3
<1> HIDE DEF S, T
<1>4. Lite!ListWorkPlanTasks(d, plan) = Ordered(S, ByKeys) /\ Pg!ListWorkPlanTasks(d, plan) = Ordered(S, ByKeys)
  BY <1>1, <1>2, <1>3
<1> QED BY <1>4 DEF S

(* The tasks of a plan have the same keys and the same columns in both. *)
LEMMA TasksAtAgree ==
  ASSUME NEW l, NEW p, StoresMatch(l, p), NEW t, Kept(p, t), NEW plan
  PROVE  LET a == TasksAt(l, plan)
             b == TasksAt(p, plan)
         IN  /\ DOMAIN a = DOMAIN b /\ IsFiniteSet(DOMAIN a) /\ DOMAIN a \in SUBSET Int
             /\ \A k \in DOMAIN a : /\ IsRow(a[k], Columns["tasks"]) /\ IsRow(b[k], Columns["tasks"])
                                    /\ \A c \in Columns["tasks"] : a[k][c] = Seconds(c, b[k][c])
                                    /\ a[k].status = b[k].status /\ a[k].text = b[k].text
                                    /\ a[k].reason = b[k].reason
<1> DEFINE u == l.tasks
           v == p.tasks
           P(w) == {x \in DOMAIN w : x[1] = plan}
           a == TasksAt(l, plan)
           b == TasksAt(p, plan)
<1>1. "tasks" \in Tables /\ "id" \notin Columns["tasks"] /\ {"status", "text", "reason"} \subseteq Columns["tasks"]
      /\ {"status", "text", "reason"} \cap Times = {}
  BY DEF Tables, Columns, Times
<1>2. TablesAgree(u, v, Columns["tasks"])
  BY <1>1 DEF StoresMatch
<1>3. DOMAIN u = DOMAIN v
      /\ \A x \in DOMAIN u, c \in Columns["tasks"] : u[x][c] = Seconds(c, v[x][c])
                                                     /\ (c \notin Times => u[x][c] = v[x][c])
  BY <1>1, StoredColumns
<1>4. \A x \in DOMAIN u : IsRow(u[x], Columns["tasks"]) /\ IsRow(v[x], Columns["tasks"])
  BY <1>2 DEF TablesAgree, IsTable, IsRow
<1>5. IsFiniteSet(DOMAIN v) /\ \A x \in DOMAIN v : x = <<x[1], x[2]>> /\ x[2] \in Int
  BY DEF Kept, PairsKept
<1>6. a = [k \in {x[2] : x \in P(u)} |-> u[<<plan, k>>]] /\ b = [k \in {x[2] : x \in P(v)} |-> v[<<plan, k>>]]
  BY DEF TasksAt
<1> HIDE DEF u, v, a, b
<1>7. P(u) = P(v)
  BY <1>3
<1>8. DOMAIN a = {x[2] : x \in P(v)} /\ DOMAIN b = {x[2] : x \in P(v)}
  BY <1>6, <1>7
<1>9. IsFiniteSet(P(v))
  <2>1. P(v) \subseteq DOMAIN v OBVIOUS
  <2> HIDE DEF P
  <2> QED BY <1>5, <2>1, FS_Subset
<1>10. IsFiniteSet({x[2] : x \in P(v)})
  <2> DEFINE R == P(v)
             W == {x[2] : x \in R}
             h == [x \in R |-> x[2]]
  <2>1. h \in Surjection(R, W)
    BY DEF Surjection
  <2> HIDE DEF R, W, h
  <2>2. IsFiniteSet(R)
    BY <1>9 DEF R
  <2>3. IsFiniteSet(W)
    BY <2>1, <2>2, FS_Surjection
  <2> QED BY <2>3 DEF R, W
<1>11. DOMAIN a \in SUBSET Int
  BY <1>5, <1>8
<1>12. ASSUME NEW k \in DOMAIN a
       PROVE  <<plan, k>> \in DOMAIN v /\ a[k] = u[<<plan, k>>] /\ b[k] = v[<<plan, k>>]
  <2>1. PICK x \in DOMAIN v : x[1] = plan /\ x[2] = k
    BY <1>8
  <2>2. x = <<plan, k>>
    BY <1>5, <2>1
  <2> QED BY <1>6, <1>7, <1>8, <2>1, <2>2
<1>13. ASSUME NEW k \in DOMAIN a
       PROVE  /\ IsRow(a[k], Columns["tasks"]) /\ IsRow(b[k], Columns["tasks"])
              /\ \A c \in Columns["tasks"] : a[k][c] = Seconds(c, b[k][c])
              /\ a[k].status = b[k].status /\ a[k].text = b[k].text /\ a[k].reason = b[k].reason
  <2>1. PICK x \in DOMAIN v : a[k] = u[x] /\ b[k] = v[x]
    BY <1>12
  <2>2. IsRow(u[x], Columns["tasks"]) /\ IsRow(v[x], Columns["tasks"])
    BY <1>3, <1>4
  <2>3. \A c \in Columns["tasks"] : u[x][c] = Seconds(c, v[x][c])
    BY <1>3
  <2>4. u[x].status = v[x].status /\ u[x].text = v[x].text /\ u[x].reason = v[x].reason
    BY <1>1, <1>3
  <2> QED BY <2>1, <2>2, <2>3, <2>4
<1> QED BY <1>8, <1>10, <1>11, <1>13 DEF a, b

LEMMA KeyedRow ==
  ASSUME NEW k, NEW r, IsRow(r, Columns["tasks"])
  PROVE  LET x == Joined([key |-> k], r)
         IN  /\ IsRow(x, TaskAnswerCols) /\ x.key = k /\ x["key"] = k
             /\ \A c \in Columns["tasks"] : x[c] = r[c]
<1> DEFINE x == Joined([key |-> k], r)
<1>1. Columns["tasks"] \cup {"key"} = TaskAnswerCols /\ "key" \notin Columns["tasks"]
  BY DEF Columns, TaskAnswerCols
<1>2. DOMAIN r = Columns["tasks"]
  BY DEF IsRow
<1>3. x = [c \in TaskAnswerCols |-> IF c = "key" THEN k ELSE r[c]]
  BY <1>1, <1>2 DEF Joined
<1> HIDE DEF x
<1>4. DOMAIN x = TaskAnswerCols /\ "key" \in TaskAnswerCols
  BY <1>1, <1>3
<1>5. IsRow(x, TaskAnswerCols)
  BY <1>3 DEF IsRow
<1>6. x["key"] = k /\ x.key = k
  BY <1>3, <1>4
<1>7. \A c \in Columns["tasks"] : x[c] = r[c]
  BY <1>1, <1>3
<1> QED BY <1>5, <1>6, <1>7 DEF x

LEMMA TasksAgree ==
  ASSUME NEW l, NEW p, StoresMatch(l, p), NEW t, Kept(p, t), NEW plan
  PROVE  SameRows(Lite!ListWorkPlanTasks(l, plan), Pg!ListWorkPlanTasks(p, plan))
<1> DEFINE a == TasksAt(l, plan)
           b == TasksAt(p, plan)
           K == DOMAIN b
           f == TaskListing(l, plan)
           g == TaskListing(p, plan)
           S == {f[k] : k \in K}
           T == {g[k] : k \in K}
           Q == IntOrder(K)
<1>1. /\ DOMAIN a = K /\ IsFiniteSet(K) /\ K \in SUBSET Int
      /\ \A k \in K : /\ IsRow(a[k], Columns["tasks"]) /\ IsRow(b[k], Columns["tasks"])
                      /\ \A c \in Columns["tasks"] : a[k][c] = Seconds(c, b[k][c])
  BY TasksAtAgree
<1>2. Lite!ListWorkPlanTasks(l, plan) = Ordered(S, ByKeys)
  BY <1>1, TasksForms
<1>3. Pg!ListWorkPlanTasks(p, plan) = Ordered(T, ByKeys)
  BY TasksForms
<1>4. \A k \in K : f[k] = Joined([key |-> k], a[k]) /\ g[k] = Joined([key |-> k], b[k])
  BY <1>1 DEF TaskListing
<1>5. IsImage(S, K, f) /\ IsImage(T, K, g)
  BY DEF IsImage
<1> HIDE DEF a, b, K, f, g, S, T
<1>6. StrictOrder(Q, K) /\ \A j, k \in K : <<j, k>> \in Q <=> j < k
  BY <1>1, IntOrderStrict
<1> HIDE DEF Q
<1>7. ASSUME NEW k \in K
      PROVE  f[k].key = k /\ g[k].key = k /\ SameRow(f[k], g[k])
  <2>1. PICK x, y : x = Joined([key |-> k], a[k]) /\ y = Joined([key |-> k], b[k])
    OBVIOUS
  <2>2. IsRow(a[k], Columns["tasks"]) /\ IsRow(b[k], Columns["tasks"])
    BY <1>1
  <2>3. /\ IsRow(x, TaskAnswerCols) /\ x.key = k /\ x["key"] = k /\ \A c \in Columns["tasks"] : x[c] = a[k][c]
        /\ IsRow(y, TaskAnswerCols) /\ y.key = k /\ y["key"] = k /\ \A c \in Columns["tasks"] : y[c] = b[k][c]
    BY <2>1, <2>2, KeyedRow
  <2>4. "key" \notin Times /\ \A c \in TaskAnswerCols : c = "key" \/ c \in Columns["tasks"]
    BY DEF Times, TaskAnswerCols, Columns
  <2>5. \A c \in Columns["tasks"] : x[c] = Seconds(c, y[c])
    BY <1>1, <2>3
  <2>6. \A c \in TaskAnswerCols : c = "id" \/ c \in Times \/ x[c] = y[c]
    BY <2>3, <2>4, <2>5, Instant
  <2>7. \A c \in TaskAnswerCols : c \in Times => x[c] = Seconds(c, y[c])
    BY <2>4, <2>5
  <2>8. SameRow(x, y)
    BY <2>3, <2>6, <2>7, AnswerRow
  <2> QED BY <1>4, <2>1, <2>3, <2>8
<1>8. \A j, k \in K : (ByKeys(f[j], f[k]) <=> <<j, k>> \in Q) /\ (ByKeys(g[j], g[k]) <=> <<j, k>> \in Q)
  <2>1. ASSUME NEW j \in K, NEW k \in K
        PROVE  (ByKeys(f[j], f[k]) <=> j < k) /\ (ByKeys(g[j], g[k]) <=> j < k)
    BY <1>7 DEF ByKeys
  <2> QED BY <1>6, <2>1
<1>9. Ordered(S, ByKeys) = Listed(K, f, Q) /\ Ordered(T, ByKeys) = Listed(K, g, Q)
  BY <1>1, <1>5, <1>6, <1>8, ByKeysListed
<1>10. SameRows(Listed(K, f, Q), Listed(K, g, Q))
  BY <1>1, <1>6, <1>7, ListedSameRows
<1> QED BY <1>2, <1>3, <1>9, <1>10

LEMMA PlanAgrees ==
  ASSUME NEW l, NEW p, StoresMatch(l, p), NEW t, Kept(p, t), NEW k, k # Blank
  PROVE  LET x == Lite!LookupWorkPlan(l, [plan |-> k, receipt |-> Blank])
             y == Pg!LookupWorkPlan(p, [plan |-> k, receipt |-> Blank])
         IN  /\ (x = NotFound) = (y = NotFound)
             /\ x # NotFound => SameRow(x.plan, y.plan) /\ SameRows(x.tasks, y.tasks)
<1> DEFINE q == [plan |-> k, receipt |-> Blank]
<1>0. q.plan = k
  OBVIOUS
<1> HIDE DEF q
<1>1. TablesAgree(l.plans, p.plans, Columns["plans"])
  BY DEF StoresMatch, Tables
<1>2. DOMAIN l.plans = DOMAIN p.plans
  BY <1>1 DEF TablesAgree
<1>3. Lite!LookupWorkPlan(l, q) = IF k \notin DOMAIN l.plans THEN Lite!NotFound
                                  ELSE [key |-> k, plan |-> l.plans[k], tasks |-> Lite!ListWorkPlanTasks(l, k)]
  BY <1>0 DEF Lite!LookupWorkPlan, Lite!Where, Lite!Ordered, Lite!NewestFirst, Lite!Cardinality
<1>4. Pg!LookupWorkPlan(p, q) = IF k \notin DOMAIN p.plans THEN Pg!NotFound
                                ELSE [key |-> k, plan |-> p.plans[k], tasks |-> Pg!ListWorkPlanTasks(p, k)]
  BY <1>0 DEF Pg!LookupWorkPlan, Pg!Where, Pg!Ordered, Pg!NewestFirst, Pg!Cardinality
<1>5. PICK x, y : x = Lite!LookupWorkPlan(l, q) /\ y = Pg!LookupWorkPlan(p, q)
  OBVIOUS
<1>6. CASE k \notin DOMAIN p.plans
  <2>1. x = NotFound /\ y = NotFound
    BY <1>2, <1>3, <1>4, <1>5, <1>6, NotARow
  <2> QED BY <1>5, <2>1 DEF q
<1>7. CASE k \in DOMAIN p.plans
  <2>1. PICK u, v : u = Lite!ListWorkPlanTasks(l, k) /\ v = Pg!ListWorkPlanTasks(p, k)
    OBVIOUS
  <2>2. x = [key |-> k, plan |-> l.plans[k], tasks |-> u] /\ y = [key |-> k, plan |-> p.plans[k], tasks |-> v]
    BY <1>2, <1>3, <1>4, <1>5, <1>7, <2>1
  <2>3. x.plan = l.plans[k] /\ x.tasks = u /\ y.plan = p.plans[k] /\ y.tasks = v
    BY <2>2
  <2>4. x # NotFound /\ y # NotFound
    <3>1. DOMAIN x = {"key", "plan", "tasks"} /\ DOMAIN y = {"key", "plan", "tasks"}
      BY <2>2
    <3>2. DOMAIN NotFound = {}
      BY DEF NotFound
    <3> QED BY <3>1, <3>2
  <2>5. SameRow(l.plans[k], p.plans[k])
    <3>1. SameRows(l.plans, p.plans)
      BY <1>1, SameRowsForm
    <3> QED BY <1>2, <1>7, <3>1 DEF SameRows
  <2>6. SameRows(u, v)
    BY <2>1, TasksAgree
  <2> QED BY <1>5, <2>3, <2>4, <2>5, <2>6 DEF q
<1> QED BY <1>6, <1>7

-------------------------------------------------------------------------------
(* The run history. *)

WordsOf(r) == {r.request, r.status, r.outcome} \cup r.files \cup r.issues
FoundRuns(d, word) ==
    {i \in DOMAIN d.runs : \/ word = Blank
                           \/ word \in WordsOf(d.runs[i])
                           \/ LET r == d.receipts[d.runs[i].receipt] IN word \in {r.task, r.phase}}

LEMMA RunHistoryForms ==
  ASSUME NEW d, NEW q
  PROVE  LET S == {RunRows(d)[i] : i \in FoundRuns(d, q.word)}
         IN  /\ Lite!ListRunHistory(d, q) = Cut(Ordered(S, NewestRun), q, Clamped(q))
             /\ Pg!ListRunHistory(d, q) = Cut(Ordered(S, NewestRun), q, Clamped(q))
<1> DEFINE K == FoundRuns(d, q.word)
           S == {RunRows(d)[i] : i \in K}
           A == {Lite!RunRow(d, d.runs[i]) : i \in K}
           B == {Pg!RunRow(d, d.runs[i]) : i \in K}
<1>1. K \subseteq DOMAIN d.runs
  BY DEF FoundRuns
<1>2. Lite!ListRunHistory(d, q) = Lite!Limited(Lite!Ordered(A, Lite!NewestRun), q)
  <2>1. K = {i \in DOMAIN d.runs :
                \/ q.word = Blank
                \/ q.word \in Lite!RunWords(d.runs[i]) \cup d.runs[i].issues
                \/ LET r == d.receipts[d.runs[i].receipt] IN q.word \in {r.task, r.phase}}
    BY DEF FoundRuns, WordsOf, Lite!RunWords
  <2> HIDE DEF K
  <2> QED BY <2>1 DEF Lite!ListRunHistory, Lite!Ordered, Lite!Cardinality, Lite!NewestRun
<1>3. Pg!ListRunHistory(d, q) = Pg!Limited(Pg!Ordered(B, Pg!NewestRun), q)
  <2>1. K = {i \in DOMAIN d.runs :
                \/ q.word = Blank
                \/ q.word \in Pg!RunWords(d.runs[i])
                \/ LET r == d.receipts[d.runs[i].receipt] IN q.word \in {r.task, r.phase}}
    BY DEF FoundRuns, WordsOf, Pg!RunWords
  <2> HIDE DEF K
  <2> QED BY <2>1 DEF Pg!ListRunHistory, Pg!Ordered, Pg!Cardinality, Pg!NewestRun
<1>4. A = S /\ B = S
  <2>1. \A i \in K : /\ Lite!RunRow(d, d.runs[i]) = RunRows(d)[i]
                     /\ Pg!RunRow(d, d.runs[i]) = RunRows(d)[i]
    BY <1>1, RunAnswerForm DEF RunRows
  <2> HIDE DEF K
  <2> QED BY <2>1
<1> HIDE DEF S, A, B
<1>5. /\ Lite!ListRunHistory(d, q) = Cut(Ordered(S, NewestRun), q, Clamped(q))
      /\ Pg!ListRunHistory(d, q) = Cut(Ordered(S, NewestRun), q, Clamped(q))
  BY <1>2, <1>3, <1>4, SharedOrders, SharedLimits
<1> QED BY <1>5 DEF S

LEMMA FoundRunsAgree ==
  ASSUME NEW l, NEW p, StoresMatch(l, p), NEW t, Kept(p, t), NEW word
  PROVE  FoundRuns(l, word) = FoundRuns(p, word)
<1>1. /\ "runs" \in Tables /\ {"receipt", "request", "status", "outcome", "files", "issues"} \subseteq Columns["runs"]
      /\ "receipts" \in Tables /\ {"task", "phase"} \subseteq Columns["receipts"]
      /\ {"receipt", "request", "status", "outcome", "files", "issues", "task", "phase"} \cap Times = {}
  BY DEF Tables, Columns, Times
<1>2. /\ DOMAIN l.runs = DOMAIN p.runs
      /\ \A i \in DOMAIN l.runs : /\ l.runs[i].receipt = p.runs[i].receipt
                                  /\ l.runs[i].request = p.runs[i].request
                                  /\ l.runs[i].status = p.runs[i].status
                                  /\ l.runs[i].outcome = p.runs[i].outcome
                                  /\ l.runs[i].files = p.runs[i].files
                                  /\ l.runs[i].issues = p.runs[i].issues
  BY <1>1, StoredColumns
<1>3. \A k \in DOMAIN p.receipts : /\ l.receipts[k].task = p.receipts[k].task
                                   /\ l.receipts[k].phase = p.receipts[k].phase
  BY <1>1, StoredColumns
<1>4. \A i \in DOMAIN p.runs : p.runs[i].receipt \in DOMAIN p.receipts
  BY DEF Kept, RunsKept
<1>5. \A i \in DOMAIN p.runs :
         /\ WordsOf(l.runs[i]) = WordsOf(p.runs[i])
         /\ l.receipts[l.runs[i].receipt].task = p.receipts[p.runs[i].receipt].task
         /\ l.receipts[l.runs[i].receipt].phase = p.receipts[p.runs[i].receipt].phase
  BY <1>2, <1>3, <1>4 DEF WordsOf
<1> QED BY <1>2, <1>5 DEF FoundRuns

LEMMA RunHistoryAgrees ==
  ASSUME NEW l, NEW p, StoresMatch(l, p), NEW t \in Int, KeptBoth(l, p, t), NEW q, q.limit \in Int
  PROVE  SameRows(Lite!ListRunHistory(l, q), Pg!ListRunHistory(p, q))
<1> DEFINE K == FoundRuns(p, q.word)
           f == RunRows(l)
           g == RunRows(p)
           S == {f[i] : i \in K}
           T == {g[i] : i \in K}
           n == Clamped(q)
           Q == Backwards(K)
<1>1. Kept(l, LiteTime(t)) /\ Kept(p, t)
  BY DEF KeptBoth
<1>2. "runs" \in Tables
  BY DEF Tables
<1>3. DOMAIN l.runs = DOMAIN p.runs
  BY <1>2, StoredColumns
<1>4. Lite!ListRunHistory(l, q) = Cut(Ordered(S, NewestRun), q, n)
  BY <1>1, FoundRunsAgree, RunHistoryForms
<1>5. Pg!ListRunHistory(p, q) = Cut(Ordered(T, NewestRun), q, n)
  BY RunHistoryForms
<1>6. n \in Nat
  BY ClampedLimit
<1>7. K \in SUBSET DOMAIN p.runs
  BY DEF FoundRuns
<1>8. \A i \in DOMAIN p.runs : f[i] = RunOf(l.receipts, l.runs[i]) /\ g[i] = RunOf(p.receipts, p.runs[i])
  BY <1>3 DEF RunRows
<1>9. IsImage(S, K, f) /\ IsImage(T, K, g)
  BY DEF IsImage
<1> HIDE DEF K, f, g, S, T, n
<1>10. \A i \in K : /\ f[i].created = l.runs[i].created /\ f[i].id = l.runs[i].id
                    /\ g[i].created = p.runs[i].created /\ g[i].id = p.runs[i].id
  BY <1>7, <1>8, RunAnswerForm
<1>11. /\ IsFiniteSet(K) /\ StrictOrder(Q, K)
       /\ Ordered(S, NewestRun) = Listed(K, f, Q)
       /\ Ordered(T, NewestRun) = Listed(K, g, Q)
  BY <1>1, <1>3, <1>7, <1>9, <1>10, RunsListed
<1> HIDE DEF Q
<1>12. \A i \in K : SameRow(f[i], g[i])
  BY <1>1, <1>7, <1>8, RunSame
<1>13. SameRows(Listed(K, f, Q), Listed(K, g, Q))
  BY <1>11, <1>12, ListedSameRows
<1>14. SameRows(Cut(Listed(K, f, Q), q, n), Cut(Listed(K, g, Q), q, n))
  BY <1>6, <1>11, <1>13, CutListed
<1> QED BY <1>4, <1>5, <1>11, <1>14

-------------------------------------------------------------------------------
(* Listings ordered by an instant: the same rows on both, in the same order
   unless two of them share a second. *)

LEMMA ApartSeconds ==
  ASSUME NEW x \in Int, NEW y \in Int, LiteTime(x) # LiteTime(y)
  PROVE  LiteTime(x) < LiteTime(y) <=> x < y
<1>1. LiteTime(x) \in Int /\ LiteTime(y) \in Int
  BY WholeSeconds
<1>2. CASE x <= y
  <2>1. LiteTime(x) <= LiteTime(y)
    BY <1>2, SecondsGrow
  <2>2. x # y
    OBVIOUS
  <2> QED BY <1>1, <1>2, <2>1, <2>2
<1>3. CASE y < x
  <2>1. LiteTime(y) <= LiteTime(x)
    BY <1>3, SecondsGrow
  <2> QED BY <1>1, <1>3, <2>1
<1> QED BY <1>2, <1>3

LEMMA ApartOrders ==
  ASSUME NEW K, K \in SUBSET Int, NEW u, NEW v, \A k \in K : v[k] \in Int /\ u[k] = LiteTime(v[k]),
         \A j, k \in K : LiteTime(v[j]) = LiteTime(v[k]) => j = k
  PROVE  Lex(K, u) = Lex(K, v)
<1>1. ASSUME NEW j \in K, NEW k \in K
      PROVE  (u[j] < u[k] \/ (u[j] = u[k] /\ j < k)) <=> (v[j] < v[k] \/ (v[j] = v[k] /\ j < k))
  <2>1. PICK a \in Int, b \in Int : a = v[j] /\ b = v[k]
    OBVIOUS
  <2>2. u[j] = LiteTime(a) /\ u[k] = LiteTime(b)
    BY <2>1
  <2>3. CASE j = k
    BY <2>1, <2>2, <2>3, WholeSeconds
  <2>4. CASE j # k
    <3>1. LiteTime(a) # LiteTime(b)
      BY <2>1, <2>4
    <3>2. (LiteTime(a) < LiteTime(b) <=> a < b) /\ a # b
      BY <3>1, ApartSeconds
    <3> QED BY <2>1, <2>2, <3>1, <3>2
  <2> QED BY <2>3, <2>4
<1>2. ASSUME NEW e \in K \X K
      PROVE  (u[e[1]] < u[e[2]] \/ (u[e[1]] = u[e[2]] /\ e[1] < e[2]))
               <=> (v[e[1]] < v[e[2]] \/ (v[e[1]] = v[e[2]] /\ e[1] < e[2]))
  <2>1. PICK j \in K, k \in K : e[1] = j /\ e[2] = k
    OBVIOUS
  <2> QED BY <1>1, <2>1
<1> QED BY <1>2, Zenon DEF Lex

SecondsApart(K, v) == \A j, k \in K : LiteTime(v[j]) = LiteTime(v[k]) => j = k
Reversed(K, x, y, v) == \A k \in K : v[k] \in Int /\ x[k] = 0 - LiteTime(v[k]) /\ y[k] = 0 - v[k]

LEMMA ApartBackwards ==
  ASSUME NEW K, K \in SUBSET Int, NEW x, NEW y, NEW v, Reversed(K, x, y, v),
         SecondsApart(K, v)
  PROVE  Lex(K, x) = Lex(K, y)
<1>1. ASSUME NEW j \in K, NEW k \in K
      PROVE  (x[j] < x[k] \/ (x[j] = x[k] /\ j < k)) <=> (y[j] < y[k] \/ (y[j] = y[k] /\ j < k))
  <2>1. PICK a \in Int, b \in Int : a = v[j] /\ b = v[k]
    BY DEF Reversed
  <2>2. x[j] = 0 - LiteTime(a) /\ x[k] = 0 - LiteTime(b) /\ y[j] = 0 - a /\ y[k] = 0 - b
        /\ LiteTime(a) \in Int /\ LiteTime(b) \in Int
    BY <2>1, WholeSeconds DEF Reversed
  <2>3. CASE j = k
    BY <2>2, <2>3
  <2>4. CASE j # k
    <3>1. LiteTime(a) # LiteTime(b)
      BY <2>1, <2>4 DEF SecondsApart
    <3>2. (LiteTime(b) < LiteTime(a) <=> b < a) /\ a # b
      BY <3>1, ApartSeconds
    <3> QED BY <2>1, <2>2, <3>1, <3>2
  <2> QED BY <2>3, <2>4
<1>2. ASSUME NEW e \in K \X K
      PROVE  (x[e[1]] < x[e[2]] \/ (x[e[1]] = x[e[2]] /\ e[1] < e[2]))
               <=> (y[e[1]] < y[e[2]] \/ (y[e[1]] = y[e[2]] /\ e[1] < e[2]))
  <2>1. PICK j \in K, k \in K : e[1] = j /\ e[2] = k
    OBVIOUS
  <2> QED BY <1>1, <2>1
<1> QED BY <1>2, Zenon DEF Lex

LEMMA ApartKeys ==
  ASSUME NEW K, IsFiniteSet(K), NEW Q, StrictOrder(Q, K), NEW g, NEW c, Apart(Listed(K, g, Q), c)
  PROVE  \A j, k \in K : LiteTime(g[j][c]) = LiteTime(g[k][c]) => j = k
<1> DEFINE o == Listed(K, g, Q)
<1> SUFFICES ASSUME NEW j \in K, NEW k \in K, LiteTime(g[j][c]) = LiteTime(g[k][c]) PROVE j = k
  OBVIOUS
<1>1. PICK a \in 1..Cardinality(K), b \in 1..Cardinality(K) : Enumerated(K, Q)[a] = j /\ Enumerated(K, Q)[b] = k
  BY EnumeratedOnce
<1>2. DOMAIN o = 1..Cardinality(K) /\ o[a] = g[j] /\ o[b] = g[k]
  BY <1>1 DEF Listed
<1>3. Apart(o, c)
  OBVIOUS
<1> HIDE DEF o
<1>4. o[a][c] \div TicksPerSecond = o[b][c] \div TicksPerSecond
  BY <1>2 DEF LiteTime
<1>5. a = b
  BY <1>2, <1>3, <1>4 DEF Apart
<1> QED BY <1>1, <1>5

LEMMA UpdatedListings ==
  ASSUME NEW K, IsFiniteSet(K), K \in SUBSET Int, NEW f, NEW g, NEW S, IsImage(S, K, f), NEW T, IsImage(T, K, g),
         \A k \in K : /\ f[k].key = k /\ g[k].key = k /\ g[k].updated \in Int
                      /\ f[k].updated = LiteTime(g[k].updated) /\ SameRow(f[k], g[k]),
         NEW q, q.limit \in Int
  PROVE  /\ SameSet(Ordered(S, NewestFirst), Ordered(T, NewestFirst))
         /\ Apart(Ordered(T, NewestFirst), "updated") =>
               SameRows(Cut(Ordered(S, NewestFirst), q, Clamped(q)), Cut(Ordered(T, NewestFirst), q, Clamped(q)))
<1> DEFINE u == [k \in K |-> f[k].updated]
           v == [k \in K |-> g[k].updated]
           x == [k \in K |-> 0 - u[k]]
           y == [k \in K |-> 0 - v[k]]
           P == Lex(K, x)
           Q == Lex(K, y)
           n == Clamped(q)
<1>1. \A k \in K : /\ u[k] = f[k].updated /\ v[k] = g[k].updated
                   /\ x[k] = 0 - u[k] /\ y[k] = 0 - v[k] /\ f[k].key = k /\ g[k].key = k
  OBVIOUS
<1>2. \A k \in K : v[k] \in Int /\ u[k] = LiteTime(v[k]) /\ u[k] \in Int
  <2>1. \A k \in K : v[k] \in Int /\ u[k] = LiteTime(v[k])
    BY <1>1
  <2> QED BY <2>1, WholeSeconds
<1>3. n \in Nat
  BY ClampedLimit
<1> HIDE DEF u, v, n
<1>4. \A k \in K : x[k] \in Int /\ y[k] \in Int
  BY <1>2
<1>4a. ASSUME \A j, k \in K : LiteTime(v[j]) = LiteTime(v[k]) => j = k PROVE P = Q
  <2>1. Reversed(K, x, y, v)
    BY <1>2 DEF Reversed
  <2> HIDE DEF x, y
  <2>2. SecondsApart(K, v)
    BY <1>4a DEF SecondsApart
  <2>3. Lex(K, x) = Lex(K, y)
    BY <2>1, <2>2, ApartBackwards
  <2> QED BY <2>3 DEF x, y
<1> HIDE DEF x, y
<1>5. /\ StrictOrder(P, K) /\ \A j, k \in K : <<j, k>> \in P <=> x[j] < x[k] \/ (x[j] = x[k] /\ j < k)
      /\ StrictOrder(Q, K) /\ \A j, k \in K : <<j, k>> \in Q <=> y[j] < y[k] \/ (y[j] = y[k] /\ j < k)
  BY <1>4, LexStrict
<1> HIDE DEF P, Q
<1>6. ASSUME NEW j \in K, NEW k \in K
      PROVE  (NewestFirst(f[j], f[k]) <=> <<j, k>> \in P) /\ (NewestFirst(g[j], g[k]) <=> <<j, k>> \in Q)
  <2>1. NewestFirst(f[j], f[k]) <=> u[j] > u[k] \/ (u[j] = u[k] /\ j < k)
    BY <1>1 DEF NewestFirst
  <2>2. NewestFirst(g[j], g[k]) <=> v[j] > v[k] \/ (v[j] = v[k] /\ j < k)
    BY <1>1 DEF NewestFirst
  <2>3. (x[j] < x[k] <=> u[j] > u[k]) /\ (x[j] = x[k] <=> u[j] = u[k])
    BY <1>1, <1>2
  <2>4. (y[j] < y[k] <=> v[j] > v[k]) /\ (y[j] = y[k] <=> v[j] = v[k])
    BY <1>1, <1>2
  <2> QED BY <1>5, <2>1, <2>2, <2>3, <2>4
<1>7. Ordered(S, NewestFirst) = Listed(K, f, P)
  BY <1>5, <1>6, NewestFirstListed
<1>8. Ordered(T, NewestFirst) = Listed(K, g, Q)
  BY <1>5, <1>6, NewestFirstListed
<1>9. \A k \in K : SameRow(f[k], g[k])
  OBVIOUS
<1>10. SameSet(Listed(K, f, P), Listed(K, g, Q))
  BY <1>5, <1>9, ListedSameSet
<1>11. ASSUME Apart(Listed(K, g, Q), "updated")
       PROVE  SameRows(Cut(Listed(K, f, P), q, n), Cut(Listed(K, g, Q), q, n))
  <2>1. \A j, k \in K : LiteTime(g[j]["updated"]) = LiteTime(g[k]["updated"]) => j = k
    BY <1>5, <1>11, ApartKeys
  <2>2. P = Q
    BY <1>1, <1>4a, <2>1
  <2>3. SameRows(Listed(K, f, Q), Listed(K, g, Q))
    BY <1>5, <1>9, ListedSameRows
  <2> QED BY <1>3, <2>2, <2>3, CutListed
<1> QED BY <1>7, <1>8, <1>10, <1>11 DEF n

LEMMA CreatedListings ==
  ASSUME NEW K, IsFiniteSet(K), K \in SUBSET Int, NEW f, NEW g, NEW S, IsImage(S, K, f), NEW T, IsImage(T, K, g),
         \A k \in K : g[k].created \in Int /\ f[k].created = LiteTime(g[k].created) /\ SameRow(f[k], g[k]),
         \A j, k \in K : (f[j].id < f[k].id <=> j < k) /\ (g[j].id < g[k].id <=> j < k)
  PROVE  Apart(Ordered(T, OldestFirst), "created") =>
            SameRows(Ordered(S, OldestFirst), Ordered(T, OldestFirst))
<1> DEFINE u == [k \in K |-> f[k].created]
           v == [k \in K |-> g[k].created]
           P == Lex(K, u)
           Q == Lex(K, v)
<1>1. \A k \in K : u[k] = f[k].created /\ v[k] = g[k].created
  OBVIOUS
<1>2. \A k \in K : v[k] \in Int /\ u[k] = LiteTime(v[k]) /\ u[k] \in Int
  <2>1. \A k \in K : v[k] \in Int /\ u[k] = LiteTime(v[k])
    BY <1>1
  <2> QED BY <2>1, WholeSeconds
<1> HIDE DEF u, v
<1>4a. ASSUME \A j, k \in K : LiteTime(v[j]) = LiteTime(v[k]) => j = k PROVE P = Q
  <2>1. \A k \in K : v[k] \in Int /\ u[k] = LiteTime(v[k])
    BY <1>2
  <2> QED BY <1>4a, <2>1, ApartOrders
<1>5. /\ StrictOrder(P, K) /\ \A j, k \in K : <<j, k>> \in P <=> u[j] < u[k] \/ (u[j] = u[k] /\ j < k)
      /\ StrictOrder(Q, K) /\ \A j, k \in K : <<j, k>> \in Q <=> v[j] < v[k] \/ (v[j] = v[k] /\ j < k)
  BY <1>2, LexStrict
<1> HIDE DEF P, Q
<1>6. ASSUME NEW j \in K, NEW k \in K
      PROVE  (OldestFirst(f[j], f[k]) <=> <<j, k>> \in P) /\ (OldestFirst(g[j], g[k]) <=> <<j, k>> \in Q)
  <2>1. OldestFirst(f[j], f[k]) <=> u[j] < u[k] \/ (u[j] = u[k] /\ j < k)
    BY <1>1 DEF OldestFirst
  <2>2. OldestFirst(g[j], g[k]) <=> v[j] < v[k] \/ (v[j] = v[k] /\ j < k)
    BY <1>1 DEF OldestFirst
  <2> QED BY <1>5, <2>1, <2>2
<1>7. Ordered(S, OldestFirst) = Listed(K, f, P)
  BY <1>5, <1>6, OldestFirstListed
<1>8. Ordered(T, OldestFirst) = Listed(K, g, Q)
  BY <1>5, <1>6, OldestFirstListed
<1>9. \A k \in K : SameRow(f[k], g[k])
  OBVIOUS
<1>11. ASSUME Apart(Listed(K, g, Q), "created")
       PROVE  SameRows(Listed(K, f, P), Listed(K, g, Q))
  <2>1. \A j, k \in K : LiteTime(g[j]["created"]) = LiteTime(g[k]["created"]) => j = k
    BY <1>5, <1>11, ApartKeys
  <2>2. P = Q
    BY <1>1, <1>4a, <2>1
  <2>3. SameRows(Listed(K, f, Q), Listed(K, g, Q))
    BY <1>5, <1>9, ListedSameRows
  <2> QED BY <2>2, <2>3
<1> QED BY <1>7, <1>8, <1>11

LEMMA ReviewsAgree ==
  ASSUME NEW l, NEW p, StoresMatch(l, p), NEW t \in Int, KeptBoth(l, p, t), NEW r, NEW review,
         Apart(Pg!ListReviewAttempts(p, r, review), "created")
  PROVE  SameRows(Lite!ListReviewAttempts(l, r, review), Pg!ListReviewAttempts(p, r, review))
<1> DEFINE K == {j \in DOMAIN p.attempts : p.attempts[j].receipt = r /\ p.attempts[j].review = review}
           f == l.attempts
           g == p.attempts
           S == {f[k] : k \in K}
           T == {g[k] : k \in K}
<1>1. Kept(l, LiteTime(t)) /\ Kept(p, t)
  BY DEF KeptBoth
<1>2. /\ "attempts" \in Tables /\ {"receipt", "review", "created"} \subseteq Columns["attempts"]
      /\ {"receipt", "review"} \cap Times = {} /\ "created" \in Times
  BY DEF Tables, Columns, Times
<1>3. /\ DOMAIN f = DOMAIN g
      /\ \A i \in DOMAIN f : /\ f[i].receipt = g[i].receipt /\ f[i].review = g[i].review
                             /\ f[i].created = Seconds("created", g[i].created)
  BY <1>2, StoredColumns
<1>4. K = {j \in DOMAIN f : f[j].receipt = r /\ f[j].review = review}
  BY <1>3
<1>5. Lite!ListReviewAttempts(l, r, review) = Ordered(S, OldestFirst)
  <2> DEFINE A == {l.attempts[i] : i \in {j \in DOMAIN l.attempts : l.attempts[j].receipt = r
                                                                   /\ l.attempts[j].review = review}}
  <2>1. Lite!ListReviewAttempts(l, r, review) = Lite!Ordered(A, Lite!OldestFirst)
    BY DEF Lite!ListReviewAttempts, Lite!Ordered, Lite!Cardinality, Lite!OldestFirst
  <2>2. A = S
    BY <1>4
  <2> HIDE DEF A, S
  <2> QED BY <2>1, <2>2, SharedOrders
<1>6. Pg!ListReviewAttempts(p, r, review) = Ordered(T, OldestFirst)
  <2>1. Pg!ListReviewAttempts(p, r, review) = Pg!Ordered(T, Pg!OldestFirst)
    BY DEF Pg!ListReviewAttempts, Pg!Ordered, Pg!Cardinality, Pg!OldestFirst
  <2> HIDE DEF T
  <2> QED BY <2>1, SharedOrders
<1>7. PICK n \in Nat : DOMAIN g = 1..n
  BY <1>1 DEF Kept, NumbersKept, IsLog
<1>8. IsFiniteSet(K) /\ K \in SUBSET Int /\ K \in SUBSET DOMAIN g
  <2>1. IsFiniteSet(1..n) /\ K \in SUBSET (1..n)
    BY <1>7, FS_Interval
  <2> HIDE DEF K
  <2>2. K \in SUBSET Int
    BY <2>1
  <2>3. IsFiniteSet(K)
    BY <2>1, FS_Subset
  <2> QED BY <1>7, <2>1, <2>2, <2>3
<1>9. SameRows(f, g)
  <2>1. TablesAgree(l.attempts, p.attempts, Columns["attempts"])
    BY <1>2 DEF StoresMatch
  <2> QED BY <2>1, SameRowsForm
<1>10. \A k \in DOMAIN g : /\ g[k].created \in Int /\ f[k].created = LiteTime(g[k].created) /\ SameRow(f[k], g[k])
  <2>1. \A k \in DOMAIN g : g[k].created \in Int
    BY <1>1 DEF Kept, DatesKept
  <2> QED BY <1>2, <1>3, <1>9, <2>1, SecondOf DEF SameRows
<1>11. \A j, k \in DOMAIN g : (f[j].id < f[k].id <=> j < k) /\ (g[j].id < g[k].id <=> j < k)
  <2>1. /\ \A j \in DOMAIN g : f[j].id \in Int /\ g[j].id \in Int
        /\ \A j, k \in DOMAIN g : j < k => f[j].id < f[k].id /\ g[j].id < g[k].id
    BY <1>1, <1>3 DEF Kept, NumbersKept
  <2>2. ASSUME NEW j \in DOMAIN g, NEW k \in DOMAIN g
        PROVE  (f[j].id < f[k].id <=> j < k) /\ (g[j].id < g[k].id <=> j < k)
    <3>1. PICK a \in Int, b \in Int, c \in Int, d \in Int :
            a = f[j].id /\ b = f[k].id /\ c = g[j].id /\ d = g[k].id
      BY <2>1
    <3>2. j \in Int /\ k \in Int
      BY <1>7
    <3>3. (j < k => a < b /\ c < d) /\ (k < j => b < a /\ d < c) /\ (j = k => a = b /\ c = d)
      BY <2>1, <3>1
    <3> QED BY <3>1, <3>2, <3>3
  <2> QED BY <2>2
<1>12. IsImage(S, K, f) /\ IsImage(T, K, g)
  BY DEF IsImage
<1> HIDE DEF K, f, g, S, T
<1>13. Apart(Ordered(T, OldestFirst), "created") => SameRows(Ordered(S, OldestFirst), Ordered(T, OldestFirst))
  BY <1>8, <1>10, <1>11, <1>12, CreatedListings
<1> QED BY <1>5, <1>6, <1>13

-------------------------------------------------------------------------------
(* The receipt history. *)

ReceiptAnswerCols == {"key", "task", "phase", "request", "status", "updated"}
ReceiptOf(k, r, request, status, at) ==
    [key |-> k, task |-> r.task, phase |-> r.phase, request |-> request, status |-> status, updated |-> at]
LiteReceipts(d) == [k \in DOMAIN d.receipts |->
    ReceiptOf(k, d.receipts[k], COALESCE(Lite!LatestRun(d, k).request, Blank),
              COALESCE(Lite!LatestRun(d, k).status, Blank),
              COALESCE(Lite!LatestRun(d, k).created, d.receipts[k].created))]
PgReceipts(d) == [k \in DOMAIN d.receipts |->
    ReceiptOf(k, d.receipts[k], COALESCE(Pg!LatestRun(d, k).request, Blank),
              COALESCE(Pg!LatestRun(d, k).status, Blank),
              COALESCE(Pg!LatestRun(d, k).created, d.receipts[k].created))]
FoundReceipts(d, word) ==
    {k \in DOMAIN d.receipts :
        \/ word = Blank
        \/ word \in {d.receipts[k].task, d.receipts[k].phase}
        \/ \E i \in DOMAIN d.runs : d.runs[i].receipt = k /\ word \in WordsOf(d.runs[i])}
FoundButIssues(d, word) ==
    {k \in DOMAIN d.receipts :
        \/ word = Blank
        \/ word \in {d.receipts[k].task, d.receipts[k].phase}
        \/ \E i \in DOMAIN d.runs :
              d.runs[i].receipt = k /\ word \in {d.runs[i].request, d.runs[i].status, d.runs[i].outcome}
                                                  \cup d.runs[i].files}

LEMMA ReceiptForm ==
  \A k, r, a, b, c :
    /\ IsRow(ReceiptOf(k, r, a, b, c), ReceiptAnswerCols)
    /\ ReceiptOf(k, r, a, b, c).key = k /\ ReceiptOf(k, r, a, b, c)["key"] = k
    /\ ReceiptOf(k, r, a, b, c)["task"] = r.task /\ ReceiptOf(k, r, a, b, c)["phase"] = r.phase
    /\ ReceiptOf(k, r, a, b, c)["request"] = a /\ ReceiptOf(k, r, a, b, c)["status"] = b
    /\ ReceiptOf(k, r, a, b, c)["updated"] = c /\ ReceiptOf(k, r, a, b, c).updated = c
BY DEF ReceiptOf, IsRow, ReceiptAnswerCols

LEMMA LiteReceiptHistory ==
  ASSUME NEW d, NEW q
  PROVE  LET S == {LiteReceipts(d)[k] : k \in FoundButIssues(d, q.word)}
         IN  Lite!ListReceiptHistory(d, q) = Cut(Ordered(S, NewestFirst), q, Clamped(q))
<1> DEFINE K == FoundButIssues(d, q.word)
           S == {LiteReceipts(d)[k] : k \in K}
           A == {[key |-> k, task |-> d.receipts[k].task, phase |-> d.receipts[k].phase,
                  request |-> Lite!COALESCE(Lite!LatestRun(d, k).request, Blank),
                  status |-> Lite!COALESCE(Lite!LatestRun(d, k).status, Blank),
                  updated |-> Lite!COALESCE(Lite!LatestRun(d, k).created, d.receipts[k].created)] : k \in K}
<1>1. Lite!ListReceiptHistory(d, q) = Lite!Limited(Lite!Ordered(A, Lite!NewestFirst), q)
  <2>1. K = {k \in DOMAIN d.receipts :
                \/ q.word = Blank
                \/ q.word \in {d.receipts[k].task, d.receipts[k].phase}
                \/ \E i \in DOMAIN d.runs : d.runs[i].receipt = k /\ q.word \in Lite!RunWords(d.runs[i])}
    BY DEF FoundButIssues, Lite!RunWords
  <2> HIDE DEF K
  <2> QED BY <2>1 DEF Lite!ListReceiptHistory, Lite!Ordered, Lite!Cardinality, Lite!NewestFirst
<1>2. A = S
  <2>1. K \subseteq DOMAIN d.receipts
    BY DEF FoundButIssues
  <2>2. \A x, y : Lite!COALESCE(x, y) = COALESCE(x, y)
    BY DEF Lite!COALESCE, COALESCE
  <2> HIDE DEF K
  <2>3. \A k \in K : LiteReceipts(d)[k] =
          [key |-> k, task |-> d.receipts[k].task, phase |-> d.receipts[k].phase,
           request |-> Lite!COALESCE(Lite!LatestRun(d, k).request, Blank),
           status |-> Lite!COALESCE(Lite!LatestRun(d, k).status, Blank),
           updated |-> Lite!COALESCE(Lite!LatestRun(d, k).created, d.receipts[k].created)]
    BY <2>1, <2>2 DEF LiteReceipts, ReceiptOf
  <2> QED BY <2>3
<1> HIDE DEF S, A
<1>3. Lite!ListReceiptHistory(d, q) = Cut(Ordered(S, NewestFirst), q, Clamped(q))
  BY <1>1, <1>2, SharedOrders, SharedLimits
<1> QED BY <1>3 DEF S

LEMMA PgReceiptHistory ==
  ASSUME NEW d, NEW q
  PROVE  LET S == {PgReceipts(d)[k] : k \in FoundReceipts(d, q.word)}
         IN  Pg!ListReceiptHistory(d, q) = Cut(Ordered(S, NewestFirst), q, Clamped(q))
<1> DEFINE K == FoundReceipts(d, q.word)
           S == {PgReceipts(d)[k] : k \in K}
           A == {[key |-> k, task |-> d.receipts[k].task, phase |-> d.receipts[k].phase,
                  request |-> Pg!COALESCE(Pg!LatestRun(d, k).request, Blank),
                  status |-> Pg!COALESCE(Pg!LatestRun(d, k).status, Blank),
                  updated |-> Pg!COALESCE(Pg!LatestRun(d, k).created, d.receipts[k].created)] : k \in K}
<1>1. Pg!ListReceiptHistory(d, q) = Pg!Limited(Pg!Ordered(A, Pg!NewestFirst), q)
  <2>1. K = {k \in DOMAIN d.receipts :
                \/ q.word = Blank
                \/ q.word \in {d.receipts[k].task, d.receipts[k].phase}
                \/ \E i \in DOMAIN d.runs : d.runs[i].receipt = k /\ q.word \in Pg!RunWords(d.runs[i])}
    BY DEF FoundReceipts, WordsOf, Pg!RunWords
  <2> HIDE DEF K
  <2> QED BY <2>1 DEF Pg!ListReceiptHistory, Pg!Ordered, Pg!Cardinality, Pg!NewestFirst
<1>2. A = S
  <2>1. K \subseteq DOMAIN d.receipts
    BY DEF FoundReceipts
  <2>2. \A x, y : Pg!COALESCE(x, y) = COALESCE(x, y)
    BY DEF Pg!COALESCE, COALESCE
  <2> HIDE DEF K
  <2>3. \A k \in K : PgReceipts(d)[k] =
          [key |-> k, task |-> d.receipts[k].task, phase |-> d.receipts[k].phase,
           request |-> Pg!COALESCE(Pg!LatestRun(d, k).request, Blank),
           status |-> Pg!COALESCE(Pg!LatestRun(d, k).status, Blank),
           updated |-> Pg!COALESCE(Pg!LatestRun(d, k).created, d.receipts[k].created)]
    BY <2>1, <2>2 DEF PgReceipts, ReceiptOf
  <2> QED BY <2>3
<1> HIDE DEF S, A
<1>3. Pg!ListReceiptHistory(d, q) = Cut(Ordered(S, NewestFirst), q, Clamped(q))
  BY <1>1, <1>2, SharedOrders, SharedLimits
<1> QED BY <1>3 DEF S

LEMMA FoundReceiptsAgree ==
  ASSUME NEW l, NEW p, StoresMatch(l, p), NEW word,
         word = Blank \/ \A i \in DOMAIN p.runs : word \notin p.runs[i].issues
  PROVE  FoundButIssues(l, word) = FoundReceipts(p, word)
<1>1. /\ "runs" \in Tables /\ {"receipt", "request", "status", "outcome", "files"} \subseteq Columns["runs"]
      /\ "receipts" \in Tables /\ {"task", "phase"} \subseteq Columns["receipts"]
      /\ {"receipt", "request", "status", "outcome", "files", "task", "phase"} \cap Times = {}
  BY DEF Tables, Columns, Times
<1>2. /\ DOMAIN l.runs = DOMAIN p.runs
      /\ \A i \in DOMAIN l.runs : /\ l.runs[i].receipt = p.runs[i].receipt
                                  /\ l.runs[i].request = p.runs[i].request
                                  /\ l.runs[i].status = p.runs[i].status
                                  /\ l.runs[i].outcome = p.runs[i].outcome
                                  /\ l.runs[i].files = p.runs[i].files
  BY <1>1, StoredColumns
<1>3. /\ DOMAIN l.receipts = DOMAIN p.receipts
      /\ \A k \in DOMAIN p.receipts : /\ l.receipts[k].task = p.receipts[k].task
                                      /\ l.receipts[k].phase = p.receipts[k].phase
  BY <1>1, StoredColumns
<1>4. CASE word = Blank
  BY <1>3, <1>4 DEF FoundButIssues, FoundReceipts
<1>5. CASE \A i \in DOMAIN p.runs : word \notin p.runs[i].issues
  <2>1. \A i \in DOMAIN p.runs :
          word \in WordsOf(p.runs[i])
            <=> word \in {l.runs[i].request, l.runs[i].status, l.runs[i].outcome} \cup l.runs[i].files
    BY <1>2, <1>5 DEF WordsOf
  <2>2. ASSUME NEW k
        PROVE  (\E i \in DOMAIN p.runs : p.runs[i].receipt = k /\ word \in WordsOf(p.runs[i]))
                 <=> (\E i \in DOMAIN l.runs :
                        l.runs[i].receipt = k /\ word \in {l.runs[i].request, l.runs[i].status, l.runs[i].outcome}
                                                            \cup l.runs[i].files)
    BY <1>2, <2>1
  <2> QED BY <1>3, <2>2 DEF FoundButIssues, FoundReceipts
<1> QED BY <1>4, <1>5

LEMMA ReceiptSame ==
  ASSUME NEW l, NEW p, StoresMatch(l, p), NEW t \in Int, KeptBoth(l, p, t), NEW k \in DOMAIN p.receipts
  PROVE  LET x == LiteReceipts(l)[k]
             y == PgReceipts(p)[k]
         IN  /\ x.key = k /\ y.key = k /\ y.updated \in Int /\ x.updated = LiteTime(y.updated) /\ SameRow(x, y)
<1>1. /\ "receipts" \in Tables /\ {"task", "phase"} \subseteq Columns["receipts"] /\ {"task", "phase"} \cap Times = {}
  BY DEF Tables, Columns, Times
<1>2. /\ k \in DOMAIN l.receipts /\ l.receipts[k].task = p.receipts[k].task /\ l.receipts[k].phase = p.receipts[k].phase
  BY <1>1, StoredColumns
<1>3. PICK a1, a2, a3, b1, b2, b3 :
         /\ a1 = COALESCE(Lite!LatestRun(l, k).request, Blank) /\ b1 = COALESCE(Pg!LatestRun(p, k).request, Blank)
         /\ a2 = COALESCE(Lite!LatestRun(l, k).status, Blank) /\ b2 = COALESCE(Pg!LatestRun(p, k).status, Blank)
         /\ a3 = COALESCE(Lite!LatestRun(l, k).created, l.receipts[k].created)
         /\ b3 = COALESCE(Pg!LatestRun(p, k).created, p.receipts[k].created)
  OBVIOUS
<1>4. a1 = b1 /\ a2 = b2 /\ b3 \in Int /\ a3 = LiteTime(b3)
  BY <1>3, NewestRunAgrees
<1>5. PICK x, y : x = LiteReceipts(l)[k] /\ y = PgReceipts(p)[k]
  OBVIOUS
<1>6. x = ReceiptOf(k, l.receipts[k], a1, a2, a3) /\ y = ReceiptOf(k, p.receipts[k], b1, b2, b3)
  BY <1>2, <1>3, <1>5 DEF LiteReceipts, PgReceipts
<1>7. /\ x.key = k /\ x["key"] = k /\ x["task"] = l.receipts[k].task /\ x["phase"] = l.receipts[k].phase
      /\ x["request"] = a1 /\ x["status"] = a2 /\ x["updated"] = a3 /\ x.updated = a3
      /\ IsRow(x, ReceiptAnswerCols)
  BY <1>6, ReceiptForm
<1>8. /\ y.key = k /\ y["key"] = k /\ y["task"] = p.receipts[k].task /\ y["phase"] = p.receipts[k].phase
      /\ y["request"] = b1 /\ y["status"] = b2 /\ y["updated"] = b3 /\ y.updated = b3
      /\ IsRow(y, ReceiptAnswerCols)
  BY <1>6, ReceiptForm
<1>9. "updated" \in Times
  BY DEF Times
<1>10. x["updated"] = Seconds("updated", y["updated"])
  BY <1>4, <1>7, <1>8, <1>9, SecondOf
<1>11. /\ x["key"] = y["key"] /\ x["task"] = y["task"] /\ x["phase"] = y["phase"]
       /\ x["request"] = y["request"] /\ x["status"] = y["status"]
  BY <1>2, <1>4, <1>7, <1>8
<1>12. \A c \in ReceiptAnswerCols : c = "id" \/ c \in Times \/ x[c] = y[c]
  BY <1>9, <1>11 DEF ReceiptAnswerCols
<1>13. \A c \in ReceiptAnswerCols : c \in Times => x[c] = Seconds(c, y[c])
  BY <1>10 DEF ReceiptAnswerCols, Times
<1>14. SameRow(x, y)
  BY <1>7, <1>8, <1>12, <1>13, AnswerRow
<1> QED BY <1>4, <1>5, <1>7, <1>8, <1>14

LEMMA Unlimited ==
  ASSUME NEW q, q.unbounded, NEW seq, NEW n
  PROVE  Cut(seq, q, n) = seq
BY DEF Cut

LEMMA ReceiptHistoryAgrees ==
  ASSUME NEW l, NEW p, StoresMatch(l, p), NEW t \in Int, KeptBoth(l, p, t), NEW q, q.limit \in Int,
         q.word = Blank \/ \A i \in DOMAIN p.runs : q.word \notin p.runs[i].issues,
         NEW all, all.unbounded, all.word = q.word
  PROVE  /\ q.unbounded => SameSet(Lite!ListReceiptHistory(l, q), Pg!ListReceiptHistory(p, q))
         /\ Apart(Pg!ListReceiptHistory(p, all), "updated") =>
               SameRows(Lite!ListReceiptHistory(l, q), Pg!ListReceiptHistory(p, q))
<1> DEFINE K == FoundReceipts(p, q.word)
           f == LiteReceipts(l)
           g == PgReceipts(p)
           S == {f[k] : k \in K}
           T == {g[k] : k \in K}
           n == Clamped(q)
<1>1. Lite!ListReceiptHistory(l, q) = Cut(Ordered(S, NewestFirst), q, n)
  <2>1. FoundButIssues(l, q.word) = K
    BY FoundReceiptsAgree
  <2> QED BY <2>1, LiteReceiptHistory
<1>2. Pg!ListReceiptHistory(p, q) = Cut(Ordered(T, NewestFirst), q, n)
  BY PgReceiptHistory
<1>3. Pg!ListReceiptHistory(p, all) = Ordered(T, NewestFirst)
  <2>1. Pg!ListReceiptHistory(p, all) = Cut(Ordered(T, NewestFirst), all, Clamped(all))
    BY PgReceiptHistory
  <2> HIDE DEF T
  <2> QED BY <2>1, Unlimited
<1>4. IsFiniteSet(K) /\ K \in SUBSET Int /\ K \in SUBSET DOMAIN p.receipts
  <2>1. K \in SUBSET DOMAIN p.receipts
    BY DEF FoundReceipts
  <2>2. IsFiniteSet(DOMAIN p.receipts) /\ DOMAIN p.receipts \in SUBSET Int
    BY DEF KeptBoth, Kept, KeysKept
  <2> HIDE DEF K
  <2> QED BY <2>1, <2>2, FS_Subset
<1>5. IsImage(S, K, f) /\ IsImage(T, K, g)
  BY DEF IsImage
<1> HIDE DEF K, f, g, S, T, n
<1>6. \A k \in K : /\ f[k].key = k /\ g[k].key = k /\ g[k].updated \in Int
                   /\ f[k].updated = LiteTime(g[k].updated) /\ SameRow(f[k], g[k])
  BY <1>4, ReceiptSame DEF f, g
<1>7. /\ SameSet(Ordered(S, NewestFirst), Ordered(T, NewestFirst))
      /\ Apart(Ordered(T, NewestFirst), "updated") =>
            SameRows(Cut(Ordered(S, NewestFirst), q, n), Cut(Ordered(T, NewestFirst), q, n))
  BY <1>4, <1>5, <1>6, UpdatedListings DEF n
<1>8. q.unbounded => Cut(Ordered(S, NewestFirst), q, n) = Ordered(S, NewestFirst)
                     /\ Cut(Ordered(T, NewestFirst), q, n) = Ordered(T, NewestFirst)
  BY Unlimited
<1> QED BY <1>1, <1>2, <1>3, <1>7, <1>8

-------------------------------------------------------------------------------
(* The listing of the work plans. *)

PlanAnswerCols == {"key", "receipt", "text", "status", "kind", "total", "counts", "active", "updated"}
SummaryOf(k, r, total, counts, active) ==
    [key |-> k, receipt |-> r.receipt, text |-> r.text, status |-> r.status, kind |-> r.kind,
     total |-> total, counts |-> counts, active |-> active, updated |-> r.updated]
CountsOf(a) == [s \in Statuses \ {"superseded"} |-> Cardinality({t \in DOMAIN a : a[t].status = s})]
OpenTasks(a) == {[key |-> t, rank |-> Openness(a[t].status)] :
                    t \in {x \in DOMAIN a : a[x].status \notin TerminalStatuses}}
ByRank(a, b) == a.rank > b.rank \/ (a.rank = b.rank /\ a.key < b.key)
ActiveOf(a) == LET sorted == Ordered(OpenTasks(a), ByRank) IN [i \in DOMAIN sorted |-> sorted[i].key]
SummaryAt(d, k) ==
    LET a == TasksAt(d, k)
    IN  SummaryOf(k, d.plans[k], Cardinality(DOMAIN a), CountsOf(a), ActiveOf(a))
PlanSummaries(d) == [k \in DOMAIN d.plans |-> SummaryAt(d, k)]
PlanInScope(plan, scope) ==
    CASE scope = "current"   -> plan.status \in {"pending", "in_progress"}
      [] scope = "deferred"  -> plan.status = "blocked"
      [] scope = "completed" -> plan.status \in {"complete", "superseded"}
      [] OTHER               -> TRUE
PlanIsFound(r, a, q) ==
    /\ PlanInScope(r, q.scope)
    /\ q.kind \in {Blank, r.kind}
    /\ q.word \in {Blank, r.kind} \cup r.text \/ \E t \in DOMAIN a : q.word \in a[t].text \cup {a[t].reason}
FoundPlans(d, q) == {k \in DOMAIN d.plans : PlanIsFound(d.plans[k], TasksAt(d, k), q)}

LEMMA SharedVocabulary ==
  /\ Lite!Statuses = Statuses /\ Pg!Statuses = Statuses
  /\ Lite!TerminalStatuses = TerminalStatuses /\ Pg!TerminalStatuses = TerminalStatuses
  /\ \A s : Lite!Openness(s) = Openness(s) /\ Pg!Openness(s) = Openness(s)
  /\ \A r, s : Lite!InScope(r, s) = PlanInScope(r, s) /\ Pg!InScope(r, s) = PlanInScope(r, s)
<1>1. /\ Lite!Statuses = Statuses /\ Pg!Statuses = Statuses
      /\ Lite!TerminalStatuses = TerminalStatuses /\ Pg!TerminalStatuses = TerminalStatuses
  BY DEF Lite!Statuses, Pg!Statuses, Statuses, Lite!TerminalStatuses, Pg!TerminalStatuses, TerminalStatuses
<1>2. \A s : Lite!Openness(s) = Openness(s) /\ Pg!Openness(s) = Openness(s)
  BY DEF Lite!Openness, Pg!Openness, Openness
<1>3. \A r, s : Lite!InScope(r, s) = PlanInScope(r, s) /\ Pg!InScope(r, s) = PlanInScope(r, s)
  BY DEF Lite!InScope, Pg!InScope, PlanInScope
<1> QED BY <1>1, <1>2, <1>3

LEMMA LiteSummary ==
  ASSUME NEW d, NEW k
  PROVE  Lite!PlanSummary(d, k) = SummaryAt(d, k)
<1> DEFINE a == TasksAt(d, k)
<1>1. Lite!TasksOf(d, k) = a /\ \A S : Lite!Cardinality(S) = Cardinality(S)
  BY SharedPlans, SharedForms
<1>2. Lite!ActiveTaskKeys(d, k) = ActiveOf(a)
  <2> DEFINE b == Lite!TasksOf(d, k)
             A == {[key |-> t, rank |-> Lite!Openness(b[t].status)] :
                      t \in {x \in DOMAIN b : b[x].status \notin Lite!TerminalStatuses}}
             s == Ordered(A, ByRank)
  <2>1. Lite!ActiveTaskKeys(d, k) = [i \in DOMAIN s |-> s[i].key]
    BY DEF Lite!ActiveTaskKeys, Lite!Ordered, Lite!Cardinality, Ordered, Cardinality, ByRank
  <2>2. A = OpenTasks(a)
    <3>1. b = a
      BY <1>1
    <3> HIDE DEF a
    <3>2. A = {[key |-> t, rank |-> Openness(b[t].status)] : t \in {x \in DOMAIN b : b[x].status \notin TerminalStatuses}}
      BY SharedVocabulary
    <3> HIDE DEF b, A
    <3> QED BY <3>1, <3>2 DEF OpenTasks
  <2> HIDE DEF A
  <2> QED BY <2>1, <2>2 DEF ActiveOf
<1> HIDE DEF a
<1>3. [s \in Lite!Statuses \ {"superseded"} |-> Lite!Cardinality({t \in DOMAIN a : a[t].status = s})] = CountsOf(a)
  BY <1>1, SharedVocabulary DEF CountsOf
<1>4. Lite!PlanSummary(d, k) =
        SummaryOf(k, d.plans[k], Lite!Cardinality(DOMAIN a),
                  [s \in Lite!Statuses \ {"superseded"} |-> Lite!Cardinality({t \in DOMAIN a : a[t].status = s})],
                  Lite!ActiveTaskKeys(d, k))
  BY <1>1 DEF Lite!PlanSummary, SummaryOf
<1> QED BY <1>1, <1>2, <1>3, <1>4 DEF SummaryAt, a

LEMMA PgSummary ==
  ASSUME NEW d, NEW k
  PROVE  Pg!PlanSummary(d, k) = SummaryAt(d, k)
<1> DEFINE a == TasksAt(d, k)
<1>1. Pg!TasksOf(d, k) = a /\ \A S : Pg!Cardinality(S) = Cardinality(S)
  BY SharedPlans, SharedForms
<1>2. Pg!ActiveTaskKeys(d, k) = ActiveOf(a)
  <2> DEFINE b == Pg!TasksOf(d, k)
             A == {[key |-> t, rank |-> Pg!Openness(b[t].status)] :
                      t \in {x \in DOMAIN b : b[x].status \notin Pg!TerminalStatuses}}
             s == Ordered(A, ByRank)
  <2>1. Pg!ActiveTaskKeys(d, k) = [i \in DOMAIN s |-> s[i].key]
    BY DEF Pg!ActiveTaskKeys, Pg!Ordered, Pg!Cardinality, Ordered, Cardinality, ByRank
  <2>2. A = OpenTasks(a)
    <3>1. b = a
      BY <1>1
    <3> HIDE DEF a
    <3>2. A = {[key |-> t, rank |-> Openness(b[t].status)] : t \in {x \in DOMAIN b : b[x].status \notin TerminalStatuses}}
      BY SharedVocabulary
    <3> HIDE DEF b, A
    <3> QED BY <3>1, <3>2 DEF OpenTasks
  <2> HIDE DEF A
  <2> QED BY <2>1, <2>2 DEF ActiveOf
<1> HIDE DEF a
<1>3. [s \in Pg!Statuses \ {"superseded"} |-> Pg!Cardinality({t \in DOMAIN a : a[t].status = s})] = CountsOf(a)
  BY <1>1, SharedVocabulary DEF CountsOf
<1>4. Pg!PlanSummary(d, k) =
        SummaryOf(k, d.plans[k], Pg!Cardinality(DOMAIN a),
                  [s \in Pg!Statuses \ {"superseded"} |-> Pg!Cardinality({t \in DOMAIN a : a[t].status = s})],
                  Pg!ActiveTaskKeys(d, k))
  BY <1>1 DEF Pg!PlanSummary, SummaryOf
<1> QED BY <1>1, <1>2, <1>3, <1>4 DEF SummaryAt, a

LEMMA PlanListForms ==
  ASSUME NEW d, NEW q
  PROVE  LET S == {PlanSummaries(d)[k] : k \in FoundPlans(d, q)}
         IN  /\ Lite!ListWorkPlans(d, q) = Cut(Ordered(S, NewestFirst), q, Clamped(q))
             /\ Pg!ListWorkPlans(d, q) = Cut(Ordered(S, NewestFirst), q, Clamped(q))
<1> DEFINE K == FoundPlans(d, q)
           S == {PlanSummaries(d)[k] : k \in K}
           A == {Lite!PlanSummary(d, k) : k \in K}
           B == {Pg!PlanSummary(d, k) : k \in K}
<1>1. Lite!ListWorkPlans(d, q) = Lite!Limited(Lite!Ordered(A, Lite!NewestFirst), q)
  <2>0. \A k : Lite!TasksOf(d, k) = TasksAt(d, k)
    BY SharedPlans
  <2>1. K = {k \in DOMAIN d.plans :
                /\ Lite!InScope(d.plans[k], q.scope)
                /\ q.kind \in {Blank, d.plans[k].kind}
                /\ \/ q.word \in {Blank, d.plans[k].kind} \cup d.plans[k].text
                   \/ \E t \in DOMAIN Lite!TasksOf(d, k) :
                         q.word \in Lite!TasksOf(d, k)[t].text \cup {Lite!TasksOf(d, k)[t].reason}}
    BY <2>0, SharedVocabulary DEF FoundPlans, PlanIsFound
  <2> HIDE DEF K
  <2> QED BY <2>1 DEF Lite!ListWorkPlans, Lite!Ordered, Lite!Cardinality, Lite!NewestFirst
<1>2. Pg!ListWorkPlans(d, q) = Pg!Limited(Pg!Ordered(B, Pg!NewestFirst), q)
  <2>0. \A k : Pg!TasksOf(d, k) = TasksAt(d, k)
    BY SharedPlans
  <2>1. K = {k \in DOMAIN d.plans :
                /\ Pg!InScope(d.plans[k], q.scope)
                /\ q.kind \in {Blank, d.plans[k].kind}
                /\ \/ q.word \in {Blank, d.plans[k].kind} \cup d.plans[k].text
                   \/ \E t \in DOMAIN Pg!TasksOf(d, k) :
                         q.word \in Pg!TasksOf(d, k)[t].text \cup {Pg!TasksOf(d, k)[t].reason}}
    BY <2>0, SharedVocabulary DEF FoundPlans, PlanIsFound
  <2> HIDE DEF K
  <2> QED BY <2>1 DEF Pg!ListWorkPlans, Pg!Ordered, Pg!Cardinality, Pg!NewestFirst
<1>3. A = S /\ B = S
  <2>1. K \subseteq DOMAIN d.plans
    BY DEF FoundPlans
  <2> HIDE DEF K
  <2>2. \A k \in K : PlanSummaries(d)[k] = Lite!PlanSummary(d, k) /\ PlanSummaries(d)[k] = Pg!PlanSummary(d, k)
    BY <2>1, LiteSummary, PgSummary DEF PlanSummaries
  <2> QED BY <2>2
<1> HIDE DEF S, A, B
<1>4. /\ Lite!ListWorkPlans(d, q) = Cut(Ordered(S, NewestFirst), q, Clamped(q))
      /\ Pg!ListWorkPlans(d, q) = Cut(Ordered(S, NewestFirst), q, Clamped(q))
  BY <1>1, <1>2, <1>3, SharedOrders, SharedLimits
<1> QED BY <1>4 DEF S

(* The tasks of a plan, as far as the summary counts and the search reads them. *)
LEMMA TasksCount ==
  ASSUME NEW a, NEW b, DOMAIN a = DOMAIN b,
         \A k \in DOMAIN b : a[k].status = b[k].status /\ a[k].text = b[k].text /\ a[k].reason = b[k].reason
  PROVE  /\ Cardinality(DOMAIN a) = Cardinality(DOMAIN b) /\ CountsOf(a) = CountsOf(b) /\ ActiveOf(a) = ActiveOf(b)
         /\ \A word : (\E t \in DOMAIN a : word \in a[t].text \cup {a[t].reason})
                        <=> (\E t \in DOMAIN b : word \in b[t].text \cup {b[t].reason})
<1>1. CountsOf(a) = CountsOf(b)
  <2>1. ASSUME NEW s PROVE {t \in DOMAIN a : a[t].status = s} = {t \in DOMAIN b : b[t].status = s}
    OBVIOUS
  <2> QED BY <2>1 DEF CountsOf
<1>2. ActiveOf(a) = ActiveOf(b)
  <2>1. OpenTasks(a) = OpenTasks(b)
    <3> DEFINE U == {x \in DOMAIN a : a[x].status \notin TerminalStatuses}
               V == {x \in DOMAIN b : b[x].status \notin TerminalStatuses}
    <3>1. U = V
      OBVIOUS
    <3>2. \A t \in V : Openness(a[t].status) = Openness(b[t].status)
      OBVIOUS
    <3>3. OpenTasks(a) = {[key |-> t, rank |-> Openness(a[t].status)] : t \in U}
          /\ OpenTasks(b) = {[key |-> t, rank |-> Openness(b[t].status)] : t \in V}
      BY DEF OpenTasks
    <3> HIDE DEF U, V
    <3> QED BY <3>1, <3>2, <3>3
  <2> QED BY <2>1 DEF ActiveOf
<1> QED BY <1>1, <1>2

LEMMA PlanRows ==
  ASSUME NEW l, NEW p, StoresMatch(l, p)
  PROVE  /\ DOMAIN l.plans = DOMAIN p.plans
         /\ \A k \in DOMAIN p.plans :
               /\ l.plans[k].receipt = p.plans[k].receipt /\ l.plans[k].text = p.plans[k].text
               /\ l.plans[k].kind = p.plans[k].kind /\ l.plans[k].status = p.plans[k].status
               /\ l.plans[k].updated = Seconds("updated", p.plans[k].updated)
<1>1. /\ "plans" \in Tables /\ {"receipt", "text", "kind", "status", "updated"} \subseteq Columns["plans"]
      /\ {"receipt", "text", "kind", "status"} \cap Times = {}
  BY DEF Tables, Columns, Times
<1> QED BY <1>1, StoredColumns

LEMMA FoundPlansAgree ==
  ASSUME NEW l, NEW p, StoresMatch(l, p), NEW t, Kept(p, t), NEW q
  PROVE  FoundPlans(l, q) = FoundPlans(p, q)
<1>1. ASSUME NEW k \in DOMAIN p.plans
      PROVE  PlanIsFound(l.plans[k], TasksAt(l, k), q) <=> PlanIsFound(p.plans[k], TasksAt(p, k), q)
  <2>1. PICK a, b, r, s : a = TasksAt(l, k) /\ b = TasksAt(p, k) /\ r = l.plans[k] /\ s = p.plans[k]
    OBVIOUS
  <2>2. /\ DOMAIN a = DOMAIN b
        /\ \A x \in DOMAIN a : a[x].status = b[x].status /\ a[x].text = b[x].text /\ a[x].reason = b[x].reason
    BY <2>1, TasksAtAgree
  <2>3. \A word : (\E x \in DOMAIN a : word \in a[x].text \cup {a[x].reason})
                    <=> (\E x \in DOMAIN b : word \in b[x].text \cup {b[x].reason})
    BY <2>2, TasksCount
  <2>4. r.text = s.text /\ r.kind = s.kind /\ r.status = s.status
    BY <2>1, PlanRows
  <2>5. PlanInScope(r, q.scope) <=> PlanInScope(s, q.scope)
    BY <2>4 DEF PlanInScope
  <2>6. PlanIsFound(r, a, q) <=> PlanIsFound(s, b, q)
    BY <2>3, <2>4, <2>5 DEF PlanIsFound
  <2> QED BY <2>1, <2>6
<1> QED BY <1>1, PlanRows DEF FoundPlans

LEMMA SummaryForm ==
  \A k, r, a, b, c :
    /\ IsRow(SummaryOf(k, r, a, b, c), PlanAnswerCols)
    /\ SummaryOf(k, r, a, b, c).key = k /\ SummaryOf(k, r, a, b, c)["key"] = k
    /\ SummaryOf(k, r, a, b, c)["receipt"] = r.receipt /\ SummaryOf(k, r, a, b, c)["text"] = r.text
    /\ SummaryOf(k, r, a, b, c)["status"] = r.status /\ SummaryOf(k, r, a, b, c)["kind"] = r.kind
    /\ SummaryOf(k, r, a, b, c)["total"] = a /\ SummaryOf(k, r, a, b, c)["counts"] = b
    /\ SummaryOf(k, r, a, b, c)["active"] = c
    /\ SummaryOf(k, r, a, b, c)["updated"] = r.updated /\ SummaryOf(k, r, a, b, c).updated = r.updated
BY DEF SummaryOf, IsRow, PlanAnswerCols

LEMMA PlanSame ==
  ASSUME NEW l, NEW p, StoresMatch(l, p), NEW t, Kept(p, t), NEW k \in DOMAIN p.plans
  PROVE  LET x == PlanSummaries(l)[k]
             y == PlanSummaries(p)[k]
         IN  /\ x.key = k /\ y.key = k /\ y.updated \in Int /\ x.updated = LiteTime(y.updated) /\ SameRow(x, y)
<1>1. PICK a, b, r, s : a = TasksAt(l, k) /\ b = TasksAt(p, k) /\ r = l.plans[k] /\ s = p.plans[k]
  OBVIOUS
<1>2. /\ DOMAIN a = DOMAIN b
      /\ \A x \in DOMAIN a : a[x].status = b[x].status /\ a[x].text = b[x].text /\ a[x].reason = b[x].reason
  BY <1>1, TasksAtAgree
<1>3. Cardinality(DOMAIN a) = Cardinality(DOMAIN b) /\ CountsOf(a) = CountsOf(b) /\ ActiveOf(a) = ActiveOf(b)
  BY <1>2, TasksCount
<1>4. /\ k \in DOMAIN l.plans /\ r.receipt = s.receipt /\ r.text = s.text /\ r.kind = s.kind /\ r.status = s.status
      /\ r.updated = Seconds("updated", s.updated)
  BY <1>1, PlanRows
<1>5. s.updated \in Int
  BY <1>1 DEF Kept, DatesKept
<1>6. "updated" \in Times
  BY DEF Times
<1>7. r.updated = LiteTime(s.updated)
  BY <1>4, <1>5, <1>6, SecondOf
<1>8. PICK u, v, w : u = Cardinality(DOMAIN b) /\ v = CountsOf(b) /\ w = ActiveOf(b)
  OBVIOUS
<1>9. PICK x, y : x = PlanSummaries(l)[k] /\ y = PlanSummaries(p)[k]
  OBVIOUS
<1>10. x = SummaryOf(k, r, u, v, w) /\ y = SummaryOf(k, s, u, v, w)
  BY <1>1, <1>3, <1>4, <1>8, <1>9 DEF PlanSummaries, SummaryAt
<1>11. /\ IsRow(x, PlanAnswerCols) /\ x.key = k /\ x.updated = r.updated
       /\ x["key"] = k /\ x["receipt"] = r.receipt /\ x["text"] = r.text /\ x["status"] = r.status /\ x["kind"] = r.kind
       /\ x["total"] = u /\ x["counts"] = v /\ x["active"] = w /\ x["updated"] = r.updated
  BY <1>10, SummaryForm
<1>12. /\ IsRow(y, PlanAnswerCols) /\ y.key = k /\ y.updated = s.updated
       /\ y["key"] = k /\ y["receipt"] = s.receipt /\ y["text"] = s.text /\ y["status"] = s.status /\ y["kind"] = s.kind
       /\ y["total"] = u /\ y["counts"] = v /\ y["active"] = w /\ y["updated"] = s.updated
  BY <1>10, SummaryForm
<1>13. /\ x["key"] = y["key"] /\ x["receipt"] = y["receipt"] /\ x["text"] = y["text"] /\ x["status"] = y["status"]
       /\ x["kind"] = y["kind"] /\ x["total"] = y["total"] /\ x["counts"] = y["counts"] /\ x["active"] = y["active"]
       /\ x["updated"] = Seconds("updated", y["updated"])
  BY <1>4, <1>11, <1>12
<1>14. \A c \in PlanAnswerCols : c = "id" \/ c \in Times \/ x[c] = y[c]
  BY <1>6, <1>13 DEF PlanAnswerCols
<1>15. \A c \in PlanAnswerCols : c \in Times => x[c] = Seconds(c, y[c])
  BY <1>13 DEF PlanAnswerCols, Times
<1>16. SameRow(x, y)
  BY <1>11, <1>12, <1>14, <1>15, AnswerRow
<1> QED BY <1>5, <1>7, <1>9, <1>11, <1>12, <1>16

LEMMA PlansAgree ==
  ASSUME NEW l, NEW p, StoresMatch(l, p), NEW t \in Int, KeptBoth(l, p, t), NEW q, q.limit \in Int,
         NEW all, all.unbounded, all.word = q.word, all.scope = q.scope, all.kind = q.kind
  PROVE  /\ q.unbounded => SameSet(Lite!ListWorkPlans(l, q), Pg!ListWorkPlans(p, q))
         /\ Apart(Pg!ListWorkPlans(p, all), "updated") =>
               SameRows(Lite!ListWorkPlans(l, q), Pg!ListWorkPlans(p, q))
<1> DEFINE K == FoundPlans(p, q)
           f == PlanSummaries(l)
           g == PlanSummaries(p)
           S == {f[k] : k \in K}
           T == {g[k] : k \in K}
           n == Clamped(q)
<1>0. Kept(p, t)
  BY DEF KeptBoth
<1>1. Lite!ListWorkPlans(l, q) = Cut(Ordered(S, NewestFirst), q, n)
  <2>1. FoundPlans(l, q) = K
    BY <1>0, FoundPlansAgree
  <2> QED BY <2>1, PlanListForms
<1>2. Pg!ListWorkPlans(p, q) = Cut(Ordered(T, NewestFirst), q, n)
  BY PlanListForms
<1>3. Pg!ListWorkPlans(p, all) = Ordered(T, NewestFirst)
  <2>1. FoundPlans(p, all) = K
    BY DEF FoundPlans, PlanIsFound
  <2>2. Pg!ListWorkPlans(p, all) = Cut(Ordered(T, NewestFirst), all, Clamped(all))
    BY <2>1, PlanListForms
  <2> HIDE DEF T
  <2> QED BY <2>2, Unlimited
<1>4. IsFiniteSet(K) /\ K \in SUBSET Int /\ K \in SUBSET DOMAIN p.plans
  <2>1. K \in SUBSET DOMAIN p.plans
    BY DEF FoundPlans
  <2>2. IsFiniteSet(DOMAIN p.plans) /\ DOMAIN p.plans \in SUBSET Int
    BY <1>0 DEF Kept, KeysKept
  <2> HIDE DEF K
  <2> QED BY <2>1, <2>2, FS_Subset
<1>5. IsImage(S, K, f) /\ IsImage(T, K, g)
  BY DEF IsImage
<1> HIDE DEF K, f, g, S, T, n
<1>6. \A k \in K : /\ f[k].key = k /\ g[k].key = k /\ g[k].updated \in Int
                   /\ f[k].updated = LiteTime(g[k].updated) /\ SameRow(f[k], g[k])
  BY <1>0, <1>4, PlanSame DEF f, g
<1>7. /\ SameSet(Ordered(S, NewestFirst), Ordered(T, NewestFirst))
      /\ Apart(Ordered(T, NewestFirst), "updated") =>
            SameRows(Cut(Ordered(S, NewestFirst), q, n), Cut(Ordered(T, NewestFirst), q, n))
  BY <1>4, <1>5, <1>6, UpdatedListings DEF n
<1>8. q.unbounded => Cut(Ordered(S, NewestFirst), q, n) = Ordered(S, NewestFirst)
                     /\ Cut(Ordered(T, NewestFirst), q, n) = Ordered(T, NewestFirst)
  BY Unlimited
<1> QED BY <1>1, <1>2, <1>3, <1>7, <1>8

-------------------------------------------------------------------------------
(* The answers together. *)

LEMMA KeptFacts ==
  ASSUME KeptInv
  PROVE  /\ StoresMatch(lite, pg) /\ now \in Int /\ KeptBoth(lite, pg, now)
         /\ Kept(pg, now) /\ Kept(lite, LiteTime(now))
BY DEF KeptInv, StoresInv, KeptBoth

LEMMA KeysKnown ==
  ASSUME KeptInv, NEW k \in KnownKeys
  PROVE  k # Blank
<1>1. Kept(lite, LiteTime(now))
  BY KeptFacts
<1>2. DOMAIN lite.pointers \cup DOMAIN lite.plans \cup DOMAIN lite.receipts \in SUBSET Int
  BY <1>1 DEF Kept, KeysKept, PointersKept
<1>3. k \in Int
  BY <1>2 DEF KnownKeys
<1> QED BY <1>3, ParityAssumption

(* The candidates, for every answer to whether stale pointers are wanted. *)
LEMMA CandidateAnswers ==
  ASSUME KeptInv, NEW stale \in BOOLEAN, NEW before \in {Null} \cup 1..now, before = Null \/ Comparable(before)
  PROVE  LET q == Joined([allowStale |-> stale, before |-> before], All)
         IN  SameRows(Lite!FetchCandidatePointers(lite, q), Pg!FetchCandidatePointers(pg, q))
<1> DEFINE q == Joined([allowStale |-> stale, before |-> before], All)
<1>1. q.limit = 0 /\ q.before = before
  BY DEF Joined, All
<1> HIDE DEF q
<1>2. q.limit \in Int
  BY <1>1
<1>3. q.before = Null \/ (q.before \in Int /\ ComparableIn(pg.pointers, q.before))
  <2>1. before = Null \/ before \in Int
    BY KeptFacts
  <2>2. Comparable(before) => ComparableIn(pg.pointers, before)
    BY DEF Comparable, ComparableIn
  <2> QED BY <1>1, <2>1, <2>2
<1>4. SameRows(Lite!FetchCandidatePointers(lite, q), Pg!FetchCandidatePointers(pg, q))
  BY <1>2, <1>3, KeptFacts, CandidatesAgree
<1> QED BY <1>4 DEF q

(* What is looked up by its key. *)
LEMMA KeyedAnswers ==
  ASSUME KeptInv, NEW k \in KnownKeys
  PROVE  /\ SameAnswer(Lite!LookupPointerByKey(lite, k), Pg!LookupPointerByKey(pg, k))
         /\ Lite!FetchReceiptScope(lite, k) = Pg!FetchReceiptScope(pg, k)
         /\ SameRows(Lite!ListWorkItems(lite, k), Pg!ListWorkItems(pg, k))
         /\ LET l == Lite!LookupFetchState(lite, k)
                p == Pg!LookupFetchState(pg, k)
            IN  /\ (l = NotFound) = (p = NotFound)
                /\ l # NotFound => SameRow([l EXCEPT !.items = Len(@)], [p EXCEPT !.items = Len(@)])
         /\ LET l == Lite!LookupWorkPlan(lite, [plan |-> k, receipt |-> Blank])
                p == Pg!LookupWorkPlan(pg, [plan |-> k, receipt |-> Blank])
            IN  /\ (l = NotFound) = (p = NotFound)
                /\ l # NotFound => SameRow(l.plan, p.plan) /\ SameRows(l.tasks, p.tasks)
<1>1. /\ StoresMatch(lite, pg) /\ now \in Int /\ KeptBoth(lite, pg, now) /\ Kept(pg, now)
  BY KeptFacts
<1>2. SameAnswer(Lite!LookupPointerByKey(lite, k), Pg!LookupPointerByKey(pg, k))
  BY <1>1, PointerAgrees
<1>3. Lite!FetchReceiptScope(lite, k) = Pg!FetchReceiptScope(pg, k)
  BY <1>1, ScopesAgree
<1>4. SameRows(Lite!ListWorkItems(lite, k), Pg!ListWorkItems(pg, k))
  BY <1>1, ItemsListed
<1>5. LET l == Lite!LookupFetchState(lite, k)
          p == Pg!LookupFetchState(pg, k)
      IN  /\ (l = NotFound) = (p = NotFound)
          /\ l # NotFound => SameRow([l EXCEPT !.items = Len(@)], [p EXCEPT !.items = Len(@)])
  BY <1>1, StateAgrees
<1>6. LET l == Lite!LookupWorkPlan(lite, [plan |-> k, receipt |-> Blank])
          p == Pg!LookupWorkPlan(pg, [plan |-> k, receipt |-> Blank])
      IN  /\ (l = NotFound) = (p = NotFound)
          /\ l # NotFound => SameRow(l.plan, p.plan) /\ SameRows(l.tasks, p.tasks)
  BY <1>1, KeysKnown, PlanAgrees
<1> QED BY <1>2, <1>3, <1>4, <1>5, <1>6

(* What is listed without a limit, for every word and scope. *)
LEMMA ListedAnswers ==
  ASSUME KeptInv, NEW word
  PROVE  LET q == Joined([word |-> word], All)
         IN  /\ (\A i \in DOMAIN pg.runs : word \notin pg.runs[i].issues) =>
                    SameSet(Lite!ListReceiptHistory(lite, q), Pg!ListReceiptHistory(pg, q))
             /\ SameRows(Lite!ListRunHistory(lite, q), Pg!ListRunHistory(pg, q))
             /\ \A scope \in {"current", "deferred", "completed", "all"} :
                    SameSet(Lite!ListWorkPlans(lite, Joined([scope |-> scope, kind |-> Blank], q)),
                            Pg!ListWorkPlans(pg, Joined([scope |-> scope, kind |-> Blank], q)))
<1> DEFINE q == Joined([word |-> word], All)
           z(scope) == Joined([scope |-> scope, kind |-> Blank], q)
<1>1. q.limit \in Int /\ q.unbounded /\ q.word = word
  BY DEF Joined, All
<1>2. \A scope : z(scope).limit \in Int /\ z(scope).unbounded
  BY DEF Joined, All
<1> HIDE DEF q
<1>3. /\ StoresMatch(lite, pg) /\ now \in Int /\ KeptBoth(lite, pg, now)
  BY KeptFacts
<1>4. (\A i \in DOMAIN pg.runs : word \notin pg.runs[i].issues) =>
          SameSet(Lite!ListReceiptHistory(lite, q), Pg!ListReceiptHistory(pg, q))
  <2>1. ASSUME \A i \in DOMAIN pg.runs : q.word \notin pg.runs[i].issues
        PROVE  /\ q.unbounded => SameSet(Lite!ListReceiptHistory(lite, q), Pg!ListReceiptHistory(pg, q))
               /\ Apart(Pg!ListReceiptHistory(pg, q), "updated") =>
                     SameRows(Lite!ListReceiptHistory(lite, q), Pg!ListReceiptHistory(pg, q))
    BY <1>1, <1>3, <2>1, ReceiptHistoryAgrees
  <2> QED BY <1>1, <2>1
<1>5. SameRows(Lite!ListRunHistory(lite, q), Pg!ListRunHistory(pg, q))
  BY <1>1, <1>3, RunHistoryAgrees
<1>6. ASSUME NEW scope PROVE SameSet(Lite!ListWorkPlans(lite, z(scope)), Pg!ListWorkPlans(pg, z(scope)))
  <2>1. PICK r : r = z(scope)
    OBVIOUS
  <2>2. r.limit \in Int /\ r.unbounded
    BY <1>2, <2>1
  <2>3. /\ r.unbounded => SameSet(Lite!ListWorkPlans(lite, r), Pg!ListWorkPlans(pg, r))
        /\ Apart(Pg!ListWorkPlans(pg, r), "updated") =>
              SameRows(Lite!ListWorkPlans(lite, r), Pg!ListWorkPlans(pg, r))
    BY <1>3, <2>2, PlansAgree
  <2> QED BY <2>1, <2>2, <2>3
<1> QED BY <1>4, <1>5, <1>6 DEF q

LEMMA AnswersFollow ==
  ASSUME KeptInv PROVE AnswersAgree
<1>1. \A i \in DOMAIN lite.runs :
         SameAnswer(Lite!LookupRunHistory(lite, lite.runs[i].id), Pg!LookupRunHistory(pg, pg.runs[i].id))
  BY KeptFacts, RunAgrees
<1>2. Lite!ListPointerInventory(lite) = Pg!ListPointerInventory(pg)
  BY KeptFacts, InventoryAgrees
<1> QED BY <1>1, <1>2, CandidateAnswers, KeyedAnswers, ListedAnswers DEF AnswersAgree

LEMMA OrderQueries ==
  ASSUME NEW limit \in Int
  PROVE  LET q == [word |-> Blank, scope |-> "all", kind |-> Blank, allowStale |-> TRUE, before |-> Null,
                   limit |-> limit, unbounded |-> FALSE]
             all == Joined(All, q)
         IN  /\ q.limit \in Int /\ q.before = Null /\ q.word = Blank /\ q.scope = "all" /\ q.kind = Blank
             /\ all.unbounded /\ all.word = Blank /\ all.scope = "all" /\ all.kind = Blank
BY DEF Joined, All

LEMMA ListedOrders ==
  ASSUME KeptInv, NEW limit \in Int
  PROVE  LET q == [word |-> Blank, scope |-> "all", kind |-> Blank, allowStale |-> TRUE, before |-> Null,
                   limit |-> limit, unbounded |-> FALSE]
         IN  /\ SameRows(Lite!FetchCandidatePointers(lite, q), Pg!FetchCandidatePointers(pg, q))
             /\ SameRows(Lite!ListRunHistory(lite, q), Pg!ListRunHistory(pg, q))
             /\ Apart(Pg!ListReceiptHistory(pg, Joined(All, q)), "updated") =>
                    SameRows(Lite!ListReceiptHistory(lite, q), Pg!ListReceiptHistory(pg, q))
             /\ Apart(Pg!ListWorkPlans(pg, Joined(All, q)), "updated") =>
                    SameRows(Lite!ListWorkPlans(lite, q), Pg!ListWorkPlans(pg, q))
<1> DEFINE q == [word |-> Blank, scope |-> "all", kind |-> Blank, allowStale |-> TRUE, before |-> Null,
                 limit |-> limit, unbounded |-> FALSE]
           all == Joined(All, q)
<1>1. /\ q.limit \in Int /\ q.before = Null /\ q.word = Blank /\ q.scope = "all" /\ q.kind = Blank
      /\ all.unbounded /\ all.word = Blank /\ all.scope = "all" /\ all.kind = Blank
  BY OrderQueries
<1> HIDE DEF q, all
<1>2. /\ StoresMatch(lite, pg) /\ now \in Int /\ KeptBoth(lite, pg, now) /\ Kept(pg, now)
  BY KeptFacts
<1>3. SameRows(Lite!FetchCandidatePointers(lite, q), Pg!FetchCandidatePointers(pg, q))
  BY <1>1, <1>2, CandidatesAgree
<1>4. SameRows(Lite!ListRunHistory(lite, q), Pg!ListRunHistory(pg, q))
  BY <1>1, <1>2, RunHistoryAgrees
<1>5. Apart(Pg!ListReceiptHistory(pg, all), "updated") =>
          SameRows(Lite!ListReceiptHistory(lite, q), Pg!ListReceiptHistory(pg, q))
  BY <1>1, <1>2, ReceiptHistoryAgrees
<1>6. Apart(Pg!ListWorkPlans(pg, all), "updated") =>
          SameRows(Lite!ListWorkPlans(lite, q), Pg!ListWorkPlans(pg, q))
  BY <1>1, <1>2, PlansAgree
<1> QED BY <1>3, <1>4, <1>5, <1>6 DEF q, all

LEMMA OrdersFollow ==
  ASSUME KeptInv PROVE OrdersAgree
<1>1. 0..(MaxLimit + 1) \in SUBSET Int
  BY ParityAssumption
<1>2. \A r, review :
         Apart(Pg!ListReviewAttempts(pg, r, review), "created") =>
             SameRows(Lite!ListReviewAttempts(lite, r, review), Pg!ListReviewAttempts(pg, r, review))
  BY KeptFacts, ReviewsAgree
<1> QED BY <1>1, <1>2, ListedOrders DEF OrdersAgree

LEMMA AlwaysKept == Spec => []KeptInv
<1>1. Init => KeptInv
  BY KeptInit
<1>2. KeptInv /\ [Next]_vars => KeptInv'
  BY KeptStep
<1> QED BY <1>1, <1>2, PTL DEF Spec

(* Whatever the calls, every question of the services has one answer on both
   adapters: the lookups of a pointer, a scope, a run, a plan by its key and the
   state of a receipt, and every listing taken as a set, computed by SQL on Postgres and
   by queries and Go on SQLite.  The rows agree up to the precision of the
   clocks (SQLite keeps seconds), and the search of receipts up to the issues of
   a run, which only Postgres looks at. *)
THEOREM EquivalentAnswers == Spec => []AnswersAgree
<1>1. KeptInv => AnswersAgree
  BY AnswersFollow
<1> QED BY <1>1, AlwaysKept, PTL

(* Whatever the calls, both adapters cut a listing at the same row and show it
   in the same order, for every limit that the callers pass: candidates and runs
   always, the listings by time whenever their rows differ in seconds. *)
THEOREM EquivalentOrders == Spec => []OrdersAgree
<1>1. KeptInv => OrdersAgree
  BY OrdersFollow
<1> QED BY <1>1, AlwaysKept, PTL

===============================================================================
