----------------------------- MODULE SqliteStore -----------------------------
(***************************************************************************)
(* The repository over SQLite (internal/adapters/sqlite): every operation  *)
(* takes the database and the instant of the call and is translated from   *)
(* the statements it executes.  A timestamp is a number of seconds, a list *)
(* a JSON text that is decoded and filtered in Go.                         *)
(***************************************************************************)
EXTENDS Storage

unixepoch(now) == now \div TicksPerSecond

(***************************************************************************)
(* Pointers.                                                               *)
(***************************************************************************)
\* normalizePointerStubs: a stub without a key is keyed by its path.
NormalizeStubs(stubs) ==
    ByKey([i \in DOMAIN stubs |-> [stubs[i] EXCEPT !.key = OrElse(@, stubs[i].path)]], Alike)

(* Mutant: a stub of a path that came back leaves its pointer stale. *)
StubColumnsKeepStale == {"path", "updated"}
\* the columns ON CONFLICT sets
StubColumns == {"path", "stale", "staleAt", "updated"}

UpsertPointerStubs(db, stubs, now) ==
    LET rows == NormalizeStubs(stubs)
        entry(s) == [key |-> s.key,
                     row |-> [path |-> s.path, kind |-> s.kind, text |-> s.text, rule |-> s.kind = "rule",
                              stale |-> FALSE, staleAt |-> Null, hash |-> Null, updated |-> unixepoch(now)]]
    IN  Done([db EXCEPT !.pointers =
                 UpsertEach(@, [i \in DOMAIN rows |-> entry(rows[i])], StubColumns)], Len(rows))

\* normalizeRulePointerSyncInput keeps the last pointer of a key.
SyncRulePointers(db, source, rules, now) ==
    LET rows == ByKey(rules, Alike)
        entry(r) == [key |-> r.key,
                     row |-> [path |-> source, kind |-> "rule", text |-> r.text, rule |-> TRUE,
                              stale |-> FALSE, staleAt |-> Null, hash |-> Null, updated |-> unixepoch(now)]]
        upserted == UpsertEach(db.pointers, [i \in DOMAIN rows |-> entry(rows[i])],
                               {"path", "kind", "text", "rule", "stale", "staleAt", "hash", "updated"})
        active   == {rows[i].key : i \in DOMAIN rows}
        missing  == Where(upserted, LAMBDA p : p.path = source /\ p.rule) \ active
    IN  Done([db EXCEPT !.pointers = Delete(upserted, missing)],
             [upserted |-> Len(rows), markedStale |-> Cardinality(missing)])

\* ApplySync: one statement for the deleted paths, one for the missing ones, one per present path.
ApplySync(db, input, now) ==
    LET paths   == SyncPaths(input)
        gone    == {paths[i].key : i \in {j \in DOMAIN paths : paths[j].deleted}}
        names   == {paths[i].key : i \in {j \in DOMAIN paths : ~ paths[j].deleted}}
        stale   == [stale |-> TRUE, staleAt |-> unixepoch(now), updated |-> unixepoch(now)]
        deleted == Where(db.pointers, LAMBDA p : ~ p.stale /\ p.path \in gone)
        first   == Set(db.pointers, deleted, stale)
        missing == IF input.mode # "full" THEN {}
                   ELSE Where(first, LAMBDA p : ~ p.stale /\ p.path \notin names)
        second  == Set(first, missing, stale)
        refresh(acc, s) ==
            LET hit == Where(acc.table, LAMBDA p : /\ ~ s.deleted /\ p.path = s.key
                                                   /\ p.stale \/ p.hash # s.hash)
            IN  [table |-> Set(acc.table, hit, [hash |-> s.hash, stale |-> FALSE, staleAt |-> Null,
                                                updated |-> unixepoch(now)]),
                 updated |-> acc.updated + Cardinality(hit)]
        third   == FoldLeft(refresh, [table |-> second, updated |-> 0], paths)
        candidate(acc, s) ==
            IF ~ input.insertNew \/ s.deleted \/ s.key \in DOMAIN acc.table
               \/ Where(third.table, LAMBDA p : p.path = s.key) # {} THEN acc
            ELSE [table |-> Joined(acc.table, [x \in {s.key} |-> [hash |-> s.hash, created |-> unixepoch(now)]]),
                  inserted |-> acc.inserted + 1]
        last    == FoldLeft(candidate, [table |-> db.candidates, inserted |-> 0], paths)
    IN  Done([db EXCEPT !.pointers = third.table, !.candidates = last.table],
             [deleted |-> Cardinality(deleted), missing |-> Cardinality(missing),
              updated |-> third.updated, candidates |-> last.inserted])

\* matchesStaleFilter, evaluated in Go on the second that was read.
matchesStaleFilter(p, filter) ==
    /\ p.stale => filter.allowStale
    /\ p.stale /\ filter.before # Null => p.staleAt * TicksPerSecond <= filter.before

Candidate(key, p) ==
    [key |-> key, path |-> p.path, kind |-> p.kind, text |-> p.text, rule |-> p.rule,
     stale |-> p.stale, updated |-> p.updated]

FetchCandidatePointers(db, q) ==
    SortedCandidates({Candidate(k, db.pointers[k]) :
                         k \in Where(db.pointers, LAMBDA p : matchesStaleFilter(p, q))}, q)

ListPointerInventory(db) ==
    LET paths == {db.pointers[k].path : k \in DOMAIN db.pointers}
    IN  Ordered({[path |-> x, stale |-> Where(db.pointers, LAMBDA p : p.path = x /\ p.stale) # {}] :
                    x \in paths}, LAMBDA a, b : a.path < b.path)

LookupPointerByKey(db, key) ==
    IF key \in Where(db.pointers, LAMBDA p : ~ p.stale) THEN Candidate(key, db.pointers[key]) ELSE NotFound

(***************************************************************************)
(* Receipts and runs.                                                      *)
(***************************************************************************)
UpsertReceiptScope(db, input, now) ==
    LET s == ReceiptScope(input)
    IN  Done([db EXCEPT !.receipts =
                 Upsert(@, s.key,
                        [task |-> s.task, phase |-> s.phase, pointers |-> s.pointers, scope |-> s.scope,
                         baseline |-> s.baseline, actor |-> s.actor, summary |-> Null,
                         created |-> unixepoch(now)],
                        {"task", "phase", "pointers", "scope", "baseline", "actor"})], "ok")

(* Mutant: the run overwrites the scope of its receipt. *)
RunColumnsAll == {"task", "phase", "pointers", "summary", "scope", "baseline", "actor"}
\* the columns of the receipt that a run sets
RunColumns == {"task", "phase", "pointers", "summary"}

\* SaveRunReceiptSummary: a receipt the run creates has the column defaults as its scope.
SaveRunReceiptSummary(db, input, now) ==
    LET s == RunSummary(input)
    IN  Done([db EXCEPT
                 !.receipts = Upsert(@, s.key,
                        [task |-> s.task, phase |-> s.phase, pointers |-> s.pointers, scope |-> {},
                         baseline |-> Null, actor |-> Blank, summary |-> s.task,
                         created |-> unixepoch(now)],
                        RunColumns),
                 !.runs = Append(@, [id |-> db.nextRun, receipt |-> s.key, request |-> s.request,
                                     status |-> s.status, files |-> s.files, outcome |-> s.outcome,
                                     issues |-> s.issues, created |-> unixepoch(now)]),
                 !.nextRun = @ + 1], db.nextRun)

\* A call that is cut off before its commit; AUTOINCREMENT is part of the transaction.
Interrupted(db) == Failed(db)

FetchReceiptScope(db, receipt) ==
    IF receipt \notin DOMAIN db.receipts THEN NotFound
    ELSE LET r == db.receipts[receipt]
         IN  [task |-> r.task, phase |-> r.phase, pointers |-> r.pointers, scope |-> r.scope,
              baseline |-> r.baseline, actor |-> r.actor]

\* ROW_NUMBER() ... rn = 1, and ORDER BY ... LIMIT 1
LatestRun(db, receipt) ==
    LET runs == Ordered({db.runs[i] : i \in {j \in DOMAIN db.runs : db.runs[j].receipt = receipt}}, NewestRun)
    IN  IF runs = <<>> THEN NoRun ELSE runs[1]

\* the words the search of a run's columns sees: of the summary, the outcome
RunWords(run) == {run.request, run.status, run.outcome} \cup run.files

ListReceiptHistory(db, q) ==
    LET found == {r \in DOMAIN db.receipts :
                     \/ q.word = Blank
                     \/ q.word \in {db.receipts[r].task, db.receipts[r].phase}
                     \/ \E i \in DOMAIN db.runs : db.runs[i].receipt = r /\ q.word \in RunWords(db.runs[i])}
        row(r) == LET run == LatestRun(db, r)
                  IN  [key |-> r, task |-> db.receipts[r].task, phase |-> db.receipts[r].phase,
                       request |-> COALESCE(run.request, Blank), status |-> COALESCE(run.status, Blank),
                       updated |-> COALESCE(run.created, db.receipts[r].created)]
    IN  Limited(Ordered({row(r) : r \in found}, NewestFirst), q)

RunRow(db, run) ==
    [id |-> run.id, receipt |-> run.receipt, request |-> run.request, status |-> run.status,
     files |-> run.files, outcome |-> run.outcome, created |-> run.created,
     task |-> db.receipts[run.receipt].task, phase |-> db.receipts[run.receipt].phase]

ListRunHistory(db, q) ==
    LET found == {i \in DOMAIN db.runs :
                     \/ q.word = Blank
                     \/ q.word \in RunWords(db.runs[i]) \cup db.runs[i].issues
                     \/ LET r == db.receipts[db.runs[i].receipt] IN q.word \in {r.task, r.phase}}
    IN  Limited(Ordered({RunRow(db, db.runs[i]) : i \in found}, NewestRun), q)

LookupRunHistory(db, id) ==
    LET found == {i \in DOMAIN db.runs : db.runs[i].id = id}
    IN  IF found = {} THEN NotFound ELSE RunRow(db, db.runs[CHOOSE i \in found : TRUE])

(***************************************************************************)
(* Work items.                                                             *)
(***************************************************************************)
\* UpsertWorkItems, one statement per item; the foreign key wants the receipt.
UpsertWorkItems(db, receipt, list, now) ==
    LET rows == WorkItems(list)
        entry(x) == [key |-> <<receipt, x.key>>,
                     row |-> [status |-> x.status, created |-> unixepoch(now), updated |-> unixepoch(now)]]
    IN  IF list = <<>> \/ receipt \notin DOMAIN db.receipts THEN Failed(db)
        ELSE Done([db EXCEPT !.items = UpsertEach(@, [i \in DOMAIN rows |-> entry(rows[i])],
                                                  {"status", "updated"})], Len(rows))

ListWorkItems(db, receipt) ==
    Ordered({[key |-> k[2], status |-> db.items[k].status, updated |-> db.items[k].updated] :
                k \in {x \in DOMAIN db.items : x[1] = receipt}}, LAMBDA a, b : a.key < b.key)

LookupFetchState(db, receipt) ==
    IF receipt \notin DOMAIN db.receipts THEN NotFound
    ELSE LET run   == LatestRun(db, receipt)
             items == ListWorkItems(db, receipt)
         IN  [receipt |-> receipt, items |-> items,
              runStatus  |-> COALESCE(run.status, Blank),
              planStatus |-> DerivePlanStatus({items[i].status : i \in DOMAIN items}),
              updated    |-> COALESCE(run.created, db.receipts[receipt].created)]

(***************************************************************************)
(* Work plans.                                                             *)
(***************************************************************************)
TasksOf(db, plan) ==
    LET keys == {k[2] : k \in {x \in DOMAIN db.tasks : x[1] = plan}}
    IN  [t \in keys |-> db.tasks[<<plan, t>>]]

ListWorkPlanTasks(db, plan) ==
    LET tasks == TasksOf(db, plan)
    IN  Ordered({Joined([key |-> t], tasks[t]) : t \in DOMAIN tasks}, LAMBDA a, b : a.key < b.key)

\* LookupWorkPlan, by the plan's key, as the services ask, or by its receipt.
LookupWorkPlan(db, q) ==
    LET ofReceipt == Ordered({[key |-> p, updated |-> db.plans[p].updated] :
                                p \in Where(db.plans, LAMBDA r : r.receipt = q.receipt)}, NewestFirst)
        key == IF q.plan # Blank THEN q.plan
               ELSE IF ofReceipt = <<>> THEN Blank ELSE ofReceipt[1].key
    IN  IF key \notin DOMAIN db.plans THEN NotFound
        ELSE [key |-> key, plan |-> db.plans[key], tasks |-> ListWorkPlanTasks(db, key)]

\* upsertWorkPlanRowTx
UpsertPlanRow(table, key, next, now) ==
    Upsert(table, key, Joined(next, [created |-> unixepoch(now), updated |-> unixepoch(now)]),
           {"receipt", "text", "kind", "status", "stages", "updated"})

(* Mutant: a replacement leaves the tasks it does not name. *)
ReplacedTasksNone(db, input) == {}
\* the tasks that a replacement deletes
ReplacedTasks(db, input) == {k \in DOMAIN db.tasks : input.mode = "replace" /\ k[1] = input.key}

\* UpsertWorkPlan: a status that is left out is derived from the tasks as they are after the write.
UpsertWorkPlan(db, input, now) ==
    LET found  == input.key \in DOMAIN db.plans
        next   == NextPlan(IF found THEN db.plans[input.key] ELSE EmptyPlan, input)
        stored == IF found /\ input.mode = "merge" /\ input.tasks # <<>> THEN TasksOf(db, input.key)
                  ELSE [t \in {} |-> t]
        rows   == IncomingTasks(stored, input)
        doomed == ReplacedTasks(db, input)
        entry(t) == [key |-> <<input.key, t.key>>,
                     row |-> [status |-> t.status, text |-> t.text, reason |-> t.reason,
                              created |-> unixepoch(now), updated |-> unixepoch(now)]]
        written == [db EXCEPT !.plans = UpsertPlanRow(@, input.key, next, now),
                              !.tasks = UpsertEach(Delete(@, doomed), [i \in DOMAIN rows |-> entry(rows[i])],
                                                   {"status", "text", "reason", "updated"})]
        derived == IF input.status # Blank THEN written
                   ELSE [written EXCEPT !.plans[input.key].status =
                            DerivePlanStatus({TasksOf(written, input.key)[t].status :
                                                t \in DOMAIN TasksOf(written, input.key)})]
    IN  Done(derived, Cardinality(doomed) + Len(rows))

InScope(plan, scope) ==
    CASE scope = "current"   -> plan.status \in {"pending", "in_progress"}
      [] scope = "deferred"  -> plan.status = "blocked"
      [] scope = "completed" -> plan.status \in {"complete", "superseded"}
      [] OTHER               -> TRUE

\* listActiveWorkPlanTaskKeys: the open tasks, the blocked ones first.
ActiveTaskKeys(db, plan) ==
    LET tasks  == TasksOf(db, plan)
        open   == {[key |-> t, rank |-> Openness(tasks[t].status)] :
                      t \in {x \in DOMAIN tasks : tasks[x].status \notin TerminalStatuses}}
        sorted == Ordered(open, LAMBDA a, b : a.rank > b.rank \/ (a.rank = b.rank /\ a.key < b.key))
    IN  [i \in DOMAIN sorted |-> sorted[i].key]

PlanSummary(db, plan) ==
    LET tasks == TasksOf(db, plan)
        p     == db.plans[plan]
    IN  [key |-> plan, receipt |-> p.receipt, text |-> p.text, status |-> p.status, kind |-> p.kind,
         total  |-> Cardinality(DOMAIN tasks),
         counts |-> [s \in Statuses \ {"superseded"} |->
                        Cardinality({t \in DOMAIN tasks : tasks[t].status = s})],
         active |-> ActiveTaskKeys(db, plan), updated |-> p.updated]

\* Every row has its receipt: the listing reads receipt_id into a string, which a NULL would fail.
ListWorkPlans(db, q) ==
    LET found(k) == LET p == db.plans[k]
                        tasks == TasksOf(db, k)
                    IN  /\ InScope(p, q.scope)
                        /\ q.kind \in {Blank, p.kind}
                        /\ \/ q.word \in {Blank, p.kind} \cup p.text
                           \/ \E t \in DOMAIN tasks : q.word \in tasks[t].text \cup {tasks[t].reason}
    IN  Limited(Ordered({PlanSummary(db, k) : k \in {x \in DOMAIN db.plans : found(x)}}, NewestFirst), q)

(***************************************************************************)
(* Review attempts and verification batches.                               *)
(***************************************************************************)
SaveReviewAttempt(db, input) ==
    IF ~ AttemptAccepted(input) \/ input.receipt \notin DOMAIN db.receipts THEN Failed(db)
    ELSE Done([db EXCEPT
                  !.attempts = Append(@, [id |-> db.nextAttempt, receipt |-> input.receipt,
                                          review |-> input.review, fingerprint |-> input.fingerprint,
                                          status |-> input.status, created |-> unixepoch(input.created)]),
                  !.nextAttempt = @ + 1], db.nextAttempt)

(* Mutant: the newest attempt comes first. *)
ListReviewAttemptsNewest(db, receipt, review) ==
    Ordered({db.attempts[i] : i \in {j \in DOMAIN db.attempts : db.attempts[j].receipt = receipt
                                                              /\ db.attempts[j].review = review}}, NewestRun)
\* ORDER BY created_at ASC, attempt_id ASC
ListReviewAttempts(db, receipt, review) ==
    Ordered({db.attempts[i] : i \in {j \in DOMAIN db.attempts : db.attempts[j].receipt = receipt
                                                              /\ db.attempts[j].review = review}}, OldestFirst)

\* SaveVerificationBatch: the primary key refuses a batch that is already there.
SaveVerificationBatch(db, input) ==
    IF ~ BatchAccepted(input) \/ input.key \in DOMAIN db.batches THEN Failed(db)
    ELSE LET rows == BatchResults(input)
         IN  Done([db EXCEPT
                 !.batches = Joined(@, [k \in {input.key} |-> [receipt |-> input.receipt, status |-> input.status,
                                                                  created |-> unixepoch(input.created)]]),
                 !.results = @ \o [i \in DOMAIN rows |->
                                      [batch |-> input.key, test |-> rows[i].test, status |-> rows[i].status,
                                       started |-> unixepoch(rows[i].started),
                                       finished |-> unixepoch(rows[i].finished)]]], "ok")

===============================================================================
