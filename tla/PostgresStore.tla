---------------------------- MODULE PostgresStore ----------------------------
(***************************************************************************)
(* The repository over Postgres (internal/adapters/postgres): the same     *)
(* operations, translated from its own statements.  A timestamp is as fine *)
(* as the clock, lists are arrays that SQL filters, several rows are       *)
(* written by one statement, and a sequence that handed out a number keeps *)
(* it when the transaction fails.                                          *)
(***************************************************************************)
EXTENDS Storage

NOW(now) == now

\* The rows of one INSERT ... ON CONFLICT: none may be hit twice.
Distinct(rows) == \A i, j \in DOMAIN rows : rows[i].key = rows[j].key => i = j

(***************************************************************************)
(* Pointers.                                                               *)
(***************************************************************************)
\* normalizePointerStubs: a stub without a key is keyed by its path.
NormalizeStubs(stubs) ==
    ByKey([i \in DOMAIN stubs |-> [stubs[i] EXCEPT !.key = OrElse(@, stubs[i].path)]], Alike)

UpsertPointerStubs(db, stubs, now) ==
    LET rows == NormalizeStubs(stubs)
        entry(s) == [key |-> s.key,
                     row |-> [path |-> s.path, kind |-> s.kind, text |-> s.text, rule |-> s.kind = "rule",
                              stale |-> FALSE, staleAt |-> Null, hash |-> Null, updated |-> NOW(now)]]
    IN  Done([db EXCEPT !.pointers =
                 UpsertEach(@, [i \in DOMAIN rows |-> entry(rows[i])], {"path", "stale", "staleAt", "updated"})], Len(rows))

SyncRulePointers(db, source, rules, now) ==
    LET rows == ByKey(rules, Alike)
        entry(r) == [key |-> r.key,
                     row |-> [path |-> source, kind |-> "rule", text |-> r.text, rule |-> TRUE,
                              stale |-> FALSE, staleAt |-> Null, hash |-> Null, updated |-> NOW(now)]]
        upserted == UpsertEach(db.pointers, [i \in DOMAIN rows |-> entry(rows[i])],
                               {"path", "kind", "text", "rule", "stale", "staleAt", "hash", "updated"})
        deleted  == Where(upserted, LAMBDA p : p.path = source /\ p.rule)
                    \ {rows[i].key : i \in DOMAIN rows}
    IN  Done([db EXCEPT !.pointers = Delete(upserted, deleted)],
             [upserted |-> Len(rows), markedStale |-> Cardinality(deleted)])

Stale(now) == [stale |-> TRUE, staleAt |-> NOW(now), updated |-> NOW(now)]

\* buildMarkMissingPointersStaleQuery: without a present path, every live row.
MissingPointers(table, present) ==
    Where(table, LAMBDA p : ~ p.stale /\ (present = {} \/ p.path \notin present))

(* Mutant: only the rows that are not stale are compared with the tree. *)
RefreshedPointersLive(table, hash) ==
    Where(table, LAMBDA p : p.path \in DOMAIN hash /\ ~ p.stale /\ p.hash # hash[p.path])
(* Mutant: every row of a present path is rewritten. *)
RefreshedPointersAll(table, hash) == Where(table, LAMBDA p : p.path \in DOMAIN hash)
\* buildRefreshPointersQuery: the rows one UPDATE joins with the present paths.
RefreshedPointers(table, hash) ==
    Where(table, LAMBDA p : p.path \in DOMAIN hash /\ (p.stale \/ p.hash # hash[p.path]))

\* buildInsertPointerCandidatesQuery: the present paths that no pointer has.
MissingPaths(table, hash) == {x \in DOMAIN hash : Where(table, LAMBDA p : p.path = x) = {}}

ApplySync(db, input, now) ==
    LET paths   == SyncPaths(input)
        present == {paths[i] : i \in {j \in DOMAIN paths : ~ paths[j].deleted}}
        hash    == [x \in {s.key : s \in present} |-> (CHOOSE s \in present : s.key = x).hash]
        deleted == Where(db.pointers, LAMBDA p : ~ p.stale /\ \E i \in DOMAIN paths :
                                                    paths[i].deleted /\ paths[i].key = p.path)
        first   == Set(db.pointers, deleted, Stale(now))
        missing == IF input.mode = "full" THEN MissingPointers(first, DOMAIN hash) ELSE {}
        second  == Set(first, missing, Stale(now))
        hit     == RefreshedPointers(second, hash)
        third   == [k \in DOMAIN second |->
                       IF k \notin hit THEN second[k]
                       ELSE [second[k] EXCEPT !.hash = hash[second[k].path], !.stale = FALSE,
                                              !.staleAt = Null, !.updated = NOW(now)]]
        fresh   == IF present # {} /\ input.insertNew
                   THEN MissingPaths(third, hash) \ DOMAIN db.candidates ELSE {}
    IN  Done([db EXCEPT !.pointers = third,
                        !.candidates = Joined(@, [x \in fresh |-> [hash |-> hash[x], created |-> NOW(now)]])],
             [deleted |-> Cardinality(deleted), missing |-> Cardinality(missing),
              updated |-> Cardinality(hit), candidates |-> Cardinality(fresh)])

Candidate(key, p) ==
    [key |-> key, path |-> p.path, kind |-> p.kind, text |-> p.text, rule |-> p.rule,
     stale |-> p.stale, updated |-> p.updated]

\* buildCandidatePointersQuery: the filter is two predicates.
FetchCandidatePointers(db, q) ==
    LET live == Where(db.pointers, LAMBDA p : q.allowStale \/ ~ p.stale)
        old  == Where(db.pointers, LAMBDA p : q.before = Null \/ ~ p.stale
                                             \/ (p.staleAt # Null /\ p.staleAt <= q.before))
    IN  SortedCandidates({Candidate(k, db.pointers[k]) : k \in live \cap old}, q)

ListPointerInventory(db) ==
    LET paths == {db.pointers[k].path : k \in DOMAIN db.pointers}
    IN  Ordered({[path |-> x, stale |-> \E k \in DOMAIN db.pointers : db.pointers[k].path = x
                                                                     /\ db.pointers[k].stale] :
                    x \in paths}, LAMBDA a, b : a.path < b.path)

\* buildLookupPointerByKeyQuery
LookupPointerByKey(db, key) ==
    IF key \notin DOMAIN db.pointers \/ db.pointers[key].stale THEN NotFound
    ELSE Candidate(key, db.pointers[key])

(***************************************************************************)
(* Receipts and runs.                                                      *)
(***************************************************************************)
UpsertReceiptScope(db, input, now) ==
    LET s == ReceiptScope(input)
    IN  Done([db EXCEPT !.receipts =
                 Upsert(@, s.key,
                        [task |-> s.task, phase |-> s.phase, pointers |-> s.pointers, scope |-> s.scope,
                         baseline |-> s.baseline, actor |-> s.actor, summary |-> Null,
                         created |-> NOW(now)],
                        {"task", "phase", "pointers", "scope", "baseline", "actor"})], "ok")

\* SaveRunReceiptSummary: RETURNING run_id of a BIGSERIAL.
SaveRunReceiptSummary(db, input, now) ==
    LET s == RunSummary(input)
    IN  Done([db EXCEPT
                 !.receipts = Upsert(@, s.key,
                        [task |-> s.task, phase |-> s.phase, pointers |-> s.pointers, scope |-> {},
                         baseline |-> Null, actor |-> Blank, summary |-> s.task, created |-> NOW(now)],
                        {"task", "phase", "pointers", "summary"}),
                 !.runs = Append(@, [id |-> db.nextRun, receipt |-> s.key, request |-> s.request,
                                     status |-> s.status, files |-> s.files, outcome |-> s.outcome,
                                     issues |-> s.issues, created |-> NOW(now)]),
                 !.nextRun = @ + 1], db.nextRun)

\* A call that is cut off before its commit: the numbers it drew are gone.
Interrupted(db) == [db |-> [db EXCEPT !.nextRun = @ + 1, !.nextAttempt = @ + 1], result |-> Null]

\* buildFetchReceiptScopeQuery
FetchReceiptScope(db, receipt) ==
    IF receipt \notin DOMAIN db.receipts THEN NotFound
    ELSE LET r == db.receipts[receipt]
         IN  [task |-> r.task, phase |-> r.phase, pointers |-> r.pointers, scope |-> r.scope,
              baseline |-> r.baseline, actor |-> r.actor]

(* Mutant: the first run of the receipt. *)
FirstRun(db, receipt) ==
    LET of == {j \in DOMAIN db.runs : db.runs[j].receipt = receipt}
    IN  IF of = {} THEN NoRun ELSE Ordered({db.runs[i] : i \in of}, OldestFirst)[1]
\* LEFT JOIN LATERAL (... ORDER BY created_at DESC, run_id DESC LIMIT 1)
LatestRun(db, receipt) ==
    LET of == {j \in DOMAIN db.runs : db.runs[j].receipt = receipt}
    IN  IF of = {} THEN NoRun ELSE Ordered({db.runs[i] : i \in of}, NewestRun)[1]

\* summary_json::text holds the issues of `done` besides the columns.
RunWords(run) == {run.request, run.status, run.outcome} \cup run.files \cup run.issues

ListReceiptHistory(db, q) ==
    LET found == {r \in DOMAIN db.receipts :
                     \/ q.word = Blank
                     \/ q.word \in {db.receipts[r].task, db.receipts[r].phase}
                     \/ \E i \in DOMAIN db.runs : db.runs[i].receipt = r /\ q.word \in RunWords(db.runs[i])}
        row(r) == LET run == LatestRun(db, r)
                  IN  [key |-> r, task |-> db.receipts[r].task, phase |-> db.receipts[r].phase,
                       request |-> COALESCE(run.request, Blank), status |-> COALESCE(run.status, Blank),
                       updated |-> COALESCE(run.created, db.receipts[r].created)]
    IN  Limited(Ordered({row(r) : r \in found}, NewestFirst), q)

RunRow(db, run) ==
    [id |-> run.id, receipt |-> run.receipt, request |-> run.request, status |-> run.status,
     files |-> run.files, outcome |-> run.outcome, created |-> run.created,
     task |-> db.receipts[run.receipt].task, phase |-> db.receipts[run.receipt].phase]

ListRunHistory(db, q) ==
    LET found == {i \in DOMAIN db.runs :
                     \/ q.word = Blank
                     \/ q.word \in RunWords(db.runs[i])
                     \/ LET r == db.receipts[db.runs[i].receipt] IN q.word \in {r.task, r.phase}}
    IN  Limited(Ordered({RunRow(db, db.runs[i]) : i \in found}, NewestRun), q)

LookupRunHistory(db, id) ==
    LET found == {i \in DOMAIN db.runs : db.runs[i].id = id}
    IN  IF found = {} THEN NotFound ELSE RunRow(db, db.runs[CHOOSE i \in found : TRUE])

(***************************************************************************)
(* Work items.                                                             *)
(***************************************************************************)
\* buildUpsertWorkItemsQuery: one statement; the foreign key wants the receipt.
UpsertWorkItems(db, receipt, list, now) ==
    LET rows == WorkItems(list)
        entry(x) == [key |-> <<receipt, x.key>>,
                     row |-> [status |-> x.status, created |-> NOW(now), updated |-> NOW(now)]]
    IN  IF list = <<>> \/ receipt \notin DOMAIN db.receipts \/ ~ Distinct(rows) THEN Failed(db)
        ELSE Done([db EXCEPT !.items = UpsertEach(@, [i \in DOMAIN rows |-> entry(rows[i])],
                                                  {"status", "updated"})], Len(rows))

\* buildListWorkItemsQuery
ListWorkItems(db, receipt) ==
    Ordered({[key |-> k[2], status |-> db.items[k].status, updated |-> db.items[k].updated] :
                k \in {x \in DOMAIN db.items : x[1] = receipt}}, LAMBDA a, b : a.key < b.key)

LookupFetchState(db, receipt) ==
    IF receipt \notin DOMAIN db.receipts THEN NotFound
    ELSE LET run   == LatestRun(db, receipt)
             items == ListWorkItems(db, receipt)
         IN  [receipt |-> receipt, items |-> items,
              runStatus  |-> COALESCE(run.status, Blank),
              planStatus |-> DerivePlanStatus({items[i].status : i \in DOMAIN items}),
              updated    |-> COALESCE(run.created, db.receipts[receipt].created)]

(***************************************************************************)
(* Work plans.                                                             *)
(***************************************************************************)
TasksOf(db, plan) ==
    LET keys == {k[2] : k \in {x \in DOMAIN db.tasks : x[1] = plan}}
    IN  [t \in keys |-> db.tasks[<<plan, t>>]]

ListWorkPlanTasks(db, plan) ==
    LET tasks == TasksOf(db, plan)
    IN  Ordered({Joined([key |-> t], tasks[t]) : t \in DOMAIN tasks}, LAMBDA a, b : a.key < b.key)

\* LookupWorkPlan, by the plan's key, as the services ask, or by its receipt.
LookupWorkPlan(db, q) ==
    LET ofReceipt == Ordered({[key |-> p, updated |-> db.plans[p].updated] :
                                p \in Where(db.plans, LAMBDA r : r.receipt = q.receipt)}, NewestFirst)
        key == IF q.plan # Blank THEN q.plan
               ELSE IF ofReceipt = <<>> THEN Blank ELSE ofReceipt[1].key
    IN  IF key \notin DOMAIN db.plans THEN NotFound
        ELSE [key |-> key, plan |-> db.plans[key], tasks |-> ListWorkPlanTasks(db, key)]

\* upsertWorkPlanRowTx
UpsertPlanRow(table, key, next, now) ==
    Upsert(table, key, Joined(next, [created |-> NOW(now), updated |-> NOW(now)]),
           {"receipt", "text", "kind", "status", "stages", "updated"})

\* the tasks that a replacement deletes
ReplacedTasks(db, input) == {k \in DOMAIN db.tasks : input.mode = "replace" /\ k[1] = input.key}

\* UpsertWorkPlan: a status that is left out is derived from the tasks as they are after the write.
UpsertWorkPlan(db, input, now) ==
    LET found  == input.key \in DOMAIN db.plans
        next   == NextPlan(IF found THEN db.plans[input.key] ELSE EmptyPlan, input)
        stored == IF found /\ input.mode = "merge" /\ input.tasks # <<>> THEN TasksOf(db, input.key)
                  ELSE [t \in {} |-> t]
        rows   == IncomingTasks(stored, input)
        doomed == ReplacedTasks(db, input)
        entry(t) == [key |-> <<input.key, t.key>>,
                     row |-> [status |-> t.status, text |-> t.text, reason |-> t.reason,
                              created |-> NOW(now), updated |-> NOW(now)]]
        written == [db EXCEPT !.plans = UpsertPlanRow(@, input.key, next, now),
                              !.tasks = UpsertEach(Delete(@, doomed), [i \in DOMAIN rows |-> entry(rows[i])],
                                                   {"status", "text", "reason", "updated"})]
        derived == IF input.status # Blank THEN written
                   ELSE [written EXCEPT !.plans[input.key].status =
                            DerivePlanStatus({TasksOf(written, input.key)[t].status :
                                                t \in DOMAIN TasksOf(written, input.key)})]
    IN  Done(derived, Cardinality(doomed) + Len(rows))

InScope(plan, scope) ==
    CASE scope = "current"   -> plan.status \in {"pending", "in_progress"}
      [] scope = "deferred"  -> plan.status = "blocked"
      [] scope = "completed" -> plan.status \in {"complete", "superseded"}
      [] OTHER               -> TRUE

\* listActiveWorkPlanTaskKeys: the open tasks, the blocked ones first.
ActiveTaskKeys(db, plan) ==
    LET tasks  == TasksOf(db, plan)
        open   == {[key |-> t, rank |-> Openness(tasks[t].status)] :
                      t \in {x \in DOMAIN tasks : tasks[x].status \notin TerminalStatuses}}
        sorted == Ordered(open, LAMBDA a, b : a.rank > b.rank \/ (a.rank = b.rank /\ a.key < b.key))
    IN  [i \in DOMAIN sorted |-> sorted[i].key]

PlanSummary(db, plan) ==
    LET tasks == TasksOf(db, plan)
        p     == db.plans[plan]
    IN  [key |-> plan, receipt |-> p.receipt, text |-> p.text, status |-> p.status, kind |-> p.kind,
         total  |-> Cardinality(DOMAIN tasks),
         counts |-> [s \in Statuses \ {"superseded"} |->
                        Cardinality({t \in DOMAIN tasks : tasks[t].status = s})],
         active |-> ActiveTaskKeys(db, plan), updated |-> p.updated]

\* Every row has its receipt: the listing reads receipt_id into a string, which a NULL would fail.
ListWorkPlans(db, q) ==
    LET found(k) == LET p == db.plans[k]
                        tasks == TasksOf(db, k)
                    IN  /\ InScope(p, q.scope)
                        /\ q.kind \in {Blank, p.kind}
                        /\ \/ q.word \in {Blank, p.kind} \cup p.text
                           \/ \E t \in DOMAIN tasks : q.word \in tasks[t].text \cup {tasks[t].reason}
    IN  Limited(Ordered({PlanSummary(db, k) : k \in {x \in DOMAIN db.plans : found(x)}}, NewestFirst), q)

(***************************************************************************)
(* Review attempts and verification batches.                               *)
(***************************************************************************)
\* An INSERT that its foreign key refuses has drawn its number.
SaveReviewAttempt(db, input) ==
    IF ~ AttemptAccepted(input) THEN Failed(db)
    ELSE IF input.receipt \notin DOMAIN db.receipts THEN Failed([db EXCEPT !.nextAttempt = @ + 1])
    ELSE Done([db EXCEPT
                  !.attempts = Append(@, [id |-> db.nextAttempt, receipt |-> input.receipt,
                                          review |-> input.review, fingerprint |-> input.fingerprint,
                                          status |-> input.status, created |-> NOW(input.created)]),
                  !.nextAttempt = @ + 1], db.nextAttempt)

ListReviewAttempts(db, receipt, review) ==
    Ordered({db.attempts[i] : i \in {j \in DOMAIN db.attempts : db.attempts[j].receipt = receipt
                                                              /\ db.attempts[j].review = review}}, OldestFirst)

\* SaveVerificationBatch: the primary key refuses a batch that is already there.
SaveVerificationBatch(db, input) ==
    IF ~ BatchAccepted(input) \/ input.key \in DOMAIN db.batches THEN Failed(db)
    ELSE LET rows == BatchResults(input)
         IN  Done([db EXCEPT
                 !.batches = Joined(@, [k \in {input.key} |-> [receipt |-> input.receipt, status |-> input.status,
                                                                  created |-> NOW(input.created)]]),
                 !.results = @ \o [i \in DOMAIN rows |->
                                      [batch |-> input.key, test |-> rows[i].test, status |-> rows[i].status,
                                       started |-> NOW(rows[i].started),
                                       finished |-> NOW(rows[i].finished)]]], "ok")

===============================================================================
