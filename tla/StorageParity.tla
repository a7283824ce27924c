---------------------------- MODULE StorageParity ----------------------------
(***************************************************************************)
(* The same calls, made of both adapters at the same instants.  The        *)
(* services are written against one repository interface, so nothing they  *)
(* can observe may depend on the database behind it.                       *)
(*                                                                         *)
(* The calls of a behaviour are about one group of tables: the groups      *)
(* share no table but the receipts, which each of them can create.         *)
(***************************************************************************)
EXTENDS Storage

CONSTANTS
    Groups,             \* of "pointers", "receipts", "plans", "gates"
    StubLists, RuleSyncs, SyncInputs,   \* inputs of the calls
    ScopeInputs, RunInputs, ItemInputs, PlanInputs, AttemptInputs, BatchInputs,
    Words,              \* searched words
    MaxCalls            \* bound: calls of a behaviour

ASSUME ParityAssumption ==
    /\ TicksPerSecond \in Nat \ {0} /\ DefaultLimit \in Nat \ {0} /\ MaxLimit \in Nat \ {0}
    /\ MaxCalls \in Nat
    /\ Null # Blank /\ {Null, Blank} \cap (Int \cup STRING) = {}

Optional(S) == S \cup {Blank}
Text == SUBSET STRING

(* What the services call with.  A plan always comes with its receipt (work.go:115,
   work_plan_lifecycle.go:39); without one its receipt_id would be NULL. *)
ASSUME InputAssumption ==
    /\ StubLists \subseteq Seq([key : Optional(Int), path : Int, kind : STRING, text : Text])
    /\ RuleSyncs \subseteq [source : Int, rules : Seq([key : Int, text : Text])]
    /\ SyncInputs \subseteq [mode : {"full", "changed", "working_tree"}, insertNew : BOOLEAN,
                             paths : Seq([key : Int, deleted : BOOLEAN, hash : STRING \cup {Null}])]
    /\ ScopeInputs \subseteq [key : Int, task : STRING, phase : Optional(STRING), pointers : SUBSET Int,
                              scope : SUBSET Int, baseline : STRING \cup {Null}, actor : Optional(STRING)]
    /\ RunInputs \subseteq [key : Int, task : STRING, phase : Optional(STRING), pointers : SUBSET Int,
                            status : Optional(STRING), request : STRING, files : Text,
                            outcome : STRING, issues : Text]
    /\ ItemInputs \subseteq [receipt : Int, list : Seq([key : Int, status : Statuses])]
    /\ PlanInputs \subseteq [key : Int, mode : {"merge", "replace"}, receipt : Int, text : Text,
                             kind : Optional(STRING), status : Optional(Statuses),
                             stages : Optional(Statuses),
                             tasks : Seq([key : Int, status : Optional(Statuses), text : Text,
                                          reason : Optional(STRING)])]
    /\ AttemptInputs \subseteq [receipt : Int, review : STRING, fingerprint : STRING, status : STRING,
                                timeout : Int, created : Int]
    /\ BatchInputs \subseteq [key : Int, receipt : Int \cup {Null}, status : STRING, created : Int,
                              results : Seq([test : STRING, status : STRING, timeout : Int,
                                             started : Int, finished : Int])]

Lite == INSTANCE SqliteStore
Pg   == INSTANCE PostgresStore

VARIABLES
    lite, pg,   \* the two databases
    results,    \* what the last call has returned, from each of them
    now,        \* the clock
    calls,      \* number of calls made
    group       \* the tables this behaviour is about
vars == <<lite, pg, results, now, calls, group>>

Init ==
    /\ lite = EmptyDb /\ pg = EmptyDb
    /\ results = [lite |-> Null, pg |-> Null]
    /\ now \in 1..TicksPerSecond /\ calls = 0
    /\ group \in Groups

-------------------------------------------------------------------------------
(* One call of both adapters; the next one comes any time later. *)
Both(g, l, p) ==
    /\ group = g /\ calls < MaxCalls
    /\ lite' = l.db /\ pg' = p.db
    /\ results' = [lite |-> l.result, pg |-> p.result]
    /\ now' \in now + 1 .. now + TicksPerSecond
    /\ calls' = calls + 1
    /\ UNCHANGED group

\* The id that a call returns is its caller's handle, not something to compare.
Numbered(outcome) == [outcome EXCEPT !.result = IF @ = Null THEN Null ELSE "id"]

UpsertPointerStubs == \E stubs \in StubLists :
    Both("pointers", Lite!UpsertPointerStubs(lite, stubs, now), Pg!UpsertPointerStubs(pg, stubs, now))

SyncRulePointers == \E s \in RuleSyncs :
    Both("pointers", Lite!SyncRulePointers(lite, s.source, s.rules, now),
                     Pg!SyncRulePointers(pg, s.source, s.rules, now))

ApplySync == \E input \in SyncInputs :
    Both("pointers", Lite!ApplySync(lite, input, now), Pg!ApplySync(pg, input, now))

UpsertReceiptScope == \E input \in ScopeInputs : \E g \in {"receipts", "gates"} :
    Both(g, Lite!UpsertReceiptScope(lite, input, now), Pg!UpsertReceiptScope(pg, input, now))

SaveRunReceiptSummary == \E input \in RunInputs :
    Both("receipts", Numbered(Lite!SaveRunReceiptSummary(lite, input, now)),
                     Numbered(Pg!SaveRunReceiptSummary(pg, input, now)))

UpsertWorkItems == \E input \in ItemInputs :
    Both("receipts", Lite!UpsertWorkItems(lite, input.receipt, input.list, now),
                     Pg!UpsertWorkItems(pg, input.receipt, input.list, now))

UpsertWorkPlan == \E input \in PlanInputs :
    Both("plans", Lite!UpsertWorkPlan(lite, input, now), Pg!UpsertWorkPlan(pg, input, now))

\* An attempt is dated when its command ended, `age` ticks before it is stored.
SaveReviewAttempt == \E a \in AttemptInputs :
    LET input == [a EXCEPT !.created = now - a.created]
    IN  Both("gates", Numbered(Lite!SaveReviewAttempt(lite, input)),
                      Numbered(Pg!SaveReviewAttempt(pg, input)))

SaveVerificationBatch == \E b \in BatchInputs :
    LET input == [b EXCEPT !.created = now - b.created,
                           !.results = [i \in DOMAIN b.results |->
                               [b.results[i] EXCEPT !.started = now - @, !.finished = now - @]]]
    IN  Both("gates", Lite!SaveVerificationBatch(lite, input), Pg!SaveVerificationBatch(pg, input))

Interrupt == \E g \in {"receipts", "gates"} : Both(g, Lite!Interrupted(lite), Pg!Interrupted(pg))

Next ==
    \/ UpsertPointerStubs \/ SyncRulePointers \/ ApplySync
    \/ UpsertReceiptScope \/ SaveRunReceiptSummary \/ UpsertWorkItems
    \/ UpsertWorkPlan \/ SaveReviewAttempt \/ SaveVerificationBatch
    \/ Interrupt

Spec == Init /\ [][Next]_vars

-------------------------------------------------------------------------------
(* What is equal: everything but the numbers the databases give to runs and
   attempts and the part of an instant that is finer than a second. *)
Times == {"created", "updated", "staleAt", "started", "finished"}
InSeconds(row) ==
    [c \in DOMAIN row |-> IF c \in Times /\ row[c] # Null THEN row[c] \div TicksPerSecond ELSE row[c]]
Unnumbered(row) == [c \in DOMAIN row \ {"id"} |-> row[c]]
SameRow(l, p) == Unnumbered(l) = Unnumbered(InSeconds(p))
SameRows(l, p) == DOMAIN l = DOMAIN p /\ \A k \in DOMAIN l : SameRow(l[k], p[k])
SameSet(l, p) == {Unnumbered(l[i]) : i \in DOMAIN l} = {Unnumbered(InSeconds(p[i])) : i \in DOMAIN p}
SameAnswer(l, p) == (l = NotFound) = (p = NotFound) /\ (l # NotFound => SameRow(l, p))

Tables == {"pointers", "candidates", "receipts", "runs", "items", "plans", "tasks", "attempts",
           "batches", "results"}

(* After the same calls the two databases hold the same rows, and the last
   call has failed on both or returned the same counts.  Each adapter has its
   own upserts, its own reconciliation of the pointers (a statement per path
   on SQLite, one UPDATE that joins a VALUES list on Postgres) and its own
   transactions; docs/architecture.md:57 asks for "equivalent semantics". *)
StoresAgree ==
    /\ \A t \in Tables : SameRows(lite[t], pg[t])
    /\ results.lite = results.pg

All == [limit |-> 0, unbounded |-> TRUE]
KnownKeys == UNION {DOMAIN lite[t] : t \in {"pointers", "plans", "receipts"}}

\* A bound that some row went stale after, though within its second, is not the same in seconds.
Comparable(before) == \A k \in DOMAIN pg.pointers :
    LET at == pg.pointers[k].staleAt
    IN  at = Null \/ at <= before \/ at \div TicksPerSecond > before \div TicksPerSecond

(* Every lookup, and every listing taken as a set, answers the same on both:
   the filter of stale pointers (SQL on Postgres, Go on SQLite), the search
   over columns, arrays and JSON texts, the newest run of a receipt (a
   lateral join against a window function), the counts and open tasks of a
   plan.  Excepted are a receipt search for a word that only the issues of a
   run hold (Postgres searches the whole summary, SQLite its outcome), and
   LookupWorkPlan without a plan's key: it takes the last updated plan of a
   receipt, which two plans of one second make a different one, and no
   service calls it so. *)
AnswersAgree ==
    /\ \A stale \in BOOLEAN, before \in {Null} \cup 1..now :
           LET q == Joined([allowStale |-> stale, before |-> before], All)
           IN  (before = Null \/ Comparable(before)) =>
                   SameRows(Lite!FetchCandidatePointers(lite, q), Pg!FetchCandidatePointers(pg, q))
    /\ Lite!ListPointerInventory(lite) = Pg!ListPointerInventory(pg)
    /\ \A k \in KnownKeys :
           /\ SameAnswer(Lite!LookupPointerByKey(lite, k), Pg!LookupPointerByKey(pg, k))
           /\ Lite!FetchReceiptScope(lite, k) = Pg!FetchReceiptScope(pg, k)
           /\ SameRows(Lite!ListWorkItems(lite, k), Pg!ListWorkItems(pg, k))
           /\ LET l == Lite!LookupFetchState(lite, k)
                  p == Pg!LookupFetchState(pg, k)
              IN  /\ (l = NotFound) = (p = NotFound)
                  /\ l # NotFound => SameRow([l EXCEPT !.items = Len(@)], [p EXCEPT !.items = Len(@)])
           /\ LET l == Lite!LookupWorkPlan(lite, [plan |-> k, receipt |-> Blank])
                  p == Pg!LookupWorkPlan(pg, [plan |-> k, receipt |-> Blank])
              IN  /\ (l = NotFound) = (p = NotFound)
                  /\ l # NotFound => SameRow(l.plan, p.plan) /\ SameRows(l.tasks, p.tasks)
    /\ \A i \in DOMAIN lite.runs :
           SameAnswer(Lite!LookupRunHistory(lite, lite.runs[i].id), Pg!LookupRunHistory(pg, pg.runs[i].id))
    /\ \A word \in Words \cup {Blank} :
           LET q == Joined([word |-> word], All)
           IN  /\ (\A i \in DOMAIN pg.runs : word \notin pg.runs[i].issues) =>
                      SameSet(Lite!ListReceiptHistory(lite, q), Pg!ListReceiptHistory(pg, q))
               /\ SameRows(Lite!ListRunHistory(lite, q), Pg!ListRunHistory(pg, q))
               /\ \A scope \in {"current", "deferred", "completed", "all"} :
                      SameSet(Lite!ListWorkPlans(lite, Joined([scope |-> scope, kind |-> Blank], q)),
                              Pg!ListWorkPlans(pg, Joined([scope |-> scope, kind |-> Blank], q)))

\* No two rows share a second, so that both clocks put them in one order.
Apart(rows, column) == \A i, j \in DOMAIN rows :
    rows[i][column] \div TicksPerSecond = rows[j][column] \div TicksPerSecond => i = j

(* A listing that is cut at its limit shows the same rows in the same order on
   both, as long as what it is ordered by differs by seconds: the limit is
   clamped and applied to the same order, ties are broken by the same key. *)
OrdersAgree ==
    /\ \A limit \in 0..(MaxLimit + 1) :
           LET q == [word |-> Blank, scope |-> "all", kind |-> Blank, allowStale |-> TRUE, before |-> Null,
                     limit |-> limit, unbounded |-> FALSE]
           IN  /\ SameRows(Lite!FetchCandidatePointers(lite, q), Pg!FetchCandidatePointers(pg, q))
               /\ SameRows(Lite!ListRunHistory(lite, q), Pg!ListRunHistory(pg, q))
               /\ Apart(Pg!ListReceiptHistory(pg, Joined(All, q)), "updated") =>
                      SameRows(Lite!ListReceiptHistory(lite, q), Pg!ListReceiptHistory(pg, q))
               /\ Apart(Pg!ListWorkPlans(pg, Joined(All, q)), "updated") =>
                      SameRows(Lite!ListWorkPlans(lite, q), Pg!ListWorkPlans(pg, q))
    /\ \A r \in DOMAIN lite.receipts, review \in {pg.attempts[i].review : i \in DOMAIN pg.attempts} :
           Apart(Pg!ListReviewAttempts(pg, r, review), "created") =>
               SameRows(Lite!ListReviewAttempts(lite, r, review), Pg!ListReviewAttempts(pg, r, review))

Timeless(row) == [c \in DOMAIN row \ Times |-> row[c]]
SameButTimes(l, p) == \A t \in Tables :
    DOMAIN l[t] = DOMAIN p[t] /\ \A k \in DOMAIN l[t] : Timeless(l[t][k]) = Timeless(p[t][k])
Idle(call(_, _), db) ==
    LET once == call(db, now).db IN SameButTimes(once, call(once, now + TicksPerSecond).db)
\* not even a timestamp moves, and nothing is reported as changed
Settled(call(_, _), db) ==
    LET once  == call(db, now).db
        again == call(once, now + TicksPerSecond)
    IN  again = Done(once, [deleted |-> 0, missing |-> 0, updated |-> 0, candidates |-> 0])

(* A caller whose answer was lost makes the call again: in any database that
   the calls can reach, the second call of UpsertPointerStubs,
   SyncRulePointers, UpsertReceiptScope, UpsertWorkItems or UpsertWorkPlan
   leaves what the first one left, a merge included, up to timestamps; a
   second ApplySync finds nothing to do.  SaveRunReceiptSummary and
   SaveReviewAttempt are not of this kind: they store another row. *)
RetriesAreIdle ==
    /\ group = "pointers" =>
           /\ \A stubs \in StubLists : /\ Idle(LAMBDA db, at : Lite!UpsertPointerStubs(db, stubs, at), lite)
                                      /\ Idle(LAMBDA db, at : Pg!UpsertPointerStubs(db, stubs, at), pg)
           /\ \A s \in RuleSyncs :
                  /\ Idle(LAMBDA db, at : Lite!SyncRulePointers(db, s.source, s.rules, at), lite)
                  /\ Idle(LAMBDA db, at : Pg!SyncRulePointers(db, s.source, s.rules, at), pg)
           /\ \A input \in SyncInputs : /\ Settled(LAMBDA db, at : Lite!ApplySync(db, input, at), lite)
                                       /\ Settled(LAMBDA db, at : Pg!ApplySync(db, input, at), pg)
    /\ group = "receipts" =>
           /\ \A input \in ScopeInputs :
                  /\ Idle(LAMBDA db, at : Lite!UpsertReceiptScope(db, input, at), lite)
                  /\ Idle(LAMBDA db, at : Pg!UpsertReceiptScope(db, input, at), pg)
           /\ \A x \in ItemInputs :
                  /\ Idle(LAMBDA db, at : Lite!UpsertWorkItems(db, x.receipt, x.list, at), lite)
                  /\ Idle(LAMBDA db, at : Pg!UpsertWorkItems(db, x.receipt, x.list, at), pg)
    /\ group = "plans" =>
           \A input \in PlanInputs : /\ Idle(LAMBDA db, at : Lite!UpsertWorkPlan(db, input, at), lite)
                                    /\ Idle(LAMBDA db, at : Pg!UpsertWorkPlan(db, input, at), pg)
===============================================================================
