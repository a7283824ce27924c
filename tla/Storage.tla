------------------------------- MODULE Storage -------------------------------
(***************************************************************************)
(* What the two database adapters share: how an input is normalised before *)
(* it reaches SQL (storage/domain), and the forms of SQL statement their   *)
(* statements are written in.                                              *)
(*                                                                         *)
(* A table is a function from primary keys to rows.  Text that is ordered  *)
(* (keys, paths) is a number, its place in the order; other text is a      *)
(* string or a set of words.  One project is modelled: every statement     *)
(* restricts itself to the project of its call.                            *)
(***************************************************************************)
EXTENDS Integers, Sequences, FiniteSets, SequencesExt, FiniteSetsExt, PlanStatus

CONSTANTS
    TicksPerSecond,             \* resolution of the clock
    DefaultLimit, MaxLimit,     \* row limits of a listing, scaled down: 8, 20 or 32, and 100
    Null,                       \* an SQL NULL, a nil pointer, the result of a call that failed
    Blank                       \* a field that was left out

(***************************************************************************)
(* Forms of SQL statement.                                                 *)
(***************************************************************************)
\* f, and g where f has nothing
Joined(f, g) == [x \in DOMAIN f \cup DOMAIN g |-> IF x \in DOMAIN f THEN f[x] ELSE g[x]]

COALESCE(value, default) == IF value = Null THEN default ELSE value

\* INSERT ... ON CONFLICT (key) DO UPDATE SET the columns in cols
Upsert(table, key, row, cols) ==
    [k \in DOMAIN table \cup {key} |->
        IF k # key THEN table[k]
        ELSE IF key \notin DOMAIN table THEN row
        ELSE [c \in DOMAIN row |-> IF c \in cols THEN row[c] ELSE table[key][c]]]

\* the same for the entries [key, row] of a list, one after the other
UpsertEach(table, entries, cols) ==
    FoldLeft(LAMBDA t, e : Upsert(t, e.key, e.row, cols), table, entries)

\* the keys a WHERE clause selects
Where(table, Cond(_)) == {k \in DOMAIN table : Cond(table[k])}

\* UPDATE ... SET of the selected rows, and DELETE of them
Set(table, keys, values) == [k \in DOMAIN table |-> IF k \in keys THEN Joined(values, table[k]) ELSE table[k]]
Delete(table, keys) == [k \in DOMAIN table \ keys |-> table[k]]

\* ORDER BY: a row follows those that come before it
Ordered(rows, Before(_, _)) ==
    LET rank(r) == Cardinality({x \in rows : Before(x, r)})
    IN  [i \in 1..Cardinality(rows) |-> CHOOSE r \in rows : rank(r) = i - 1]

\* LIMIT, as every listing clamps it
Limited(seq, q) ==
    LET n == Min({MaxLimit, IF q.limit <= 0 THEN DefaultLimit ELSE q.limit})
    IN  IF q.unbounded \/ Len(seq) <= n THEN seq ELSE SubSeq(seq, 1, n)

\* what a LEFT JOIN has where no run is joined
NoRun == [request |-> Null, status |-> Null, created |-> Null]

NewestFirst(a, b) == a.updated > b.updated \/ (a.updated = b.updated /\ a.key < b.key)
NewestRun(a, b)   == a.created > b.created \/ (a.created = b.created /\ a.id > b.id)
OldestFirst(a, b) == a.created < b.created \/ (a.created = b.created /\ a.id < b.id)

(***************************************************************************)
(* A call leaves a database and returns a result; a call that fails leaves *)
(* the database as its transaction found it.                               *)
(***************************************************************************)
Done(db, result) == [db |-> db, result |-> result]
Failed(db)       == [db |-> db, result |-> Null]
NotFound         == <<>>         \* no row

EmptyDb ==
    LET none == [k \in {} |-> k]
    IN  [pointers |-> none, candidates |-> none, receipts |-> none, runs |-> <<>>, items |-> none,
         plans |-> none, tasks |-> none, attempts |-> <<>>, batches |-> none, results |-> <<>>,
         nextRun |-> 1, nextAttempt |-> 1]

(***************************************************************************)
(* storage/domain.                                                         *)
(***************************************************************************)
SortedKeys(list) == Ordered({list[i].key : i \in DOMAIN list}, <)

\* One element for each key of a list, in key order: an element replaces an earlier one of its
\* key that does not weigh more, so that the last of the heaviest is left.
ByKey(list, Weight(_)) ==
    LET heaviest(k) == {i \in DOMAIN list : /\ list[i].key = k
                                            /\ \A j \in DOMAIN list : list[j].key = k =>
                                                  Weight(list[j]) <= Weight(list[i])}
    IN  [n \in DOMAIN SortedKeys(list) |-> list[Max(heaviest(SortedKeys(list)[n]))]]

Alike(x) == 0

\* NormalizeSyncApplyInput: a deletion does not override an entry that is present.
PresentFirst(x) == IF x.deleted THEN 0 ELSE 1
SyncPaths(input) == ByKey(input.paths, PresentFirst)

\* NormalizeWorkItems and NormalizeWorkPlanTasks: the more open status.
Openness(status) == CASE status = "blocked" -> 3 [] status = "in_progress" -> 2
                      [] status = "pending" -> 1 [] OTHER -> 0
OpenFirst(x) == Openness(x.status)
WorkItems(list) == ByKey(list, OpenFirst)

OrElse(value, default) == IF value = Blank THEN default ELSE value

\* NormalizeReceiptScope and NormalizeRunReceiptSummary: the defaults.
ReceiptScope(input) == [input EXCEPT !.phase = OrElse(@, "execute")]
RunSummary(input)   == [input EXCEPT !.phase = OrElse(@, "execute"), !.status = OrElse(@, "accepted")]

\* NormalizeVerificationBatch: a test never finishes before it starts.
BatchAccepted(input) == input.status \in {"passed", "failed"}
                        /\ \A i \in DOMAIN input.results : input.results[i].timeout > 0
BatchResults(input) ==
    [i \in DOMAIN input.results |->
        [input.results[i] EXCEPT !.finished = Max({@, input.results[i].started})]]

\* NormalizeReviewAttempt.
AttemptAccepted(input) == input.status \in {"passed", "failed"} /\ input.timeout > 0

\* BuildNextWorkPlanState over the columns modelled.
EmptyPlan == [receipt |-> Blank, text |-> {}, kind |-> Blank, status |-> "pending", stages |-> "pending"]
NextPlan(current, input) ==
    LET base == IF input.mode = "replace" THEN EmptyPlan ELSE current
    IN  [receipt |-> OrElse(input.receipt, base.receipt),
         text    |-> IF input.text = {} THEN base.text ELSE input.text,
         kind    |-> OrElse(input.kind, base.kind),
         status  |-> OrElse(input.status, base.status),
         stages  |-> OrElse(input.stages, base.stages)]

\* mergeWorkPlanTask over the columns modelled; current is NewTask when there is no such task.
NewTask == [status |-> "pending", text |-> {}, reason |-> Blank]
MergeTask(current, task) ==
    [key    |-> task.key,
     status |-> OrElse(task.status, current.status),
     text   |-> IF task.text = {} THEN current.text ELSE task.text,
     reason |-> IF task.reason # Blank THEN task.reason
                ELSE IF task.status \notin {Blank, "blocked"} THEN Blank ELSE current.reason]

\* The entries of a key, merged one after the other into what is stored of it.
MergedTask(stored, tasks, key) ==
    FoldLeft(LAMBDA base, t : IF t.key = key THEN MergeTask(base, t) ELSE base,
             IF key \in DOMAIN stored THEN stored[key] ELSE NewTask, tasks)

\* MergeIncomingWorkPlanTasks: the tasks to store, in key order; stored is what was read of them.
IncomingTasks(stored, input) ==
    IF input.mode = "replace"
    THEN ByKey([i \in DOMAIN input.tasks |-> MergeTask(NewTask, input.tasks[i])], OpenFirst)
    ELSE [n \in DOMAIN SortedKeys(input.tasks) |-> MergedTask(stored, input.tasks, SortedKeys(input.tasks)[n])]

\* SortAndLimitCandidatePointers: by path and key; the default limit has no maximum.
SortedCandidates(rows, q) ==
    LET sorted == Ordered(rows, LAMBDA a, b : a.path < b.path \/ (a.path = b.path /\ a.key < b.key))
        n      == IF q.limit <= 0 THEN DefaultLimit ELSE q.limit
    IN  IF q.unbounded \/ Len(sorted) <= n THEN sorted ELSE SubSeq(sorted, 1, n)

===============================================================================
