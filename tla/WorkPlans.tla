------------------------------- MODULE WorkPlans -------------------------------
(***************************************************************************)
(* The `work` command, and the part of `done` that closes plans, as several*)
(* processes (CLI calls, MCP servers) run them against one database.       *)
(*                                                                         *)
(* A call is a sequence of repository operations, each a statement or a    *)
(* transaction of its own, with nothing that spans them:                   *)
(*                                                                         *)
(*   precheck -> plan_read -> plan_write   UpsertWorkPlan's transaction    *)
(*     -> back_row -> back_tasks           its LookupWorkPlan, outside it  *)
(*     -> items_write                      UpsertWorkItems                 *)
(*     -> sync -> sync_write               the auto-close transaction      *)
(*                                                                         *)
(* A task's status is stored twice: in the plan's tasks (`tasks`) and in   *)
(* the receipt's work items (`items`), which are what `done` reads.  Any   *)
(* call may be cut short between two operations by a crash, a cancelled    *)
(* context or a database error.                                            *)
(***************************************************************************)
EXTENDS PlanStatus, Naturals

CONSTANTS
    Agents,        \* the processes that issue calls
    Receipts,      \* receipt ids; the plan key of r is plan:<r>
    Keys,          \* task keys
    StageKey,      \* the stage:* task key whose stage field the model keeps
    Paths,         \* values of the plan's discovered_paths
    WorkInputs,    \* the payloads of `work`
    Serializable,  \* TRUE: SQLite snapshots; FALSE: Postgres READ COMMITTED
    CallsFail,     \* whether a call can be cut short
    MaxCalls       \* bound: number of calls in a behaviour

Optional(S) == S \cup {Absent}
Table == [Keys -> Optional(Statuses)]
EmptyTable == [k \in Keys |-> Absent]

(* core.WorkPlanUpsertInput, as `work` and the auto-close fill it. *)
Inputs == [mode : {"merge", "replace"}, status : Optional(Statuses),
           stage : Optional(Statuses), disc : Optional(Paths), tasks : Table]

ASSUME ConstantsAssumption ==
    /\ StageKey \in Keys
    /\ WorkInputs \subseteq Inputs
    /\ Serializable \in BOOLEAN /\ CallsFail \in BOOLEAN
    /\ MaxCalls \in Nat

(* A row of awm_work_plans; NoRow also carries the defaults of a new plan. *)
Rows == [found : BOOLEAN, status : Statuses, stage : Statuses, disc : Optional(Paths)]
NoRow == [found |-> FALSE, status |-> "pending", stage |-> "pending", disc |-> Absent]

NoInput == [mode |-> "merge", status |-> Absent, stage |-> Absent,
            disc |-> Absent, tasks |-> EmptyTable]

VARIABLES
    receipts,  \* receipts whose scope row exists
    plan,      \* [Receipts -> Rows]
    tasks,     \* awm_work_plan_tasks, per receipt
    items,     \* awm_work_items, per receipt
    pc,        \* the next operation of each agent's call
    kind,      \* "work" or "done"
    target,    \* the receipt of each agent's call
    input,     \* the payload of each agent's call
    base,      \* the plan row the agent's transaction has read
    fresh,     \* whether nothing was committed since that read
    back,      \* the row and the tasks handed to syncTerminalWorkPlanStatus
    calls,     \* number of calls issued
    lost,      \* history: keys whose work item a cut-short call never wrote
    dirty,     \* history: the last plan write's call was cut short
    overlap    \* history: whether two calls on the receipt ever overlapped

vars == <<receipts, plan, tasks, items, pc, kind, target, input, base, fresh,
          back, calls, lost, dirty, overlap>>
db == <<receipts, plan, tasks, items>>
callVars == <<kind, target, input, calls, overlap>>

KeysOf(in) == {k \in Keys : in.tasks[k] # Absent}

Init ==
    /\ receipts = {}
    /\ plan = [r \in Receipts |-> NoRow]
    /\ tasks = [r \in Receipts |-> EmptyTable]
    /\ items = [r \in Receipts |-> EmptyTable]
    /\ pc = [a \in Agents |-> "idle"]
    /\ kind = [a \in Agents |-> "work"]
    /\ target \in [Agents -> Receipts]
    /\ input = [a \in Agents |-> NoInput]
    /\ base = [a \in Agents |-> NoRow]
    /\ fresh = [a \in Agents |-> FALSE]
    /\ back = [a \in Agents |-> [row |-> NoRow, tasks |-> EmptyTable]]
    /\ calls = 0
    /\ lost = [r \in Receipts |-> {}]
    /\ dirty = [r \in Receipts |-> FALSE]
    /\ overlap = [r \in Receipts |-> FALSE]

-------------------------------------------------------------------------------
(* Pure helpers of internal/storage/domain and work_plan_lifecycle.go.     *)

Coalesce(value, default) == IF value # Absent THEN value ELSE default

(* Mutant: the stages are taken from the input alone (MergeWorkPlanStages left out). *)
StagesOfInputOnly(current, in) ==
    LET from == IF in.mode = "replace" THEN NoRow ELSE current
    IN  [found  |-> TRUE,
         status |-> Coalesce(in.status, from.status),
         stage  |-> in.stage,
         disc   |-> Coalesce(in.disc, from.disc)]

(* domain.BuildNextWorkPlanState: the whole row the upsert stores. *)
BuildNextWorkPlanState(current, in) ==
    LET from == IF in.mode = "replace" THEN NoRow ELSE current
    IN  [found  |-> TRUE,
         status |-> Coalesce(in.status, from.status),
         stage  |-> Coalesce(in.stage, from.stage),
         disc   |-> Coalesce(in.disc, from.disc)]

(* domain.MergeIncomingWorkPlanTasks with the delete that replace mode issues. *)
MergeTasks(current, in) ==
    [k \in Keys |-> IF in.tasks[k] # Absent THEN in.tasks[k]
                    ELSE IF in.mode = "replace" THEN Absent ELSE current[k]]

(* Mutant: an UPDATE where the code inserts or updates. *)
UpdateItemsOnly(current, in) ==
    [k \in Keys |-> IF current[k] = Absent THEN Absent ELSE Coalesce(in.tasks[k], current[k])]

(* Mutant: ON CONFLICT DO NOTHING. *)
InsertItemsOnly(current, in) ==
    [k \in Keys |-> Coalesce(current[k], in.tasks[k])]

(* The statement of UpsertWorkItems, over the rows of one receipt. *)
UpsertItems(current, in) ==
    [k \in Keys |-> Coalesce(in.tasks[k], current[k])]

(* The plan row once UpsertWorkPlan has re-derived an unspecified status. *)
StoredRow(current, in, newTasks) ==
    LET next == BuildNextWorkPlanState(current, in)
    IN  IF in.status = Absent
        THEN [next EXCEPT !.status = DerivePlanStatus(StatusesIn(newTasks))]
        ELSE next

DeriveTerminalWorkPlanStages(stage, table) == Coalesce(table[StageKey], stage)

(* The upsert syncTerminalWorkPlanStatus issues for what it was handed. *)
SyncInput(b) ==
    [NoInput EXCEPT !.status = DerivePlanStatus(StatusesIn(b.tasks)),
                    !.stage = DeriveTerminalWorkPlanStages(b.row.stage, b.tasks)]

(* Mutant: the plan status is not compared. *)
NeedsSyncForStage(b) ==
    /\ SyncInput(b).status \in TerminalStatuses
    /\ b.row.stage # SyncInput(b).stage

(* Mutant: the stages are not compared (workPlanStagesEqual left out). *)
NeedsSyncForStatus(b) ==
    /\ SyncInput(b).status \in TerminalStatuses
    /\ b.row.status # SyncInput(b).status

(* The early returns of syncTerminalWorkPlanStatus. *)
NeedsSync(b) ==
    /\ SyncInput(b).status \in TerminalStatuses
    /\ \/ b.row.status # SyncInput(b).status
       \/ b.row.stage # SyncInput(b).stage

-------------------------------------------------------------------------------
(* Helpers of the actions.                                                 *)

Goto(a, label) == pc' = [pc EXCEPT ![a] = label]

(* A committed change of the database makes every open snapshot out of date. *)
Committed == fresh' = [a \in Agents |-> FALSE]

(* Mutant: the write goes through on an out-of-date snapshot. *)
CommitAlways(a) == TRUE

(* A deferred SQLite transaction cannot upgrade a stale snapshot to a write. *)
CanCommit(a) == Serializable => fresh[a]

HasTasks(a) == KeysOf(input[a]) # {}

Idle(r) == \A a \in Agents : target[a] = r => pc[a] = "idle"

BeforeItems == {"back_row", "back_tasks", "items_write"}
AfterPlanWrite == BeforeItems \cup {"sync", "sync_write"}

(* The call of agent a ends here, whatever it had left to do. *)
CutShort(a) ==
    LET r == target[a] IN
    /\ Goto(a, "idle")
    /\ lost' = IF kind[a] = "work" /\ pc[a] \in BeforeItems
               THEN [lost EXCEPT ![r] = @ \cup KeysOf(input[a])] ELSE lost
    /\ dirty' = IF kind[a] = "work" /\ pc[a] \in AfterPlanWrite
                THEN [dirty EXCEPT ![r] = TRUE] ELSE dirty
    /\ UNCHANGED <<db, callVars, base, fresh, back>>

-------------------------------------------------------------------------------
(* The start of a call.                                                    *)

(* `context` persists the receipt's scope; repeating it converges on the same receipt. *)
OpenReceipt(r) ==
    /\ receipts' = receipts \cup {r}
    /\ Committed
    /\ UNCHANGED <<plan, tasks, items, pc, callVars, base, back, lost, dirty>>

Begin(a, k, r, in) ==
    /\ pc[a] = "idle" /\ calls < MaxCalls
    /\ calls' = calls + 1
    /\ kind' = [kind EXCEPT ![a] = k]
    /\ target' = [target EXCEPT ![a] = r]
    /\ input' = [input EXCEPT ![a] = in]
    /\ overlap' = [overlap EXCEPT ![r] = @ \/ ~Idle(r)]
    /\ UNCHANGED <<plan, tasks, items, base, back, lost, dirty>>

(* `work` with a plan key or a receipt id. *)
StartWork(a, r, in) ==
    /\ Begin(a, "work", r, in)
    /\ Goto(a, IF KeysOf(in) # {} THEN "precheck" ELSE "plan_read")
    /\ UNCHANGED <<receipts, fresh>>

(* `work` with a task text only: it opens the receipt and skips the precheck. *)
StartAutoOpen(a, r, in) ==
    /\ Begin(a, "work", r, in)
    /\ Goto(a, "plan_read")
    /\ receipts' = receipts \cup {r}
    /\ Committed

(* `done`: the receipt must exist; it then loads the plan and the work items. *)
StartDone(a, r) ==
    /\ r \in receipts
    /\ Begin(a, "done", r, NoInput)
    /\ Goto(a, "back_row")
    /\ UNCHANGED <<receipts, fresh>>

(* Mutant: the scope is not looked up first. *)
PrecheckSkipped(a) ==
    /\ pc[a] = "precheck"
    /\ Goto(a, "plan_read")
    /\ UNCHANGED <<db, callVars, base, fresh, back, lost, dirty>>

(* FetchReceiptScope: an unknown receipt ends the call with NOT_FOUND. *)
Precheck(a) ==
    /\ pc[a] = "precheck"
    /\ Goto(a, IF target[a] \in receipts THEN "plan_read" ELSE "idle")
    /\ UNCHANGED <<db, callVars, base, fresh, back, lost, dirty>>

-------------------------------------------------------------------------------
(* UpsertWorkPlan and the reads and writes that follow it.                 *)

(* BEGIN and the SELECT of the plan row. *)
TxRead(a, from, to) ==
    /\ pc[a] = from
    /\ Goto(a, to)
    /\ base' = [base EXCEPT ![a] = plan[target[a]]]
    /\ fresh' = [fresh EXCEPT ![a] = TRUE]
    /\ UNCHANGED <<db, callVars, back, lost, dirty>>

PlanRead(a) == TxRead(a, "plan_read", "plan_write")

(* The upsert of the row, the task rows, the derived status, and COMMIT. *)
PlanWrite(a) ==
    LET r == target[a]
        newTasks == MergeTasks(tasks[r], input[a])
    IN
    /\ pc[a] = "plan_write" /\ CanCommit(a)
    /\ Goto(a, "back_row")
    /\ plan' = [plan EXCEPT ![r] = StoredRow(base[a], input[a], newTasks)]
    /\ tasks' = [tasks EXCEPT ![r] = newTasks]
    /\ dirty' = [dirty EXCEPT ![r] = FALSE]
    /\ Committed
    /\ UNCHANGED <<receipts, items, callVars, base, back, lost>>

(* LookupWorkPlan reads the row and the tasks in two statements, outside the
   transaction; `done` without a plan closes nothing. *)
ReadBackRow(a) ==
    LET row == plan[target[a]] IN
    /\ pc[a] = "back_row"
    /\ Goto(a, IF row.found THEN "back_tasks" ELSE "idle")
    /\ back' = [back EXCEPT ![a].row = row]
    /\ UNCHANGED <<db, callVars, base, fresh, lost, dirty>>

(* `work` hands over the plan's tasks, `done` the receipt's work items. *)
ReadBackTasks(a) ==
    LET r == target[a] IN
    /\ pc[a] = "back_tasks"
    /\ Goto(a, IF HasTasks(a) THEN "items_write" ELSE "sync")
    /\ back' = [back EXCEPT ![a].tasks = IF kind[a] = "done" THEN items[r] ELSE tasks[r]]
    /\ UNCHANGED <<db, callVars, base, fresh, lost, dirty>>

(* UpsertWorkItems; a foreign key ties the rows to the receipt. *)
WriteItems(a) ==
    LET r == target[a] IN
    /\ pc[a] = "items_write" /\ r \in receipts
    /\ Goto(a, "sync")
    /\ items' = [items EXCEPT ![r] = UpsertItems(@, input[a])]
    /\ lost' = [lost EXCEPT ![r] = @ \ KeysOf(input[a])]
    /\ Committed
    /\ UNCHANGED <<receipts, plan, tasks, callVars, base, back, dirty>>

-------------------------------------------------------------------------------
(* syncTerminalWorkPlanStatus                                              *)

SyncSkip(a) ==
    /\ pc[a] = "sync" /\ ~NeedsSync(back[a])
    /\ Goto(a, "idle")
    /\ UNCHANGED <<db, callVars, base, fresh, back, lost, dirty>>

SyncRead(a) == NeedsSync(back[a]) /\ TxRead(a, "sync", "sync_write")

SyncWrite(a) ==
    LET r == target[a] IN
    /\ pc[a] = "sync_write" /\ CanCommit(a)
    /\ Goto(a, "idle")
    /\ plan' = [plan EXCEPT ![r] = StoredRow(base[a], SyncInput(back[a]), tasks[r])]
    /\ Committed
    /\ UNCHANGED <<receipts, tasks, items, callVars, base, back, lost, dirty>>

-------------------------------------------------------------------------------
(* SQLITE_BUSY: another process committed since this transaction's read. *)
Busy(a) == pc[a] \in {"plan_write", "sync_write"} /\ ~CanCommit(a) /\ CutShort(a)

(* A crash, a cancelled context or a failed statement. *)
Fail(a) == CallsFail /\ pc[a] # "idle" /\ CutShort(a)

Step(a) ==
    \/ Precheck(a) \/ PlanRead(a) \/ PlanWrite(a) \/ ReadBackRow(a)
    \/ ReadBackTasks(a) \/ WriteItems(a)
    \/ SyncSkip(a) \/ SyncRead(a) \/ SyncWrite(a) \/ Busy(a)

Next ==
    \/ \E r \in Receipts : OpenReceipt(r)
    \/ \E a \in Agents :
        \/ \E r \in Receipts, in \in WorkInputs : StartWork(a, r, in) \/ StartAutoOpen(a, r, in)
        \/ \E r \in Receipts : StartDone(a, r)
        \/ Step(a)
        \/ Fail(a)

Spec == Init /\ [][Next]_vars

(* A call that has started runs on; when one starts is up to its caller. *)
FairSpec == Spec /\ \A a \in Agents : WF_vars(Step(a))

-------------------------------------------------------------------------------
(* Properties                                                              *)

(* Every variable holds a value of the columns, payloads and locals it stands for. *)
TypeOK ==
    /\ receipts \subseteq Receipts
    /\ plan \in [Receipts -> Rows]
    /\ tasks \in [Receipts -> Table]
    /\ items \in [Receipts -> Table]
    /\ pc \in [Agents -> {"idle", "precheck", "plan_read", "plan_write"} \cup AfterPlanWrite]
    /\ kind \in [Agents -> {"work", "done"}]
    /\ target \in [Agents -> Receipts]
    /\ input \in [Agents -> Inputs]
    /\ base \in [Agents -> Rows]
    /\ fresh \in [Agents -> BOOLEAN]
    /\ back \in [Agents -> [row : Rows, tasks : Table]]
    /\ calls \in Nat
    /\ lost \in [Receipts -> SUBSET Keys]
    /\ dirty \in [Receipts -> BOOLEAN]
    /\ overlap \in [Receipts -> BOOLEAN]

(* The precheck of work.go:91-95: no task and no work item is ever stored for
   a receipt that was not opened, however the calls interleave. *)
NoOrphanTasks ==
    \A r \in Receipts :
        StatusesIn(tasks[r]) \cup StatusesIn(items[r]) # {} => r \in receipts

(* The two tables of a `work` call are written by two transactions.  A task
   without a work item, which `done` could not see, is always accounted for by
   a call still on its way to the second one, or cut short before it. *)
TasksReachItems ==
    \A r \in Receipts, k \in Keys :
        tasks[r][k] # Absent /\ items[r][k] = Absent =>
            \/ k \in lost[r]
            \/ \E a \in Agents : /\ target[a] = r /\ pc[a] \in BeforeItems
                                /\ k \in KeysOf(input[a])

Drift(r) == AllTerminal(tasks[r]) /\ plan[r].status \notin TerminalStatuses

(* What terminal_status_drift of plan_diagnostics.go:76-79 looks for: once the
   calls on a receipt have ended, a plan whose tasks are all terminal is itself
   terminal, unless the call that last wrote the plan was cut short. *)
AutoClosed == \A r \in Receipts : Drift(r) /\ Idle(r) => dirty[r]

(* The write that changes the stored discovered_paths carries them, or replaces the plan. *)
OnlyGivenFieldsChange(r) ==
    plan'[r].disc # plan[r].disc =>
        \E a \in Agents : /\ pc[a] = "plan_write" /\ target[a] = r
                           /\ (input[a].disc # Absent \/ input[a].mode = "replace")

(* A merge keeps the fields its input leaves out (domain.go:392-396), whoever
   else writes the plan meanwhile. *)
MergeKeepsUnsetFields == [][\A r \in Receipts : OnlyGivenFieldsChange(r)]_vars

(* As long as the calls on a receipt run one after the other, the two tables
   agree at rest on every task of the plan, but for keys whose second write was
   cut short. *)
ItemsAgreeWithTasks ==
    \A r \in Receipts, k \in Keys :
        /\ Idle(r) /\ ~overlap[r] /\ tasks[r][k] # Absent
        => items[r][k] = tasks[r][k] \/ k \in lost[r]

(* The auto-close of `work` and of `done` makes a plan terminal only when no
   task of it is open.  Two things break this in the code and are excepted:
   calls on the same receipt that overlap, since the tasks were read back
   before, and keys of a cut-short call, since `done` decides from the items. *)
CloseOnlyWithoutOpenTasks ==
    [][\A a \in Agents :
          LET r == target[a] IN
          /\ pc[a] = "sync_write" /\ ~overlap[r]
          /\ plan'[r] # plan[r] /\ plan'[r].status \in TerminalStatuses
          => \A k \in Keys \ lost[r] : tasks[r][k] \in TerminalStatuses \cup {Absent}]_vars

RetainsStaleStage(r) ==
    /\ Idle(r) /\ AllTerminal(tasks[r]) /\ ~dirty[r] /\ lost[r] = {}
    /\ tasks[r][StageKey] # Absent
    /\ plan[r].stage # tasks[r][StageKey]

(* The auto-close reconciles the stage field with its stage:* task, so a plan
   closed and at rest, whose calls did not overlap, carries no other stage. *)
StagesFollowTasks == \A r \in Receipts : ~overlap[r] => ~RetainsStaleStage(r)

(* Drift does not last: the calls under way repair it. *)
DriftCloses == \A r \in Receipts : Drift(r) ~> ~Drift(r)

===============================================================================
