---------------------------- MODULE WorkPlans_proofs ----------------------------
(***************************************************************************)
(* Theorems about WorkPlans for every number of agents, receipts, keys and *)
(* payloads: type correctness, the two invariants that tie tasks, items    *)
(* and receipts together, the auto-close invariant, and that a merge keeps *)
(* unset fields on a backend whose transactions cannot commit on an        *)
(* out-of-date snapshot.                                                   *)
(***************************************************************************)
EXTENDS WorkPlans, TLAPS

-------------------------------------------------------------------------------
(* Lemmas about the pure operators.                                        *)

(* The aggregate status of any set of task statuses is one of the five. *)
LEMMA DerivedStatusType == \A S : DerivePlanStatus(S) \in Statuses
  BY DEF DerivePlanStatus, Statuses

(* work_plan_lifecycle.go:25-28: the derived status is terminal exactly when
   there is a task and no task is open. *)
LEMMA DerivedTerminal ==
  ASSUME NEW table \in Table
  PROVE  DerivePlanStatus(StatusesIn(table)) \in TerminalStatuses <=> AllTerminal(table)
<1>1. StatusesIn(table) \subseteq Statuses
  BY DEF StatusesIn, Table, Optional
<1> DEFINE S == StatusesIn(table)
<1>2. CASE S \subseteq TerminalStatuses
  BY <1>2 DEF DerivePlanStatus, AllTerminal, TerminalStatuses
<1>3. CASE ~(S \subseteq TerminalStatuses)
  <2>1. "blocked" \in S \/ "in_progress" \in S \/ "pending" \in S
    BY <1>1, <1>3 DEF Statuses, TerminalStatuses
  <2> QED BY <2>1, <1>3 DEF DerivePlanStatus, AllTerminal, TerminalStatuses
<1> QED BY <1>2, <1>3

(* The values that have no type trouble of their own. *)
LEMMA DefaultsType == NoRow \in Rows /\ EmptyTable \in Table /\ NoInput \in Inputs
  BY DEF NoRow, Rows, Statuses, Optional, EmptyTable, Table, NoInput, Inputs

(* What UpsertWorkPlan stores is a row, whatever it read and was given. *)
LEMMA StoredRowType ==
  ASSUME NEW current \in Rows, NEW in \in Inputs, NEW table
  PROVE  StoredRow(current, in, table) \in Rows /\ StoredRow(current, in, table).found
<1>1. NoRow \in Rows
  BY DefaultsType
<1>2. BuildNextWorkPlanState(current, in) \in Rows
      /\ BuildNextWorkPlanState(current, in).found
  BY <1>1 DEF BuildNextWorkPlanState, Coalesce, Rows, Inputs, Optional, Statuses
<1>3. DerivePlanStatus(StatusesIn(table)) \in Statuses
  BY DerivedStatusType
<1> QED BY <1>2, <1>3 DEF StoredRow, Rows

(* Merged tasks and merged items are tables again. *)
LEMMA MergeType ==
  ASSUME NEW current \in Table, NEW in \in Inputs
  PROVE  MergeTasks(current, in) \in Table /\ UpsertItems(current, in) \in Table
  BY DEF MergeTasks, UpsertItems, Coalesce, Table, Inputs, Optional

(* The auto-close sends a well-formed merge that always carries a stage and a status. *)
LEMMA SyncInputType ==
  ASSUME NEW b \in [row : Rows, tasks : Table]
  PROVE  /\ SyncInput(b) \in Inputs
         /\ SyncInput(b).status = DerivePlanStatus(StatusesIn(b.tasks))
         /\ SyncInput(b).status \in Statuses
         /\ SyncInput(b).stage \in Statuses
         /\ SyncInput(b).disc = Absent /\ SyncInput(b).mode = "merge"
<1>1. DerivePlanStatus(StatusesIn(b.tasks)) \in Statuses
  BY DerivedStatusType
<1>2. DeriveTerminalWorkPlanStages(b.row.stage, b.tasks) \in Statuses
  BY ConstantsAssumption DEF DeriveTerminalWorkPlanStages, Coalesce, Table, Optional, Rows
<1> QED BY <1>1, <1>2, DefaultsType DEF SyncInput, NoInput, Inputs, Optional

-------------------------------------------------------------------------------
(* Type correctness.                                                       *)

(* The initial states are well typed. *)
LEMMA TypeInit == ASSUME Init PROVE TypeOK
  BY DefaultsType DEF Init, TypeOK, AfterPlanWrite, BeforeItems

(* The start of a call keeps the types. *)
LEMMA TypeBegin ==
  ASSUME TypeOK, NEW a \in Agents, NEW k \in {"work", "done"}, NEW r \in Receipts,
         NEW in \in Inputs, Begin(a, k, r, in)
  PROVE  /\ kind' \in [Agents -> {"work", "done"}]
         /\ target' \in [Agents -> Receipts]
         /\ input' \in [Agents -> Inputs]
         /\ overlap' \in [Receipts -> BOOLEAN]
         /\ calls' \in Nat
         /\ UNCHANGED <<plan, tasks, items, base, back, lost, dirty>>
<1>1. overlap' \in [Receipts -> BOOLEAN]
  <2>1. (overlap[r] \/ ~Idle(r)) \in BOOLEAN
    BY DEF TypeOK, Idle
  <2> QED BY <2>1 DEF TypeOK, Begin
<1> QED BY <1>1 DEF TypeOK, Begin

(* A call that is cut short keeps the types. *)
LEMMA TypeCutShort ==
  ASSUME TypeOK, NEW a \in Agents, CutShort(a)
  PROVE  TypeOK'
<1>1. KeysOf(input[a]) \subseteq Keys
  BY DEF KeysOf
<1>2. lost' \in [Receipts -> SUBSET Keys]
  BY <1>1 DEF TypeOK, CutShort
<1>3. dirty' \in [Receipts -> BOOLEAN]
  BY DEF TypeOK, CutShort
<1>4. UNCHANGED <<receipts, plan, tasks, items, kind, target, input, calls, overlap, base, fresh, back>>
  BY DEF CutShort, db, callVars
<1> QED BY <1>2, <1>3, <1>4 DEF TypeOK, CutShort, Goto

(* Every step of the specification keeps the types. *)
LEMMA TypeNext == ASSUME TypeOK, [Next]_vars PROVE TypeOK'
<1> USE DEF AfterPlanWrite, BeforeItems, db, callVars, Goto, Committed
<1>1. ASSUME NEW r \in Receipts, OpenReceipt(r) PROVE TypeOK'
  BY <1>1 DEF OpenReceipt, TypeOK
<1>2. ASSUME NEW a \in Agents, NEW r \in Receipts, NEW in \in WorkInputs, StartWork(a, r, in)
      PROVE  TypeOK'
  <2>1. in \in Inputs
    BY ConstantsAssumption
  <2>2. Begin(a, "work", r, in)
    BY <1>2 DEF StartWork
  <2> QED BY <1>2, <2>1, <2>2, TypeBegin DEF StartWork, TypeOK
<1>3. ASSUME NEW a \in Agents, NEW r \in Receipts, NEW in \in WorkInputs, StartAutoOpen(a, r, in)
      PROVE  TypeOK'
  <2>1. in \in Inputs
    BY ConstantsAssumption
  <2>2. Begin(a, "work", r, in)
    BY <1>3 DEF StartAutoOpen
  <2> QED BY <1>3, <2>1, <2>2, TypeBegin DEF StartAutoOpen, TypeOK
<1>4. ASSUME NEW a \in Agents, NEW r \in Receipts, StartDone(a, r) PROVE TypeOK'
  <2>1. Begin(a, "done", r, NoInput)
    BY <1>4 DEF StartDone
  <2> QED BY <1>4, <2>1, TypeBegin, DefaultsType DEF StartDone, TypeOK
<1>5. ASSUME NEW a \in Agents, Precheck(a) PROVE TypeOK'
  BY <1>5 DEF Precheck, TypeOK
<1>6. ASSUME NEW a \in Agents, NEW from, NEW to \in {"plan_write", "sync_write"}, TxRead(a, from, to)
      PROVE TypeOK'
  BY <1>6 DEF TxRead, TypeOK
<1>7. ASSUME NEW a \in Agents, PlanWrite(a) PROVE TypeOK'
  <2> DEFINE r == target[a]
  <2>1. r \in Receipts /\ base[a] \in Rows /\ input[a] \in Inputs /\ tasks[r] \in Table
    BY DEF TypeOK
  <2>2. MergeTasks(tasks[r], input[a]) \in Table
    BY <2>1, MergeType
  <2>3. StoredRow(base[a], input[a], MergeTasks(tasks[r], input[a])) \in Rows
    BY <2>1, StoredRowType
  <2> QED BY <1>7, <2>1, <2>2, <2>3 DEF PlanWrite, TypeOK
<1>8. ASSUME NEW a \in Agents, ReadBackRow(a) PROVE TypeOK'
  <2>1. plan[target[a]] \in Rows
    BY DEF TypeOK
  <2>2. back' \in [Agents -> [row : Rows, tasks : Table]]
    BY <1>8, <2>1 DEF ReadBackRow, TypeOK
  <2> QED BY <1>8, <2>2 DEF ReadBackRow, TypeOK
<1>9. ASSUME NEW a \in Agents, ReadBackTasks(a) PROVE TypeOK'
  <2>1. tasks[target[a]] \in Table /\ items[target[a]] \in Table
    BY DEF TypeOK
  <2>2. back' \in [Agents -> [row : Rows, tasks : Table]]
    BY <1>9, <2>1 DEF ReadBackTasks, TypeOK
  <2> QED BY <1>9, <2>2 DEF ReadBackTasks, TypeOK
<1>10. ASSUME NEW a \in Agents, WriteItems(a) PROVE TypeOK'
  <2>1. UpsertItems(items[target[a]], input[a]) \in Table
    BY MergeType DEF TypeOK
  <2> QED BY <1>10, <2>1 DEF WriteItems, TypeOK
<1>11. ASSUME NEW a \in Agents, SyncSkip(a) PROVE TypeOK'
  BY <1>11 DEF SyncSkip, TypeOK
<1>12. ASSUME NEW a \in Agents, SyncWrite(a) PROVE TypeOK'
  <2> DEFINE r == target[a]
  <2>1. r \in Receipts /\ base[a] \in Rows /\ back[a] \in [row : Rows, tasks : Table]
    BY DEF TypeOK
  <2>2. StoredRow(base[a], SyncInput(back[a]), tasks[r]) \in Rows
    BY <2>1, StoredRowType, SyncInputType
  <2> QED BY <1>12, <2>1, <2>2 DEF SyncWrite, TypeOK
<1>13. ASSUME NEW a \in Agents, Busy(a) \/ Fail(a) PROVE TypeOK'
  BY <1>13, TypeCutShort DEF Busy, Fail
<1>14. ASSUME UNCHANGED vars PROVE TypeOK'
  BY <1>14 DEF vars, TypeOK
<1> QED
  BY <1>1, <1>2, <1>3, <1>4, <1>5, <1>6, <1>7, <1>8, <1>9, <1>10, <1>11, <1>12, <1>13, <1>14
     DEF Next, Step, PlanRead, SyncRead

(* Every reachable state is well typed, for all values of the constants. *)
THEOREM TypeCorrect == Spec => []TypeOK
<1>1. Init => TypeOK
  BY TypeInit
<1>2. TypeOK /\ [Next]_vars => TypeOK'
  BY TypeNext
<1> QED BY <1>1, <1>2, PTL DEF Spec

-------------------------------------------------------------------------------
(* Facts about the calls under way.                                        *)

(* Only `work` calls carry tasks and write the plan; a call with tasks runs on
   only once its receipt exists; a plan that was just written exists. *)
CallsWellFormed ==
    \A a \in Agents :
        /\ kind[a] = "done" => KeysOf(input[a]) = {}
        /\ pc[a] \in {"precheck", "plan_read", "plan_write", "items_write"} => kind[a] = "work"
        /\ KeysOf(input[a]) # {} /\ pc[a] \notin {"idle", "precheck"} => target[a] \in receipts
        /\ kind[a] = "work" /\ pc[a] = "back_row" => plan[target[a]].found
        /\ pc[a] = "sync_write" => SyncInput(back[a]).status \in TerminalStatuses

(* A call without tasks has no keys. *)
LEMMA NoInputKeys == KeysOf(NoInput) = {}
  BY DEF KeysOf, NoInput, EmptyTable

(* Every step keeps them. *)
LEMMA CallsWellFormedNext ==
  ASSUME TypeOK, CallsWellFormed, [Next]_vars
  PROVE  CallsWellFormed'
<1> USE DEF db, callVars, Goto, Committed, CallsWellFormed
<1>1. ASSUME NEW r \in Receipts, OpenReceipt(r) PROVE CallsWellFormed'
  BY <1>1 DEF OpenReceipt, KeysOf
<1>2. ASSUME NEW a \in Agents, NEW r \in Receipts, NEW in \in WorkInputs,
             StartWork(a, r, in) \/ StartAutoOpen(a, r, in)
      PROVE  CallsWellFormed'
  BY <1>2 DEF StartWork, StartAutoOpen, Begin, KeysOf, TypeOK
<1>3. ASSUME NEW a \in Agents, NEW r \in Receipts, StartDone(a, r) PROVE CallsWellFormed'
  BY <1>3, NoInputKeys DEF StartDone, Begin, KeysOf, TypeOK
<1>4. ASSUME NEW a \in Agents, Precheck(a) PROVE CallsWellFormed'
  BY <1>4 DEF Precheck, KeysOf, TypeOK
<1>5. ASSUME NEW a \in Agents, PlanRead(a) PROVE CallsWellFormed'
  BY <1>5 DEF PlanRead, TxRead, KeysOf, TypeOK
<1>6. ASSUME NEW a \in Agents, PlanWrite(a) PROVE CallsWellFormed'
  <2>1. StoredRow(base[a], input[a], MergeTasks(tasks[target[a]], input[a])).found
    BY StoredRowType DEF TypeOK
  <2> QED BY <1>6, <2>1 DEF PlanWrite, KeysOf, TypeOK
<1>7. ASSUME NEW a \in Agents, ReadBackRow(a) PROVE CallsWellFormed'
  BY <1>7 DEF ReadBackRow, KeysOf, TypeOK
<1>8. ASSUME NEW a \in Agents, ReadBackTasks(a) PROVE CallsWellFormed'
  BY <1>8 DEF ReadBackTasks, HasTasks, KeysOf, TypeOK
<1>9. ASSUME NEW a \in Agents, WriteItems(a) PROVE CallsWellFormed'
  BY <1>9 DEF WriteItems, KeysOf, TypeOK
<1>10. ASSUME NEW a \in Agents, SyncSkip(a) PROVE CallsWellFormed'
  BY <1>10 DEF SyncSkip, KeysOf, TypeOK
<1>11. ASSUME NEW a \in Agents, SyncRead(a) PROVE CallsWellFormed'
  BY <1>11 DEF SyncRead, TxRead, NeedsSync, KeysOf, TypeOK
<1>12. ASSUME NEW a \in Agents, SyncWrite(a) PROVE CallsWellFormed'
  <2>1. StoredRow(base[a], SyncInput(back[a]), tasks[target[a]]).found
    BY StoredRowType, SyncInputType DEF TypeOK
  <2> QED BY <1>12, <2>1 DEF SyncWrite, KeysOf, TypeOK
<1>13. ASSUME NEW a \in Agents, Busy(a) \/ Fail(a) PROVE CallsWellFormed'
  BY <1>13 DEF Busy, Fail, CutShort, KeysOf, TypeOK
<1>14. ASSUME UNCHANGED vars PROVE CallsWellFormed'
  BY <1>14 DEF vars, KeysOf
<1> QED
  BY <1>1, <1>2, <1>3, <1>4, <1>5, <1>6, <1>7, <1>8, <1>9, <1>10, <1>11, <1>12, <1>13, <1>14
     DEF Next, Step

-------------------------------------------------------------------------------
(* No task without a receipt.                                              *)

(* The keys a merge or an upsert can have come from the old table or the payload. *)
LEMMA MergedKeys ==
  ASSUME NEW current \in Table, NEW in \in Inputs, NEW k \in Keys
  PROVE  /\ MergeTasks(current, in)[k] # Absent => current[k] # Absent \/ k \in KeysOf(in)
         /\ UpsertItems(current, in)[k] # Absent <=> current[k] # Absent \/ k \in KeysOf(in)
  BY DEF MergeTasks, UpsertItems, Coalesce, KeysOf

(* A table holds a status exactly when one of its keys is present. *)
LEMMA NonEmptyTable ==
  ASSUME NEW table \in Table
  PROVE  StatusesIn(table) # {} <=> \E k \in Keys : table[k] # Absent
<1>1. \A s : s \in StatusesIn(table) <=> \E k \in Keys : s = table[k] /\ s # Absent
  BY DEF StatusesIn, Table
<1>2. ASSUME NEW k \in Keys, table[k] # Absent PROVE table[k] \in StatusesIn(table)
  BY <1>1, <1>2
<1> QED BY <1>1, <1>2

(* A step that writes neither table and forgets no receipt. *)
LEMMA NoOrphanKept ==
  ASSUME NoOrphanTasks, UNCHANGED <<tasks, items>>, receipts \subseteq receipts'
  PROVE  NoOrphanTasks'
  BY DEF NoOrphanTasks, StatusesIn

(* The plan write and the item write are the only ones that can add a task. *)
LEMMA NoOrphanNext ==
  ASSUME TypeOK, CallsWellFormed, NoOrphanTasks, [Next]_vars
  PROVE  NoOrphanTasks'
<1> USE DEF db, callVars
<1>1. ASSUME NEW a \in Agents, PlanWrite(a) PROVE NoOrphanTasks'
  <2> DEFINE r == target[a]
             new == MergeTasks(tasks[r], input[a])
  <2>1. r \in Receipts /\ tasks[r] \in Table /\ input[a] \in Inputs /\ new \in Table
    BY MergeType DEF TypeOK
  <2>2. StatusesIn(new) # {} => r \in receipts
    <3>1. ASSUME StatusesIn(new) # {}
          PROVE  StatusesIn(tasks[r]) # {} \/ KeysOf(input[a]) # {}
      BY <3>1, <2>1, NonEmptyTable, MergedKeys
    <3> QED BY <3>1, <2>1, <1>1 DEF PlanWrite, CallsWellFormed, NoOrphanTasks
  <2>3. /\ tasks' = [tasks EXCEPT ![r] = new]
        /\ UNCHANGED <<receipts, items>>
    BY <1>1 DEF PlanWrite
  <2> QED BY <2>1, <2>2, <2>3 DEF NoOrphanTasks, TypeOK
<1>2. ASSUME NEW a \in Agents, WriteItems(a) PROVE NoOrphanTasks'
  BY <1>2 DEF WriteItems, NoOrphanTasks, TypeOK
<1>3. ASSUME NEW a \in Agents, Step(a), ~PlanWrite(a), ~WriteItems(a) PROVE NoOrphanTasks'
  <2>1. UNCHANGED <<receipts, tasks, items>>
    BY <1>3 DEF Step, Precheck, PlanRead, TxRead, ReadBackRow, ReadBackTasks, SyncSkip, SyncRead,
                SyncWrite, Busy, CutShort
  <2> QED BY <2>1, NoOrphanKept
<1>4. ASSUME NEW a \in Agents, NEW r \in Receipts, NEW in,
             StartWork(a, r, in) \/ StartAutoOpen(a, r, in) \/ StartDone(a, r)
      PROVE  NoOrphanTasks'
  <2>1. UNCHANGED <<tasks, items>> /\ receipts \subseteq receipts'
    BY <1>4 DEF StartWork, StartAutoOpen, StartDone, Begin
  <2> QED BY <2>1, NoOrphanKept
<1>5. ASSUME NEW r \in Receipts, OpenReceipt(r) PROVE NoOrphanTasks'
  <2>1. UNCHANGED <<tasks, items>> /\ receipts \subseteq receipts'
    BY <1>5 DEF OpenReceipt
  <2> QED BY <2>1, NoOrphanKept
<1>6. ASSUME NEW a \in Agents, Fail(a) PROVE NoOrphanTasks'
  <2>1. UNCHANGED <<receipts, tasks, items>>
    BY <1>6 DEF Fail, CutShort
  <2> QED BY <2>1, NoOrphanKept
<1>7. ASSUME UNCHANGED vars PROVE NoOrphanTasks'
  BY <1>7, NoOrphanKept DEF vars
<1> QED BY <1>1, <1>2, <1>3, <1>4, <1>5, <1>6, <1>7 DEF Next

(* The call facts hold from the start on. *)
THEOREM CallsCorrect == Spec => []CallsWellFormed
<1>1. Init => CallsWellFormed
  BY NoInputKeys DEF Init, CallsWellFormed
<1>2. TypeOK /\ CallsWellFormed /\ [Next]_vars => CallsWellFormed'
  BY CallsWellFormedNext
<1> QED BY <1>1, <1>2, TypeCorrect, PTL DEF Spec

(* work.go:91-95: "an unknown receipt fails with NOT_FOUND before any state is
   persisted": no interleaving of calls stores a task without its receipt. *)
THEOREM TasksHaveReceipts == Spec => []NoOrphanTasks
<1>1. Init => NoOrphanTasks
  BY DefaultsType, NonEmptyTable DEF Init, NoOrphanTasks, EmptyTable
<1>2. TypeOK /\ CallsWellFormed /\ NoOrphanTasks /\ [Next]_vars => NoOrphanTasks'
  BY NoOrphanNext
<1> QED BY <1>1, <1>2, TypeCorrect, CallsCorrect, PTL DEF Spec

-------------------------------------------------------------------------------
(* Every task reaches its work item, or its call is accounted for.         *)

(* The call of agent a is on its way to write the work item of key k. *)
WillWriteItem(a, r, k) ==
    target[a] = r /\ pc[a] \in BeforeItems /\ k \in KeysOf(input[a])

(* A step that writes neither table, drops no lost key, and takes no agent
   from its way to UpsertWorkItems keeps the invariant. *)
LEMMA ReachKept ==
  ASSUME TasksReachItems, UNCHANGED <<tasks, items>>,
         \A r \in Receipts : lost[r] \subseteq lost'[r],
         \A a \in Agents, r \in Receipts, k \in Keys :
             WillWriteItem(a, r, k) => WillWriteItem(a, r, k)' \/ k \in lost'[r]
  PROVE  TasksReachItems'
  BY DEF TasksReachItems, WillWriteItem

(* Every step keeps it. *)
LEMMA ReachNext ==
  ASSUME TypeOK, CallsWellFormed, TasksReachItems, [Next]_vars
  PROVE  TasksReachItems'
<1> USE DEF db, callVars, Goto, BeforeItems
<1>1. ASSUME NEW a \in Agents, PlanWrite(a) PROVE TasksReachItems'
  <2> DEFINE r == target[a]
             new == MergeTasks(tasks[r], input[a])
  <2>1. r \in Receipts /\ tasks[r] \in Table /\ input[a] \in Inputs
    BY DEF TypeOK
  <2>2. SUFFICES ASSUME NEW q \in Receipts, NEW k \in Keys,
                        tasks'[q][k] # Absent, items'[q][k] = Absent
                 PROVE  k \in lost'[q] \/ \E b \in Agents : WillWriteItem(b, q, k)'
    BY DEF TasksReachItems, WillWriteItem
  <2>3. /\ tasks' = [tasks EXCEPT ![r] = new]
        /\ UNCHANGED <<items, lost, target, input>>
        /\ pc' = [pc EXCEPT ![a] = "back_row"] /\ pc[a] = "plan_write"
    BY <1>1 DEF PlanWrite
  <2>4. tasks[q][k] # Absent \/ (q = r /\ k \in KeysOf(input[a]))
    BY <2>1, <2>2, <2>3, MergedKeys DEF TypeOK
  <2>5. CASE q = r /\ k \in KeysOf(input[a])
    BY <2>3, <2>5 DEF WillWriteItem, TypeOK, KeysOf
  <2>6. CASE tasks[q][k] # Absent
    <3>1. k \in lost[q] \/ \E b \in Agents : WillWriteItem(b, q, k)
      BY <2>2, <2>3, <2>6 DEF TasksReachItems, WillWriteItem
    <3>2. ASSUME NEW b \in Agents, WillWriteItem(b, q, k) PROVE WillWriteItem(b, q, k)'
      BY <3>2, <2>3 DEF WillWriteItem, TypeOK, KeysOf
    <3> QED BY <3>1, <3>2, <2>3
  <2> QED BY <2>4, <2>5, <2>6
<1>2. ASSUME NEW a \in Agents, WriteItems(a) PROVE TasksReachItems'
  <2> DEFINE r == target[a]
             new == UpsertItems(items[r], input[a])
  <2>1. r \in Receipts /\ items[r] \in Table /\ input[a] \in Inputs
    BY DEF TypeOK
  <2>2. SUFFICES ASSUME NEW q \in Receipts, NEW k \in Keys,
                        tasks'[q][k] # Absent, items'[q][k] = Absent
                 PROVE  k \in lost'[q] \/ \E b \in Agents : WillWriteItem(b, q, k)'
    BY DEF TasksReachItems, WillWriteItem
  <2>3. /\ items' = [items EXCEPT ![r] = new]
        /\ lost' = [lost EXCEPT ![r] = @ \ KeysOf(input[a])]
        /\ UNCHANGED <<tasks, target, input>>
        /\ pc' = [pc EXCEPT ![a] = "sync"]
    BY <1>2 DEF WriteItems
  <2>4. items[q][k] = Absent /\ (q = r => k \notin KeysOf(input[a]))
    BY <2>1, <2>2, <2>3, MergedKeys DEF TypeOK
  <2>5. k \in lost[q] \/ \E b \in Agents : WillWriteItem(b, q, k)
    BY <2>2, <2>3, <2>4 DEF TasksReachItems, WillWriteItem
  <2>6. ASSUME NEW b \in Agents, WillWriteItem(b, q, k) PROVE WillWriteItem(b, q, k)'
    <3>1. b # a
      BY <2>4, <2>6 DEF WillWriteItem
    <3> QED BY <3>1, <2>6, <2>3 DEF WillWriteItem, TypeOK, KeysOf
  <2>7. k \in lost[q] => k \in lost'[q]
    BY <2>3, <2>4 DEF TypeOK
  <2> QED BY <2>5, <2>6, <2>7
<1>3. ASSUME NEW a \in Agents, NEW r \in Receipts, NEW in,
             StartWork(a, r, in) \/ StartAutoOpen(a, r, in) \/ StartDone(a, r)
      PROVE  TasksReachItems'
  <2>1. pc[a] = "idle" /\ UNCHANGED <<tasks, items, lost>>
    BY <1>3 DEF StartWork, StartAutoOpen, StartDone, Begin
  <2>2. \A b \in Agents : b # a => pc'[b] = pc[b] /\ target'[b] = target[b] /\ input'[b] = input[b]
    BY <1>3 DEF StartWork, StartAutoOpen, StartDone, Begin, TypeOK
  <2>3. ASSUME NEW b \in Agents, NEW q \in Receipts, NEW k \in Keys, WillWriteItem(b, q, k)
        PROVE  WillWriteItem(b, q, k)'
    BY <2>1, <2>2, <2>3 DEF WillWriteItem, KeysOf
  <2> QED BY <2>1, <2>3, ReachKept
<1>4. ASSUME NEW a \in Agents, Busy(a) \/ Fail(a) PROVE TasksReachItems'
  <2>1. CutShort(a)
    BY <1>4 DEF Busy, Fail
  <2>2. /\ UNCHANGED <<tasks, items, target, input>>
        /\ pc' = [pc EXCEPT ![a] = "idle"]
        /\ \A q \in Receipts : lost[q] \subseteq lost'[q]
    BY <2>1 DEF CutShort, TypeOK
  <2>3. ASSUME NEW b \in Agents, NEW q \in Receipts, NEW k \in Keys, WillWriteItem(b, q, k)
        PROVE  WillWriteItem(b, q, k)' \/ k \in lost'[q]
    <3>1. CASE b # a
      BY <2>2, <2>3, <3>1 DEF WillWriteItem, KeysOf, TypeOK
    <3>2. CASE b = a
      <4>1. kind[a] = "work"
        BY <2>3, <3>2 DEF WillWriteItem, CallsWellFormed, TypeOK
      <4> QED BY <2>1, <2>3, <3>2, <4>1 DEF WillWriteItem, CutShort, TypeOK
    <3> QED BY <3>1, <3>2
  <2> QED BY <2>2, <2>3, ReachKept
<1>5. ASSUME NEW a \in Agents, ReadBackRow(a) PROVE TasksReachItems'
  <2>1. UNCHANGED <<tasks, items, lost, target, input>>
    BY <1>5 DEF ReadBackRow
  <2>2. ASSUME NEW b \in Agents, NEW q \in Receipts, NEW k \in Keys, WillWriteItem(b, q, k)
        PROVE  WillWriteItem(b, q, k)'
    BY <1>5, <2>2 DEF WillWriteItem, ReadBackRow, CallsWellFormed, KeysOf, TypeOK
  <2> QED BY <2>1, <2>2, ReachKept
<1>6. ASSUME NEW a \in Agents, ReadBackTasks(a) PROVE TasksReachItems'
  <2>1. UNCHANGED <<tasks, items, lost, target, input>>
    BY <1>6 DEF ReadBackTasks
  <2>2. ASSUME NEW b \in Agents, NEW q \in Receipts, NEW k \in Keys, WillWriteItem(b, q, k)
        PROVE  WillWriteItem(b, q, k)'
    BY <1>6, <2>2 DEF WillWriteItem, ReadBackTasks, HasTasks, KeysOf, TypeOK
  <2> QED BY <2>1, <2>2, ReachKept
<1>7. ASSUME NEW a \in Agents,
             Precheck(a) \/ PlanRead(a) \/ SyncSkip(a) \/ SyncRead(a) \/ SyncWrite(a)
      PROVE  TasksReachItems'
  <2>1. UNCHANGED <<tasks, items, lost, target, input>> /\ pc[a] \notin BeforeItems
    BY <1>7 DEF Precheck, PlanRead, TxRead, SyncSkip, SyncRead, SyncWrite
  <2>2. \A b \in Agents : b # a => pc'[b] = pc[b]
    BY <1>7 DEF Precheck, PlanRead, TxRead, SyncSkip, SyncRead, SyncWrite, TypeOK
  <2>3. ASSUME NEW b \in Agents, NEW q \in Receipts, NEW k \in Keys, WillWriteItem(b, q, k)
        PROVE  WillWriteItem(b, q, k)'
    BY <2>1, <2>2, <2>3 DEF WillWriteItem, KeysOf
  <2> QED BY <2>1, <2>3, ReachKept
<1>8. ASSUME NEW r \in Receipts, OpenReceipt(r) PROVE TasksReachItems'
  BY <1>8 DEF OpenReceipt, TasksReachItems, KeysOf
<1>9. ASSUME UNCHANGED vars PROVE TasksReachItems'
  BY <1>9 DEF vars, TasksReachItems, KeysOf
<1> QED BY <1>1, <1>2, <1>3, <1>4, <1>5, <1>6, <1>7, <1>8, <1>9 DEF Next, Step

(* work.go:141-154: no task is stored without its work item, the row `done`
   reads, unless the call that brought it is under way or was cut short. *)
THEOREM EveryTaskReachesItems == Spec => []TasksReachItems
<1>1. Init => TasksReachItems
  BY DEF Init, TasksReachItems, EmptyTable
<1>2. TypeOK /\ CallsWellFormed /\ TasksReachItems /\ [Next]_vars => TasksReachItems'
  BY ReachNext
<1> QED BY <1>1, <1>2, TypeCorrect, CallsCorrect, PTL DEF Spec

-------------------------------------------------------------------------------
(* The auto-close.  AutoClosed is not inductive: it says nothing while a   *)
(* call runs.  AutoCloseInv names the call that will close a drifted plan: *)
(* the one that wrote it last, for whatever it reads back after its write  *)
(* still shows the drift.                                                  *)

WillClose(a, r) ==
    /\ kind[a] = "work" /\ target[a] = r
    /\ \/ pc[a] = "back_row"
       \/ pc[a] = "back_tasks" /\ back[a].row.status \notin TerminalStatuses
       \/ /\ pc[a] \in {"items_write", "sync", "sync_write"}
          /\ back[a].row.status \notin TerminalStatuses
          /\ AllTerminal(back[a].tasks)

AutoCloseInv ==
    \A r \in Receipts : Drift(r) /\ ~dirty[r] => \E a \in Agents : WillClose(a, r)

(* A step that writes no plan and takes no agent from its way to the auto-close. *)
LEMMA CloseKept ==
  ASSUME AutoCloseInv, UNCHANGED <<plan, tasks>>,
         \A r \in Receipts : dirty[r] => dirty'[r],
         \A a \in Agents, r \in Receipts :
             Drift(r) /\ WillClose(a, r) => WillClose(a, r)' \/ dirty'[r]
  PROVE  AutoCloseInv'
<1>1. \A r \in Receipts : Drift(r)' <=> Drift(r)
  BY DEF Drift, AllTerminal, StatusesIn
<1> QED BY <1>1 DEF AutoCloseInv

(* What the auto-close writes is terminal. *)
LEMMA SyncWritesTerminal ==
  ASSUME TypeOK, CallsWellFormed, NEW a \in Agents, pc[a] = "sync_write"
  PROVE  StoredRow(base[a], SyncInput(back[a]), tasks[target[a]]).status \in TerminalStatuses
<1>1. back[a] \in [row : Rows, tasks : Table]
  BY DEF TypeOK
<1>2. SyncInput(back[a]).status \in TerminalStatuses
      /\ SyncInput(back[a]).status # Absent
      /\ SyncInput(back[a]).mode = "merge"
  BY <1>1, SyncInputType DEF CallsWellFormed, TerminalStatuses, Absent
<1> QED BY <1>2 DEF StoredRow, BuildNextWorkPlanState, Coalesce

(* Every step keeps AutoCloseInv. *)
LEMMA AutoCloseNext ==
  ASSUME TypeOK, CallsWellFormed, AutoCloseInv, [Next]_vars
  PROVE  AutoCloseInv'
<1> USE DEF db, callVars, Goto
<1>1. ASSUME NEW a \in Agents, NEW r \in Receipts, r = target[a], PlanWrite(a)
      PROVE  AutoCloseInv'
  <2>1. /\ kind[a] = "work"
        /\ \A q \in Receipts : q # r => /\ plan'[q] = plan[q] /\ tasks'[q] = tasks[q]
                                       /\ dirty'[q] = dirty[q]
        /\ UNCHANGED <<kind, target, back>>
        /\ pc' = [pc EXCEPT ![a] = "back_row"] /\ pc[a] = "plan_write"
    BY <1>1 DEF PlanWrite, TypeOK, CallsWellFormed
  <2>2. WillClose(a, r)'
    BY <1>1, <2>1 DEF WillClose, TypeOK
  <2>3. ASSUME NEW q \in Receipts, q # r, Drift(q)', ~dirty'[q]
        PROVE  \E b \in Agents : WillClose(b, q)'
    <3>1. Drift(q) /\ ~dirty[q]
      BY <2>1, <2>3 DEF Drift, AllTerminal, StatusesIn
    <3>2. PICK b \in Agents : WillClose(b, q)
      BY <3>1 DEF AutoCloseInv
    <3>3. b # a
      BY <3>2, <2>3, <1>1 DEF WillClose
    <3>4. WillClose(b, q)'
      BY <3>2, <3>3, <2>1 DEF WillClose, TypeOK
    <3> QED BY <3>4
  <2> QED BY <2>2, <2>3 DEF AutoCloseInv
<1>2. ASSUME NEW a \in Agents, NEW r \in Receipts, r = target[a], SyncWrite(a)
      PROVE  AutoCloseInv'
  <2> DEFINE row == StoredRow(base[a], SyncInput(back[a]), tasks[r])
  <2>1. /\ plan' = [plan EXCEPT ![r] = row]
        /\ UNCHANGED <<tasks, dirty, kind, target, back>>
        /\ pc' = [pc EXCEPT ![a] = "idle"] /\ pc[a] = "sync_write"
    BY <1>2 DEF SyncWrite, TypeOK
  <2>2. row.status \in TerminalStatuses
    BY <1>2, <2>1, SyncWritesTerminal
  <2> HIDE DEF row
  <2>3. ~Drift(r)'
    BY <2>1, <2>2 DEF Drift, TypeOK
  <2>4. ASSUME NEW q \in Receipts, q # r, Drift(q)', ~dirty'[q]
        PROVE  \E b \in Agents : WillClose(b, q)'
    <3>1. Drift(q) /\ ~dirty[q]
      BY <2>1, <2>4 DEF Drift, AllTerminal, StatusesIn, TypeOK
    <3>2. PICK b \in Agents : WillClose(b, q)
      BY <3>1 DEF AutoCloseInv
    <3>3. b # a
      BY <3>2, <2>4, <1>2 DEF WillClose
    <3>4. WillClose(b, q)'
      BY <3>2, <3>3, <2>1 DEF WillClose, TypeOK
    <3> QED BY <3>4
  <2> QED BY <2>3, <2>4 DEF AutoCloseInv
<1>3. ASSUME NEW a \in Agents, ReadBackRow(a) PROVE AutoCloseInv'
  <2>1. UNCHANGED <<plan, tasks, dirty, kind, target>>
    BY <1>3 DEF ReadBackRow
  <2>2. ASSUME NEW b \in Agents, NEW q \in Receipts, Drift(q), WillClose(b, q)
        PROVE  WillClose(b, q)'
    <3>1. CASE b = a
      BY <1>3, <2>2, <3>1 DEF WillClose, ReadBackRow, CallsWellFormed, Drift, TypeOK
    <3>2. CASE b # a
      BY <1>3, <2>2, <3>2 DEF WillClose, ReadBackRow, TypeOK
    <3> QED BY <3>1, <3>2
  <2> QED BY <2>1, <2>2, CloseKept
<1>4. ASSUME NEW a \in Agents, ReadBackTasks(a) PROVE AutoCloseInv'
  <2>1. UNCHANGED <<plan, tasks, dirty, kind, target>>
    BY <1>4 DEF ReadBackTasks
  <2>2. ASSUME NEW b \in Agents, NEW q \in Receipts, Drift(q), WillClose(b, q)
        PROVE  WillClose(b, q)'
    <3>1. CASE b = a
      <4>1. kind[a] = "work" /\ back[a].row.status \notin TerminalStatuses /\ target[a] = q
        BY <1>4, <2>2, <3>1 DEF WillClose, ReadBackTasks
      <4>2. back'[a].row = back[a].row /\ back'[a].tasks = tasks[q]
        BY <1>4, <4>1 DEF ReadBackTasks, TypeOK
      <4>3. pc'[a] \in {"items_write", "sync"}
        BY <1>4 DEF ReadBackTasks, TypeOK
      <4> QED BY <4>1, <4>2, <4>3, <2>1, <2>2, <3>1 DEF WillClose, Drift
    <3>2. CASE b # a
      BY <1>4, <2>2, <3>2 DEF WillClose, ReadBackTasks, TypeOK
    <3> QED BY <3>1, <3>2
  <2> QED BY <2>1, <2>2, CloseKept
<1>5. ASSUME NEW a \in Agents, WriteItems(a) \/ SyncRead(a) PROVE AutoCloseInv'
  <2>1. UNCHANGED <<plan, tasks, dirty, kind, target, back>>
    BY <1>5 DEF WriteItems, SyncRead, TxRead
  <2>2. ASSUME NEW b \in Agents, NEW q \in Receipts, Drift(q), WillClose(b, q)
        PROVE  WillClose(b, q)'
    BY <1>5, <2>1, <2>2 DEF WillClose, WriteItems, SyncRead, TxRead, TypeOK
  <2> QED BY <2>1, <2>2, CloseKept
<1>6. ASSUME NEW a \in Agents, SyncSkip(a) PROVE AutoCloseInv'
  <2>1. UNCHANGED <<plan, tasks, dirty, kind, target, back>>
    BY <1>6 DEF SyncSkip
  <2>2. \A q \in Receipts : ~WillClose(a, q)
    <3>1. back[a] \in [row : Rows, tasks : Table]
      BY DEF TypeOK
    <3>2. AllTerminal(back[a].tasks) => SyncInput(back[a]).status \in TerminalStatuses
      BY <3>1, SyncInputType, DerivedTerminal
    <3> QED BY <1>6, <3>2 DEF SyncSkip, NeedsSync, WillClose
  <2>3. ASSUME NEW b \in Agents, NEW q \in Receipts, Drift(q), WillClose(b, q)
        PROVE  WillClose(b, q)'
    <3>1. b # a
      BY <2>2, <2>3
    <3> QED BY <1>6, <2>1, <2>3, <3>1 DEF WillClose, SyncSkip, TypeOK
  <2> QED BY <2>1, <2>3, CloseKept
<1>7. ASSUME NEW a \in Agents, Busy(a) \/ Fail(a) PROVE AutoCloseInv'
  <2>1. CutShort(a)
    BY <1>7 DEF Busy, Fail
  <2>2. /\ UNCHANGED <<plan, tasks, kind, target, back>>
        /\ pc' = [pc EXCEPT ![a] = "idle"]
        /\ \A q \in Receipts : dirty[q] => dirty'[q]
    BY <2>1 DEF CutShort, TypeOK
  <2>3. ASSUME NEW b \in Agents, NEW q \in Receipts, Drift(q), WillClose(b, q)
        PROVE  WillClose(b, q)' \/ dirty'[q]
    <3>1. CASE b = a
      BY <2>1, <2>3, <3>1 DEF WillClose, CutShort, AfterPlanWrite, BeforeItems, TypeOK
    <3>2. CASE b # a
      BY <2>2, <2>3, <3>2 DEF WillClose, TypeOK
    <3> QED BY <3>1, <3>2
  <2> QED BY <2>2, <2>3, CloseKept
<1>8. ASSUME NEW a \in Agents, NEW r \in Receipts, NEW in,
             StartWork(a, r, in) \/ StartAutoOpen(a, r, in) \/ StartDone(a, r)
      PROVE  AutoCloseInv'
  <2>1. pc[a] = "idle" /\ UNCHANGED <<plan, tasks, dirty, back>>
    BY <1>8 DEF StartWork, StartAutoOpen, StartDone, Begin
  <2>2. \A b \in Agents : b # a => pc'[b] = pc[b] /\ kind'[b] = kind[b] /\ target'[b] = target[b]
    BY <1>8 DEF StartWork, StartAutoOpen, StartDone, Begin, TypeOK
  <2>3. ASSUME NEW b \in Agents, NEW q \in Receipts, Drift(q), WillClose(b, q)
        PROVE  WillClose(b, q)'
    BY <2>1, <2>2, <2>3 DEF WillClose
  <2> QED BY <2>1, <2>3, CloseKept
<1>9. ASSUME NEW a \in Agents, Precheck(a) \/ PlanRead(a) PROVE AutoCloseInv'
  <2>1. UNCHANGED <<plan, tasks, dirty, kind, target, back>>
    BY <1>9 DEF Precheck, PlanRead, TxRead
  <2>2. ASSUME NEW b \in Agents, NEW q \in Receipts, Drift(q), WillClose(b, q)
        PROVE  WillClose(b, q)'
    BY <1>9, <2>1, <2>2 DEF WillClose, Precheck, PlanRead, TxRead, TypeOK
  <2> QED BY <2>1, <2>2, CloseKept
<1>10. ASSUME NEW r \in Receipts, OpenReceipt(r) PROVE AutoCloseInv'
  <2>1. UNCHANGED <<plan, tasks, dirty, pc, kind, target, back>>
    BY <1>10 DEF OpenReceipt
  <2> QED BY <2>1, CloseKept DEF WillClose
<1>11. ASSUME UNCHANGED vars PROVE AutoCloseInv'
  BY <1>11, CloseKept DEF vars, WillClose
<1>12. \A a \in Agents : target[a] \in Receipts
  BY DEF TypeOK
<1> QED
  BY <1>1, <1>2, <1>3, <1>4, <1>5, <1>6, <1>7, <1>8, <1>9, <1>10, <1>11, <1>12 DEF Next, Step

(* work_plan_lifecycle.go and plan_diagnostics.go:76-79: however many calls
   interleave, a plan at rest whose tasks are all terminal is terminal, unless
   the call that wrote it last was cut short. *)
THEOREM PlansAreAutoClosed == Spec => []AutoClosed
<1>1. Init => AutoCloseInv
  BY DEF Init, AutoCloseInv, Drift, AllTerminal, StatusesIn, EmptyTable
<1>2. TypeOK /\ CallsWellFormed /\ AutoCloseInv /\ [Next]_vars => AutoCloseInv'
  BY AutoCloseNext
<1>3. AutoCloseInv => AutoClosed
  BY DEF AutoCloseInv, AutoClosed, Idle, WillClose
<1> QED BY <1>1, <1>2, <1>3, TypeCorrect, CallsCorrect, PTL DEF Spec

-------------------------------------------------------------------------------
(* Calls that run one after the other.                                     *)

Active(a, r) == target[a] = r /\ pc[a] # "idle"

(* On a receipt whose calls never overlapped, at most one is under way. *)
Alone ==
    \A r \in Receipts : ~overlap[r] =>
        \A a, b \in Agents : Active(a, r) /\ Active(b, r) => a = b

(* The task and the item of a key say the same, or the item was never written. *)
Agree(r, k) == tasks[r][k] # Absent => items[r][k] = tasks[r][k] \/ k \in lost[r]

(* The tables agree but for what the one call under way will write, which is
   what it has put into the plan's tasks. *)
MatchInv ==
    \A r \in Receipts, k \in Keys : ~overlap[r] =>
        /\ Agree(r, k) \/ \E a \in Agents : WillWriteItem(a, r, k)
        /\ \A a \in Agents : WillWriteItem(a, r, k) => tasks[r][k] = input[a].tasks[k]

(* What a call hands to the auto-close is still what is stored. *)
BackInv ==
    \A a \in Agents : ~overlap[target[a]] =>
        /\ pc[a] \in {"back_tasks", "items_write", "sync", "sync_write"}
              => back[a].row = plan[target[a]]
        /\ pc[a] \in {"items_write", "sync", "sync_write"}
              => back[a].tasks = IF kind[a] = "done" THEN items[target[a]] ELSE tasks[target[a]]

SeqInv == Alone /\ MatchInv /\ BackInv

(* Nothing is stored and no call runs at the start. *)
LEMMA SeqInit == ASSUME Init PROVE SeqInv
<1>1. Alone
  BY DEF Init, Alone, Active
<1>2. MatchInv
  BY DEF Init, MatchInv, Agree, WillWriteItem, BeforeItems, EmptyTable
<1>3. BackInv
  BY DEF Init, BackInv
<1> QED BY <1>1, <1>2, <1>3 DEF SeqInv

(* A call that begins: the rest of the state, as the three parts see it. *)
LEMMA BeginFrame ==
  ASSUME TypeOK, NEW a \in Agents, NEW r \in Receipts, NEW in,
         StartWork(a, r, in) \/ StartAutoOpen(a, r, in) \/ StartDone(a, r)
  PROVE  /\ pc[a] = "idle" /\ target'[a] = r
         /\ pc'[a] \in {"precheck", "plan_read", "back_row"}
         /\ pc'[a] = "back_row" => KeysOf(input[a])' = {}
         /\ UNCHANGED <<plan, tasks, items, back, lost, dirty>>
         /\ \A b \in Agents \ {a} : UNCHANGED <<pc[b], kind[b], target[b], input[b]>>
         /\ \A q \in Receipts : overlap[q] => overlap'[q]
         /\ ~overlap'[r] => Idle(r)
<1>1. /\ pc[a] = "idle" /\ target'[a] = r
      /\ UNCHANGED <<plan, tasks, items, back, lost, dirty>>
      /\ \A b \in Agents \ {a} : UNCHANGED <<pc[b], kind[b], target[b], input[b]>>
  BY DEF StartWork, StartAutoOpen, StartDone, Begin, Goto, TypeOK
<1>2. pc'[a] \in {"precheck", "plan_read", "back_row"}
  BY DEF StartWork, StartAutoOpen, StartDone, Goto, TypeOK
<1>3. pc'[a] = "back_row" => input'[a] = NoInput
  BY DEF StartWork, StartAutoOpen, StartDone, Begin, Goto, TypeOK
<1>4. pc'[a] = "back_row" => KeysOf(input[a])' = {}
  BY <1>3, NoInputKeys DEF KeysOf
<1>5. overlap' = [overlap EXCEPT ![r] = @ \/ ~Idle(r)]
  BY DEF StartWork, StartAutoOpen, StartDone, Begin
<1>6. (\A q \in Receipts : overlap[q] => overlap'[q]) /\ (~overlap'[r] => Idle(r))
  <2>1. overlap'[r] = (overlap[r] \/ ~Idle(r))
    BY <1>5 DEF TypeOK
  <2>2. \A q \in Receipts : q # r => overlap'[q] = overlap[q]
    BY <1>5 DEF TypeOK
  <2> QED BY <2>1, <2>2
<1> QED BY <1>1, <1>2, <1>4, <1>6

(* The steps of a call, of its end and of `context`: nobody becomes active. *)
LEMMA StepFrame ==
  ASSUME TypeOK, NEW a \in Agents, Step(a) \/ Fail(a)
  PROVE  /\ pc[a] # "idle" /\ UNCHANGED <<kind, target, input, overlap>>
         /\ \A b \in Agents \ {a} : UNCHANGED <<pc[b], back[b]>>
  BY DEF Step, Fail, Precheck, PlanRead, TxRead, PlanWrite, ReadBackRow, ReadBackTasks,
     WriteItems, SyncSkip, SyncRead, SyncWrite, Busy, CutShort, Goto, callVars, TypeOK

(* Only the start of a call adds one, and it records whether another runs. *)
LEMMA AloneNext == ASSUME TypeOK, Alone, [Next]_vars PROVE Alone'
<1>1. ASSUME NEW a \in Agents, NEW r \in Receipts, NEW in,
             StartWork(a, r, in) \/ StartAutoOpen(a, r, in) \/ StartDone(a, r)
      PROVE  Alone'
  <2>1. /\ pc[a] = "idle" /\ target'[a] = r
        /\ \A b \in Agents \ {a} : pc'[b] = pc[b] /\ target'[b] = target[b]
        /\ \A q \in Receipts : overlap[q] => overlap'[q]
        /\ ~overlap'[r] => Idle(r)
    BY <1>1, BeginFrame
  <2> SUFFICES ASSUME NEW q \in Receipts, ~overlap'[q], NEW b \in Agents, NEW c \in Agents,
                      Active(b, q)', Active(c, q)'
               PROVE  b = c
    BY DEF Alone
  <2>2. CASE q = r
    <3>1. \A d \in Agents \ {a} : ~Active(d, r)'
      BY <2>1, <2>2 DEF Active, Idle
    <3> QED BY <3>1, <2>2
  <2>3. CASE q # r
    <3>1. b # a /\ c # a
      BY <2>1, <2>3 DEF Active
    <3>2. Active(b, q) /\ Active(c, q)
      BY <2>1, <3>1 DEF Active
    <3> QED BY <2>1, <3>2 DEF Alone
  <2> QED BY <2>2, <2>3
<1>2. ASSUME NEW a \in Agents, Step(a) \/ Fail(a) PROVE Alone'
  <2>1. /\ pc[a] # "idle" /\ UNCHANGED <<target, overlap>>
        /\ \A b \in Agents \ {a} : pc'[b] = pc[b]
    BY <1>2, StepFrame
  <2>2. \A b \in Agents, q \in Receipts : Active(b, q)' => Active(b, q)
    BY <2>1 DEF Active
  <2> QED BY <2>1, <2>2 DEF Alone
<1>3. ASSUME NEW r \in Receipts, OpenReceipt(r) PROVE Alone'
  BY <1>3 DEF OpenReceipt, callVars, Alone, Active
<1>4. ASSUME UNCHANGED vars PROVE Alone'
  BY <1>4 DEF vars, Alone, Active
<1> QED BY <1>1, <1>2, <1>3, <1>4 DEF Next

(* A step that writes neither table, drops no lost key, and neither takes an
   agent from its way to UpsertWorkItems nor puts one on it. *)
LEMMA MatchKept ==
  ASSUME MatchInv, UNCHANGED <<tasks, items>>,
         \A r \in Receipts : lost[r] \subseteq lost'[r] /\ (overlap[r] => overlap'[r]),
         \A a \in Agents, r \in Receipts, k \in Keys :
            /\ WillWriteItem(a, r, k) => WillWriteItem(a, r, k)' \/ k \in lost'[r]
            /\ WillWriteItem(a, r, k)' => WillWriteItem(a, r, k) /\ input'[a] = input[a]
  PROVE  MatchInv'
<1> SUFFICES ASSUME NEW r \in Receipts, NEW k \in Keys, ~overlap'[r]
             PROVE  /\ Agree(r, k)' \/ \E a \in Agents : WillWriteItem(a, r, k)'
                    /\ \A a \in Agents : WillWriteItem(a, r, k)' => tasks'[r][k] = input'[a].tasks[k]
  BY DEF MatchInv
<1>1. /\ Agree(r, k) \/ \E a \in Agents : WillWriteItem(a, r, k)
      /\ \A a \in Agents : WillWriteItem(a, r, k) => tasks[r][k] = input[a].tasks[k]
  BY DEF MatchInv
<1>2. k \in lost'[r] => Agree(r, k)'
  BY DEF Agree
<1>3. Agree(r, k) => Agree(r, k)'
  BY DEF Agree
<1> QED BY <1>1, <1>2, <1>3

(* The plan write puts the call on its way, the item write ends it. *)
LEMMA MatchNext ==
  ASSUME TypeOK, CallsWellFormed, Alone, MatchInv, [Next]_vars
  PROVE  MatchInv'
<1> USE DEF db, callVars, Goto, BeforeItems
<1>1. ASSUME NEW a \in Agents, NEW r \in Receipts, r = target[a], PlanWrite(a) PROVE MatchInv'
  <2> DEFINE new == MergeTasks(tasks[r], input[a])
  <2>1. /\ tasks' = [tasks EXCEPT ![r] = new]
        /\ UNCHANGED <<items, lost, target, input, overlap>>
        /\ pc' = [pc EXCEPT ![a] = "back_row"] /\ pc[a] = "plan_write"
    BY <1>1 DEF PlanWrite
  <2>2. \A b \in Agents, q \in Receipts, k \in Keys :
            WillWriteItem(b, q, k)' <=>
               WillWriteItem(b, q, k) \/ (b = a /\ q = r /\ k \in KeysOf(input[a]))
    BY <1>1, <2>1 DEF WillWriteItem, TypeOK, KeysOf
  <2> SUFFICES ASSUME NEW q \in Receipts, NEW k \in Keys, ~overlap[q]
               PROVE  /\ Agree(q, k)' \/ \E b \in Agents : WillWriteItem(b, q, k)'
                      /\ \A b \in Agents :
                            WillWriteItem(b, q, k)' => tasks'[q][k] = input'[b].tasks[k]
    BY <2>1 DEF MatchInv
  <2>3. /\ Agree(q, k) \/ \E b \in Agents : WillWriteItem(b, q, k)
        /\ \A b \in Agents : WillWriteItem(b, q, k) => tasks[q][k] = input[b].tasks[k]
    BY DEF MatchInv
  <2>4. CASE q # r
    <3>1. tasks'[q] = tasks[q]
      BY <2>1, <2>4 DEF TypeOK
    <3>2. Agree(q, k)' <=> Agree(q, k)
      BY <2>1, <3>1 DEF Agree
    <3> QED BY <2>1, <2>2, <2>3, <2>4, <3>1, <3>2
  <2>5. CASE q = r
    <3>1. \A b \in Agents : ~WillWriteItem(b, r, k)
      <4>1. ASSUME NEW b \in Agents, WillWriteItem(b, r, k) PROVE FALSE
        <5>1. Active(a, r) /\ Active(b, r)
          BY <1>1, <2>1, <4>1 DEF Active, WillWriteItem
        <5>2. a = b
          BY <2>5, <5>1 DEF Alone
        <5> QED BY <2>1, <4>1, <5>2 DEF WillWriteItem
      <4> QED BY <4>1
    <3>2. Agree(r, k)
      BY <2>3, <2>5, <3>1
    <3>3. tasks'[r][k] = IF input[a].tasks[k] # Absent THEN input[a].tasks[k]
                         ELSE IF input[a].mode = "replace" THEN Absent ELSE tasks[r][k]
      BY <2>1 DEF TypeOK, MergeTasks
    <3>4. CASE k \in KeysOf(input[a])
      <4>1. WillWriteItem(a, r, k)'
        BY <2>2, <3>4
      <4>2. tasks'[r][k] = input[a].tasks[k]
        BY <3>3, <3>4 DEF KeysOf
      <4> QED BY <2>1, <2>2, <2>5, <3>1, <4>1, <4>2
    <3>5. CASE k \notin KeysOf(input[a])
      <4>1. input[a].tasks[k] = Absent
        BY <3>5 DEF KeysOf
      <4>2. Agree(r, k)'
        BY <2>1, <3>2, <3>3, <4>1 DEF Agree
      <4> QED BY <2>2, <2>5, <3>1, <3>5, <4>2
    <3> QED BY <3>4, <3>5
  <2> QED BY <2>4, <2>5
<1>2. ASSUME NEW a \in Agents, NEW r \in Receipts, r = target[a], WriteItems(a) PROVE MatchInv'
  <2> DEFINE new == UpsertItems(items[r], input[a])
  <2>1. /\ items' = [items EXCEPT ![r] = new]
        /\ lost' = [lost EXCEPT ![r] = @ \ KeysOf(input[a])]
        /\ UNCHANGED <<tasks, target, input, overlap>>
        /\ pc' = [pc EXCEPT ![a] = "sync"] /\ pc[a] = "items_write"
    BY <1>2 DEF WriteItems
  <2>2. \A b \in Agents, q \in Receipts, k \in Keys :
            WillWriteItem(b, q, k)' <=> WillWriteItem(b, q, k) /\ b # a
    BY <2>1 DEF WillWriteItem, TypeOK, KeysOf
  <2> SUFFICES ASSUME NEW q \in Receipts, NEW k \in Keys, ~overlap[q]
               PROVE  /\ Agree(q, k)' \/ \E b \in Agents : WillWriteItem(b, q, k)'
                      /\ \A b \in Agents :
                            WillWriteItem(b, q, k)' => tasks'[q][k] = input'[b].tasks[k]
    BY <2>1 DEF MatchInv
  <2>3. /\ Agree(q, k) \/ \E b \in Agents : WillWriteItem(b, q, k)
        /\ \A b \in Agents : WillWriteItem(b, q, k) => tasks[q][k] = input[b].tasks[k]
    BY DEF MatchInv
  <2>4. \A b \in Agents : WillWriteItem(b, q, k)' => tasks'[q][k] = input'[b].tasks[k]
    BY <2>1, <2>2, <2>3
  <2>5. CASE q # r
    <3>1. items'[q] = items[q] /\ lost'[q] = lost[q]
      BY <2>1, <2>5 DEF TypeOK
    <3>2. Agree(q, k)' <=> Agree(q, k)
      BY <2>1, <3>1 DEF Agree
    <3>3. ~WillWriteItem(a, q, k)
      BY <1>2, <2>5 DEF WillWriteItem
    <3> QED BY <2>2, <2>3, <2>4, <3>2, <3>3
  <2>6. CASE q = r
    <3>1. \A b \in Agents : WillWriteItem(b, r, k) => b = a
      <4>1. ASSUME NEW b \in Agents, WillWriteItem(b, r, k) PROVE b = a
        <5>1. Active(a, r) /\ Active(b, r)
          BY <1>2, <2>1, <4>1 DEF Active, WillWriteItem
        <5> QED BY <2>6, <5>1 DEF Alone
      <4> QED BY <4>1
    <3>2. items'[r][k] = IF input[a].tasks[k] # Absent THEN input[a].tasks[k] ELSE items[r][k]
      BY <2>1 DEF TypeOK, UpsertItems, Coalesce
    <3>3. CASE k \in KeysOf(input[a])
      <4>1. WillWriteItem(a, r, k)
        BY <1>2, <2>1, <3>3 DEF WillWriteItem
      <4>2. items'[r][k] = tasks[r][k]
        BY <2>3, <2>6, <3>2, <3>3, <4>1 DEF KeysOf
      <4> QED BY <2>1, <2>4, <2>6, <4>2 DEF Agree
    <3>4. CASE k \notin KeysOf(input[a])
      <4>1. ~WillWriteItem(a, r, k)
        BY <3>4 DEF WillWriteItem
      <4>2. Agree(r, k)
        BY <2>3, <2>6, <3>1, <4>1
      <4>3. items'[r][k] = items[r][k]
        BY <3>2, <3>4 DEF KeysOf
      <4>4. k \in lost[r] => k \in lost'[r]
        BY <2>1, <3>4 DEF TypeOK
      <4> QED BY <2>1, <2>4, <2>6, <4>2, <4>3, <4>4 DEF Agree
    <3> QED BY <3>3, <3>4
  <2> QED BY <2>5, <2>6
<1>3. ASSUME NEW a \in Agents, NEW r \in Receipts, NEW in,
             StartWork(a, r, in) \/ StartAutoOpen(a, r, in) \/ StartDone(a, r)
      PROVE  MatchInv'
  <2>1. /\ pc[a] = "idle" /\ pc'[a] \in {"precheck", "plan_read", "back_row"}
        /\ pc'[a] = "back_row" => KeysOf(input[a])' = {}
        /\ UNCHANGED <<tasks, items, lost>>
        /\ \A b \in Agents \ {a} : UNCHANGED <<pc[b], target[b], input[b]>>
        /\ \A q \in Receipts : overlap[q] => overlap'[q]
    BY <1>3, BeginFrame
  <2>2. \A q \in Receipts, k \in Keys : ~WillWriteItem(a, q, k) /\ ~WillWriteItem(a, q, k)'
    BY <2>1 DEF WillWriteItem
  <2>3. \A b \in Agents \ {a}, q \in Receipts, k \in Keys :
            (WillWriteItem(b, q, k)' <=> WillWriteItem(b, q, k)) /\ input'[b] = input[b]
    BY <2>1 DEF WillWriteItem, KeysOf
  <2> QED BY <2>1, <2>2, <2>3, MatchKept
<1>4. ASSUME NEW a \in Agents, Busy(a) \/ Fail(a) PROVE MatchInv'
  <2>1. CutShort(a)
    BY <1>4 DEF Busy, Fail
  <2>2. /\ UNCHANGED <<tasks, items, target, input, overlap>>
        /\ pc' = [pc EXCEPT ![a] = "idle"]
        /\ \A q \in Receipts : lost[q] \subseteq lost'[q]
    BY <2>1 DEF CutShort, TypeOK
  <2>3. ASSUME NEW b \in Agents, NEW q \in Receipts, NEW k \in Keys
        PROVE  /\ WillWriteItem(b, q, k) => WillWriteItem(b, q, k)' \/ k \in lost'[q]
               /\ WillWriteItem(b, q, k)' => WillWriteItem(b, q, k) /\ input'[b] = input[b]
    <3>1. CASE b # a
      BY <2>2, <3>1 DEF WillWriteItem, KeysOf, TypeOK
    <3>2. CASE b = a
      <4>1. ASSUME WillWriteItem(a, q, k) PROVE k \in lost'[q]
        <5>1. kind[a] = "work"
          BY <4>1 DEF WillWriteItem, CallsWellFormed, TypeOK
        <5> QED BY <2>1, <4>1, <5>1 DEF WillWriteItem, CutShort, TypeOK
      <4>2. ~WillWriteItem(a, q, k)'
        BY <2>2 DEF WillWriteItem, TypeOK
      <4> QED BY <3>2, <4>1, <4>2
    <3> QED BY <3>1, <3>2
  <2> QED BY <2>2, <2>3, MatchKept
<1>5. ASSUME NEW a \in Agents, ReadBackRow(a) \/ ReadBackTasks(a) PROVE MatchInv'
  <2>1. UNCHANGED <<tasks, items, lost, target, input, overlap>>
    BY <1>5 DEF ReadBackRow, ReadBackTasks
  <2>2. ASSUME NEW b \in Agents, NEW q \in Receipts, NEW k \in Keys
        PROVE  WillWriteItem(b, q, k)' <=> WillWriteItem(b, q, k)
    <3>1. CASE b # a
      BY <1>5, <2>1, <3>1 DEF WillWriteItem, ReadBackRow, ReadBackTasks, KeysOf, TypeOK
    <3>2. CASE b = a
      BY <1>5, <2>1, <3>2 DEF WillWriteItem, ReadBackRow, ReadBackTasks, CallsWellFormed,
         HasTasks, KeysOf, TypeOK
    <3> QED BY <3>1, <3>2
  <2> QED BY <2>1, <2>2, MatchKept
<1>6. ASSUME NEW a \in Agents,
             Precheck(a) \/ PlanRead(a) \/ SyncSkip(a) \/ SyncRead(a) \/ SyncWrite(a)
      PROVE  MatchInv'
  <2>1. /\ UNCHANGED <<tasks, items, lost, target, input, overlap>>
        /\ pc[a] \notin BeforeItems /\ pc'[a] \notin BeforeItems
    BY <1>6 DEF Precheck, PlanRead, TxRead, SyncSkip, SyncRead, SyncWrite, TypeOK
  <2>2. \A b \in Agents : b # a => pc'[b] = pc[b]
    BY <1>6 DEF Precheck, PlanRead, TxRead, SyncSkip, SyncRead, SyncWrite, TypeOK
  <2>3. \A b \in Agents, q \in Receipts, k \in Keys :
            WillWriteItem(b, q, k)' <=> WillWriteItem(b, q, k)
    BY <2>1, <2>2 DEF WillWriteItem, KeysOf
  <2> QED BY <2>1, <2>3, MatchKept
<1>7. ASSUME UNCHANGED <<tasks, items, lost, target, input, overlap, pc>> PROVE MatchInv'
  <2>1. \A b \in Agents, q \in Receipts, k \in Keys :
            WillWriteItem(b, q, k)' <=> WillWriteItem(b, q, k)
    BY <1>7 DEF WillWriteItem, KeysOf
  <2> QED BY <1>7, <2>1, MatchKept
<1>8. \A a \in Agents : target[a] \in Receipts
  BY DEF TypeOK
<1> QED BY <1>1, <1>2, <1>3, <1>4, <1>5, <1>6, <1>7, <1>8 DEF Next, Step, OpenReceipt, vars

(* Whoever else writes a table on the receipt would have overlapped the call. *)
LEMMA BackNext ==
  ASSUME TypeOK, CallsWellFormed, Alone, BackInv, [Next]_vars
  PROVE  BackInv'
<1> DEFINE Row(b) == pc[b] \in {"back_tasks", "items_write", "sync", "sync_write"}
                        => back[b].row = plan[target[b]]
           Tab(b) == pc[b] \in {"items_write", "sync", "sync_write"}
                        => back[b].tasks = IF kind[b] = "done" THEN items[target[b]]
                                           ELSE tasks[target[b]]
<1>1. ASSUME NEW a \in Agents, NEW r \in Receipts, NEW in,
             StartWork(a, r, in) \/ StartAutoOpen(a, r, in) \/ StartDone(a, r)
      PROVE  BackInv'
  <2>1. /\ target'[a] = r /\ pc'[a] \in {"precheck", "plan_read", "back_row"}
        /\ UNCHANGED <<plan, tasks, items, back>>
        /\ \A b \in Agents \ {a} : UNCHANGED <<pc[b], kind[b], target[b]>>
        /\ \A q \in Receipts : overlap[q] => overlap'[q]
    BY <1>1, BeginFrame
  <2>2. \A b \in Agents : target[b] \in Receipts
    BY DEF TypeOK
  <2> QED BY <2>1, <2>2 DEF BackInv
<1>2. ASSUME NEW a \in Agents, Step(a) \/ Fail(a) PROVE BackInv'
  <2>1. /\ pc[a] # "idle" /\ UNCHANGED <<kind, target, overlap>>
        /\ \A b \in Agents \ {a} : UNCHANGED <<pc[b], back[b]>>
    BY <1>2, StepFrame
  <2>2. \A q \in Receipts : q # target[a] => UNCHANGED <<plan[q], tasks[q], items[q]>>
    BY <1>2 DEF Step, Fail, Precheck, PlanRead, TxRead, PlanWrite, ReadBackRow, ReadBackTasks,
       WriteItems, SyncSkip, SyncRead, SyncWrite, Busy, CutShort, db, TypeOK
  <2> SUFFICES ASSUME NEW b \in Agents, ~overlap[target[b]]
               PROVE  Row(b)' /\ Tab(b)'
    BY <2>1 DEF BackInv
  <2>3. Row(b) /\ Tab(b) /\ target[b] \in Receipts
    BY DEF BackInv, TypeOK
  <2>4. CASE b # a
    <3>1. target[b] # target[a] \/ pc[b] = "idle"
      BY <2>1, <2>3, <2>4 DEF Alone, Active
    <3>2. CASE pc[b] = "idle"
      BY <2>1, <2>4, <3>2
    <3>3. CASE target[b] # target[a]
      BY <2>1, <2>2, <2>3, <2>4, <3>3
    <3> QED BY <3>1, <3>2, <3>3
  <2>5. CASE b = a
    <3>1. CASE ReadBackRow(a)
      <4>1. /\ UNCHANGED <<plan, target>> /\ pc'[a] \in {"idle", "back_tasks"}
            /\ back'[a].row = plan[target[a]]
        BY <3>1 DEF ReadBackRow, Goto, db, callVars, TypeOK
      <4> QED BY <2>5, <4>1
    <3>2. CASE ReadBackTasks(a)
      <4>1. /\ UNCHANGED <<plan, tasks, items, kind, target>> /\ pc[a] = "back_tasks"
            /\ back'[a].row = back[a].row
            /\ back'[a].tasks = IF kind[a] = "done" THEN items[target[a]] ELSE tasks[target[a]]
        BY <3>2 DEF ReadBackTasks, db, callVars, TypeOK
      <4> QED BY <2>3, <2>5, <4>1
    <3>3. CASE WriteItems(a)
      <4>1. UNCHANGED <<plan, tasks, kind, target, back>> /\ pc[a] = "items_write"
        BY <3>3 DEF WriteItems, callVars
      <4>2. kind[a] = "work"
        BY <4>1 DEF CallsWellFormed
      <4> QED BY <2>3, <2>5, <4>1, <4>2
    <3>4. CASE SyncRead(a)
      <4>1. UNCHANGED <<plan, tasks, items, kind, target, back>> /\ pc[a] = "sync"
        BY <3>4 DEF SyncRead, TxRead, db, callVars
      <4> QED BY <2>3, <2>5, <4>1
    <3>5. CASE \/ Precheck(a) \/ PlanRead(a) \/ PlanWrite(a) \/ SyncSkip(a) \/ SyncWrite(a)
               \/ Busy(a) \/ Fail(a)
      <4>1. pc'[a] \in {"idle", "plan_read", "plan_write", "back_row"}
        BY <3>5 DEF Precheck, PlanRead, TxRead, PlanWrite, SyncSkip, SyncWrite, Busy, Fail,
           CutShort, Goto, TypeOK
      <4> QED BY <2>5, <4>1
    <3> QED BY <1>2, <3>1, <3>2, <3>3, <3>4, <3>5 DEF Step
  <2> QED BY <2>4, <2>5
<1>3. ASSUME UNCHANGED <<plan, tasks, items, kind, target, back, pc, overlap>> PROVE BackInv'
  BY <1>3 DEF BackInv
<1> QED BY <1>1, <1>2, <1>3 DEF Next, OpenReceipt, callVars, vars

(* The three parts hold in every reachable state. *)
THEOREM SequentialCalls == Spec => []SeqInv
<1>1. Init => SeqInv
  BY SeqInit
<1>2. TypeOK /\ CallsWellFormed /\ SeqInv /\ [Next]_vars => SeqInv'
  BY AloneNext, MatchNext, BackNext DEF SeqInv
<1> QED BY <1>1, <1>2, TypeCorrect, CallsCorrect, PTL DEF Spec

(* work.go:113-154: while the calls on a receipt run one after the other, the
   work items that `done` reads agree at rest with the tasks of the plan, but
   for keys whose second write was cut short. *)
THEOREM ItemsFollowTasks == Spec => []ItemsAgreeWithTasks
<1>1. TypeOK /\ SeqInv => ItemsAgreeWithTasks
  <2> SUFFICES ASSUME TypeOK, SeqInv, NEW r \in Receipts, NEW k \in Keys,
                      Idle(r), ~overlap[r], tasks[r][k] # Absent
               PROVE  items[r][k] = tasks[r][k] \/ k \in lost[r]
    BY DEF ItemsAgreeWithTasks
  <2>1. \A a \in Agents : ~WillWriteItem(a, r, k)
    BY DEF Idle, WillWriteItem, BeforeItems
  <2> QED BY <2>1 DEF SeqInv, MatchInv, Agree
<1> QED BY <1>1, TypeCorrect, SequentialCalls, PTL

-------------------------------------------------------------------------------
(* What the auto-close of calls that follow one another writes.            *)

(* The tasks a call decides from, as far as their items were not lost. *)
LEMMA BackTasksMatch ==
  ASSUME TypeOK, CallsWellFormed, SeqInv, NEW a \in Agents, ~overlap[target[a]],
         pc[a] \in {"sync", "sync_write"}, NEW k \in Keys,
         tasks[target[a]][k] # Absent, kind[a] = "done" => k \notin lost[target[a]]
  PROVE  back[a].tasks[k] = tasks[target[a]][k]
<1> DEFINE r == target[a]
<1>1. r \in Receipts
  BY DEF TypeOK
<1>2. CASE kind[a] # "done"
  BY <1>2 DEF SeqInv, BackInv
<1>3. CASE kind[a] = "done"
  <2>1. back[a].tasks = items[r]
    BY <1>3 DEF SeqInv, BackInv
  <2>2. \A b \in Agents : ~WillWriteItem(b, r, k)
    <3> SUFFICES ASSUME NEW b \in Agents, WillWriteItem(b, r, k) PROVE FALSE
      OBVIOUS
    <3>1. Active(a, r) /\ Active(b, r)
      BY DEF Active, WillWriteItem, BeforeItems
    <3>2. a = b
      BY <1>1, <3>1 DEF SeqInv, Alone
    <3> QED BY <3>2 DEF WillWriteItem, BeforeItems
  <2> QED BY <1>1, <1>3, <2>1, <2>2 DEF SeqInv, MatchInv, Agree
<1> QED BY <1>2, <1>3

(* The stage the auto-close stores is that of the stage task. *)
LEMMA SyncStage ==
  ASSUME TypeOK, NEW a \in Agents, back[a].tasks[StageKey] # Absent
  PROVE  /\ SyncInput(back[a]).stage = back[a].tasks[StageKey]
         /\ \A table : StoredRow(base[a], SyncInput(back[a]), table).stage = back[a].tasks[StageKey]
<1>1. back[a] \in [row : Rows, tasks : Table]
  BY DEF TypeOK
<1>2. SyncInput(back[a]).stage = back[a].tasks[StageKey]
  BY <1>1 DEF SyncInput, NoInput, DeriveTerminalWorkPlanStages, Coalesce
<1>3. SyncInput(back[a]).stage # Absent /\ SyncInput(back[a]).mode = "merge"
  BY <1>1, <1>2, SyncInputType
<1>4. \A table : StoredRow(base[a], SyncInput(back[a]), table).stage = SyncInput(back[a]).stage
  BY <1>3 DEF StoredRow, BuildNextWorkPlanState, Coalesce
<1> QED BY <1>2, <1>4

(* A closed plan whose stage is not that of its stage task. *)
StaleStage(r) ==
    /\ AllTerminal(tasks[r]) /\ ~dirty[r] /\ lost[r] = {}
    /\ tasks[r][StageKey] # Absent
    /\ plan[r].stage # tasks[r][StageKey]

(* The call that wrote the plan is still on its way to set the stage right. *)
StageInv ==
    \A r \in Receipts : ~overlap[r] /\ StaleStage(r) =>
        \E a \in Agents : kind[a] = "work" /\ target[a] = r /\ pc[a] \in AfterPlanWrite

(* A step whose agent is on its way to it, or does not change what it is about. *)
LEMMA StageNext ==
  ASSUME TypeOK, CallsWellFormed, SeqInv, StageInv, [Next]_vars
  PROVE  StageInv'
<1> DEFINE Fixes(a, r) == kind[a] = "work" /\ target[a] = r /\ pc[a] \in AfterPlanWrite
<1>1. ASSUME NEW a \in Agents, NEW r \in Receipts, NEW in,
             StartWork(a, r, in) \/ StartAutoOpen(a, r, in) \/ StartDone(a, r)
      PROVE  StageInv'
  <2>1. /\ pc[a] = "idle" /\ UNCHANGED <<plan, tasks, lost, dirty>>
        /\ \A b \in Agents \ {a} : UNCHANGED <<pc[b], kind[b], target[b]>>
        /\ \A q \in Receipts : overlap[q] => overlap'[q]
    BY <1>1, BeginFrame
  <2>2. \A q \in Receipts : StaleStage(q)' <=> StaleStage(q)
    BY <2>1 DEF StaleStage, AllTerminal, StatusesIn
  <2>3. \A b \in Agents, q \in Receipts : Fixes(b, q) => Fixes(b, q)'
    BY <2>1 DEF AfterPlanWrite, BeforeItems
  <2> QED BY <2>1, <2>2, <2>3 DEF StageInv
<1>2. ASSUME NEW a \in Agents, Step(a) \/ Fail(a) PROVE StageInv'
  <2> DEFINE r == target[a]
  <2>1. /\ UNCHANGED <<kind, target, overlap>> /\ r \in Receipts
        /\ \A b \in Agents \ {a} : UNCHANGED <<pc[b], back[b]>>
    BY <1>2, StepFrame DEF TypeOK
  <2>2. \A q \in Receipts : q # r => UNCHANGED <<plan[q], tasks[q], lost[q], dirty[q]>>
    BY <1>2 DEF Step, Fail, Precheck, PlanRead, TxRead, PlanWrite, ReadBackRow, ReadBackTasks,
       WriteItems, SyncSkip, SyncRead, SyncWrite, Busy, CutShort, db, TypeOK
  <2>3. \A b \in Agents \ {a}, q \in Receipts : Fixes(b, q) => Fixes(b, q)'
    BY <2>1
  <2> SUFFICES ASSUME NEW q \in Receipts, ~overlap[q], StaleStage(q)'
               PROVE  \E b \in Agents : Fixes(b, q)'
    BY <2>1 DEF StageInv
  <2>4. CASE q # r
    <3>1. StaleStage(q)
      BY <2>2, <2>4 DEF StaleStage, AllTerminal, StatusesIn
    <3>2. PICK b \in Agents : Fixes(b, q)
      BY <3>1 DEF StageInv
    <3>3. b # a
      BY <2>4, <3>2
    <3> QED BY <2>3, <3>2, <3>3
  <2>5. CASE q = r
    <3>1. CASE PlanWrite(a) \/ WriteItems(a)
      <4>1. kind[a] = "work" /\ pc'[a] \in AfterPlanWrite
        BY <3>1 DEF PlanWrite, WriteItems, CallsWellFormed, Goto, AfterPlanWrite, BeforeItems, TypeOK
      <4> QED BY <2>1, <2>5, <4>1
    <3>2. CASE SyncWrite(a)
      <4>1. /\ UNCHANGED <<tasks, lost>> /\ pc[a] = "sync_write"
            /\ plan'[r] = StoredRow(base[a], SyncInput(back[a]), tasks[r])
        BY <3>2 DEF SyncWrite, TypeOK
      <4>2. tasks[r][StageKey] # Absent /\ lost[r] = {} /\ plan'[r].stage # tasks[r][StageKey]
        BY <2>5, <4>1 DEF StaleStage
      <4>3. back[a].tasks[StageKey] = tasks[r][StageKey]
        BY <2>5, <4>1, <4>2, ConstantsAssumption, BackTasksMatch
      <4>4. plan'[r].stage = tasks[r][StageKey]
        BY <4>1, <4>2, <4>3, SyncStage
      <4> QED BY <4>2, <4>4
    <3>3. CASE SyncSkip(a)
      <4>1. UNCHANGED <<plan, tasks, lost, dirty>> /\ pc[a] = "sync" /\ ~NeedsSync(back[a])
        BY <3>3 DEF SyncSkip, db
      <4>2. StaleStage(r)
        BY <2>5, <4>1 DEF StaleStage, AllTerminal, StatusesIn
      <4>3. PICK b \in Agents : Fixes(b, q)
        BY <2>5, <4>2 DEF StageInv
      <4>4. CASE b # a
        <5>1. b \in Agents \ {a}
          BY <4>4
        <5> QED BY <2>3, <2>5, <4>3, <5>1
      <4>5. CASE b = a
        <5>1. back[a].row = plan[r] /\ back[a].tasks = tasks[r]
          BY <2>5, <4>1, <4>3, <4>5 DEF SeqInv, BackInv
        <5>2. SyncInput(back[a]).stage = tasks[r][StageKey]
          BY <4>2, <5>1, SyncStage DEF StaleStage
        <5>3. SyncInput(back[a]).status \in TerminalStatuses
          <6>1. back[a] \in [row : Rows, tasks : Table]
            BY DEF TypeOK
          <6> QED BY <4>2, <5>1, <6>1, SyncInputType, DerivedTerminal DEF StaleStage
        <5> QED BY <4>1, <4>2, <5>1, <5>2, <5>3 DEF NeedsSync, StaleStage
      <4> QED BY <4>4, <4>5
    <3>4. CASE Busy(a) \/ Fail(a)
      <4>1. CutShort(a)
        BY <3>4 DEF Busy, Fail
      <4>2. ~Fixes(a, q)
        <5> SUFFICES ASSUME Fixes(a, q) PROVE FALSE
          OBVIOUS
        <5>1. dirty'[r]
          BY <2>1, <2>5, <4>1 DEF CutShort, TypeOK
        <5> QED BY <2>1, <2>5, <5>1 DEF StaleStage
      <4>3. UNCHANGED <<plan, tasks>> /\ lost[r] \subseteq lost'[r] /\ (dirty[r] => dirty'[r])
        BY <4>1 DEF CutShort, db, TypeOK
      <4>4. StaleStage(r)
        BY <2>5, <4>3 DEF StaleStage, AllTerminal, StatusesIn
      <4>5. PICK b \in Agents : Fixes(b, q)
        BY <2>5, <4>4 DEF StageInv
      <4> QED BY <2>3, <2>5, <4>2, <4>5
    <3>5. CASE \/ Precheck(a) \/ PlanRead(a) \/ ReadBackRow(a) \/ ReadBackTasks(a) \/ SyncRead(a)
      <4>1. UNCHANGED <<plan, tasks, lost, dirty>>
        BY <3>5 DEF Precheck, PlanRead, TxRead, ReadBackRow, ReadBackTasks, SyncRead, db
      <4>2. StaleStage(r)
        BY <2>5, <4>1 DEF StaleStage, AllTerminal, StatusesIn
      <4>3. PICK b \in Agents : Fixes(b, q)
        BY <2>5, <4>2 DEF StageInv
      <4>4. Fixes(a, q) => Fixes(a, q)'
        BY <2>1, <2>5, <3>5 DEF Precheck, PlanRead, TxRead, ReadBackRow, ReadBackTasks, SyncRead,
           CallsWellFormed, AfterPlanWrite, BeforeItems, Goto, TypeOK
      <4> QED BY <2>3, <2>5, <4>3, <4>4
    <3> QED BY <1>2, <3>1, <3>2, <3>3, <3>4, <3>5 DEF Step
  <2> QED BY <2>4, <2>5
<1>3. ASSUME UNCHANGED <<plan, tasks, lost, dirty, kind, target, pc, overlap>> PROVE StageInv'
  <2>1. \A q \in Receipts : StaleStage(q)' <=> StaleStage(q)
    BY <1>3 DEF StaleStage, AllTerminal, StatusesIn
  <2> QED BY <1>3, <2>1 DEF StageInv
<1> QED BY <1>1, <1>2, <1>3 DEF Next, OpenReceipt, callVars, vars

(* work_plan_lifecycle.go: a plan closed and at rest, whose calls did not overlap
   and were not cut short, carries the stage of its stage task. *)
THEOREM ClosedStagesFollow == Spec => []StagesFollowTasks
<1>1. Init => StageInv
  BY DEF Init, StageInv, StaleStage, AllTerminal, StatusesIn, EmptyTable
<1>2. TypeOK /\ CallsWellFormed /\ SeqInv /\ StageInv /\ [Next]_vars => StageInv'
  BY StageNext
<1>3. StageInv => StagesFollowTasks
  BY DEF StageInv, StaleStage, StagesFollowTasks, RetainsStaleStage, Idle, AfterPlanWrite, BeforeItems
<1> QED BY <1>1, <1>2, <1>3, TypeCorrect, CallsCorrect, SequentialCalls, PTL DEF Spec

(* What one step of the auto-close may close. *)
ClosesNoOpenTask ==
    \A a \in Agents :
        LET r == target[a] IN
        /\ pc[a] = "sync_write" /\ ~overlap[r]
        /\ plan'[r] # plan[r] /\ plan'[r].status \in TerminalStatuses
        => \A k \in Keys \ lost[r] : tasks[r][k] \in TerminalStatuses \cup {Absent}

(* A call about to write the auto-close is the only one that can write the plan,
   and it has found all tasks terminal. *)
LEMMA CloseStep == ASSUME TypeOK, CallsWellFormed, SeqInv PROVE ClosesNoOpenTask
<1> SUFFICES ASSUME NEW a \in Agents, pc[a] = "sync_write", ~overlap[target[a]],
                    NEW k \in Keys \ lost[target[a]], tasks[target[a]][k] # Absent
             PROVE  tasks[target[a]][k] \in TerminalStatuses
  BY DEF ClosesNoOpenTask
<1>1. back[a].tasks[k] = tasks[target[a]][k]
  BY BackTasksMatch
<1>2. back[a] \in [row : Rows, tasks : Table]
  BY DEF TypeOK
<1>3. AllTerminal(back[a].tasks)
  BY <1>2, SyncInputType, DerivedTerminal DEF CallsWellFormed
<1>4. back[a].tasks[k] \in StatusesIn(back[a].tasks)
  BY <1>1, <1>2 DEF StatusesIn, Table
<1> QED BY <1>1, <1>3, <1>4 DEF AllTerminal

(* work_plan_lifecycle.go:25-28: the auto-close makes a plan terminal only over
   tasks that are all terminal, calls on a receipt not overlapping. *)
THEOREM ClosesOverTerminalTasks == Spec => CloseOnlyWithoutOpenTasks
<1>1. TypeOK /\ CallsWellFormed /\ SeqInv /\ [Next]_vars => [ClosesNoOpenTask]_vars
  BY CloseStep
<1> QED BY <1>1, TypeCorrect, CallsCorrect, SequentialCalls, PTL
    DEF Spec, CloseOnlyWithoutOpenTasks, ClosesNoOpenTask

-------------------------------------------------------------------------------
(* Merges on a backend that refuses to commit on an out-of-date snapshot.  *)

(* The row a transaction has read is still the stored one while its snapshot is fresh. *)
FreshBase ==
    \A a \in Agents :
        fresh[a] /\ pc[a] \in {"plan_write", "sync_write"} => base[a] = plan[target[a]]

(* Every step keeps it: each write of a plan ends every snapshot. *)
LEMMA FreshBaseNext ==
  ASSUME TypeOK, FreshBase, [Next]_vars
  PROVE  FreshBase'
<1> USE DEF db, callVars, Goto, Committed, FreshBase
<1>1. ASSUME NEW a \in Agents, PlanWrite(a) \/ SyncWrite(a) \/ WriteItems(a) PROVE FreshBase'
  BY <1>1 DEF PlanWrite, SyncWrite, WriteItems
<1>2. ASSUME NEW a \in Agents, PlanRead(a) \/ SyncRead(a) PROVE FreshBase'
  BY <1>2 DEF PlanRead, SyncRead, TxRead, TypeOK
<1>3. ASSUME NEW a \in Agents,
             Precheck(a) \/ ReadBackRow(a) \/ ReadBackTasks(a) \/ SyncSkip(a)
      PROVE  FreshBase'
  BY <1>3 DEF Precheck, ReadBackRow, ReadBackTasks, SyncSkip, TypeOK
<1>4. ASSUME NEW a \in Agents, Busy(a) \/ Fail(a) PROVE FreshBase'
  BY <1>4 DEF Busy, Fail, CutShort, TypeOK
<1>5. ASSUME NEW a \in Agents, NEW r \in Receipts, NEW in,
             StartWork(a, r, in) \/ StartAutoOpen(a, r, in) \/ StartDone(a, r)
      PROVE  FreshBase'
  BY <1>5 DEF StartWork, StartAutoOpen, StartDone, Begin, TypeOK
<1>6. ASSUME NEW r \in Receipts, OpenReceipt(r) PROVE FreshBase'
  BY <1>6 DEF OpenReceipt
<1>7. ASSUME UNCHANGED vars PROVE FreshBase'
  BY <1>7 DEF vars
<1> QED BY <1>1, <1>2, <1>3, <1>4, <1>5, <1>6, <1>7 DEF Next, Step

(* The stored discovered_paths: the given ones, none on replace, else the read ones. *)
LEMMA StoredPaths ==
  ASSUME NEW current \in Rows, NEW in \in Inputs, NEW table,
         in.disc = Absent, in.mode # "replace"
  PROVE  StoredRow(current, in, table).disc = current.disc
  BY DEF StoredRow, BuildNextWorkPlanState, Coalesce, Rows

(* One step changes the paths only as OnlyGivenFieldsChange allows. *)
LEMMA UnsetFieldsStep ==
  ASSUME Serializable, TypeOK, FreshBase, [Next]_vars, NEW r \in Receipts
  PROVE  OnlyGivenFieldsChange(r)
<1> USE DEF db, callVars
<1>1. ASSUME NEW a \in Agents, PlanWrite(a) PROVE OnlyGivenFieldsChange(r)
  <2>1. CASE target[a] # r
    BY <1>1, <2>1 DEF PlanWrite, TypeOK, OnlyGivenFieldsChange
  <2>2. CASE target[a] = r /\ input[a].disc = Absent /\ input[a].mode # "replace"
    <3>1. base[a] = plan[r] /\ base[a] \in Rows /\ input[a] \in Inputs
      BY <1>1, <2>2 DEF PlanWrite, CanCommit, FreshBase, TypeOK
    <3>2. plan'[r].disc = plan[r].disc
      BY <1>1, <2>2, <3>1, StoredPaths DEF PlanWrite, TypeOK
    <3> QED BY <3>2 DEF OnlyGivenFieldsChange
  <2>3. CASE target[a] = r /\ ~(input[a].disc = Absent /\ input[a].mode # "replace")
    BY <1>1, <2>3 DEF PlanWrite, OnlyGivenFieldsChange
  <2> QED BY <2>1, <2>2, <2>3
<1>2. ASSUME NEW a \in Agents, SyncWrite(a) PROVE OnlyGivenFieldsChange(r)
  <2>1. CASE target[a] # r
    BY <1>2, <2>1 DEF SyncWrite, TypeOK, OnlyGivenFieldsChange
  <2>2. CASE target[a] = r
    <3>1. base[a] = plan[r] /\ base[a] \in Rows /\ back[a] \in [row : Rows, tasks : Table]
      BY <1>2, <2>2 DEF SyncWrite, CanCommit, FreshBase, TypeOK
    <3>2. /\ SyncInput(back[a]) \in Inputs /\ SyncInput(back[a]).disc = Absent
          /\ SyncInput(back[a]).mode # "replace"
      BY <3>1, SyncInputType
    <3>3. StoredRow(base[a], SyncInput(back[a]), tasks[r]).disc = base[a].disc
      BY <3>1, <3>2, StoredPaths
    <3>4. plan'[r] = StoredRow(base[a], SyncInput(back[a]), tasks[r])
      BY <1>2, <2>2 DEF SyncWrite, TypeOK
    <3>5. plan'[r].disc = plan[r].disc
      BY <3>1, <3>3, <3>4
    <3> QED BY <3>5 DEF OnlyGivenFieldsChange
  <2> QED BY <2>1, <2>2
<1>3. ASSUME NEW a \in Agents, Step(a), ~PlanWrite(a), ~SyncWrite(a)
      PROVE  OnlyGivenFieldsChange(r)
  BY <1>3 DEF Step, Precheck, PlanRead, TxRead, ReadBackRow, ReadBackTasks, WriteItems, SyncSkip,
              SyncRead, Busy, CutShort, OnlyGivenFieldsChange
<1>4. ASSUME NEW a \in Agents, NEW q \in Receipts, NEW in,
             StartWork(a, q, in) \/ StartAutoOpen(a, q, in) \/ StartDone(a, q)
      PROVE  OnlyGivenFieldsChange(r)
  BY <1>4 DEF StartWork, StartAutoOpen, StartDone, Begin, OnlyGivenFieldsChange
<1>5. ASSUME NEW q \in Receipts, OpenReceipt(q) PROVE OnlyGivenFieldsChange(r)
  BY <1>5 DEF OpenReceipt, OnlyGivenFieldsChange
<1>6. ASSUME NEW a \in Agents, Fail(a) PROVE OnlyGivenFieldsChange(r)
  BY <1>6 DEF Fail, CutShort, OnlyGivenFieldsChange
<1>7. ASSUME UNCHANGED vars PROVE OnlyGivenFieldsChange(r)
  BY <1>7 DEF vars, OnlyGivenFieldsChange
<1> QED BY <1>1, <1>2, <1>3, <1>4, <1>5, <1>6, <1>7 DEF Next

(* domain.go:392-396 on SQLite: concurrent merges never lose a field that
   neither of them leaves out.  On Postgres they do. *)
THEOREM SnapshotMergesKeepFields == Serializable => (Spec => MergeKeepsUnsetFields)
<1> SUFFICES ASSUME Serializable PROVE Spec => MergeKeepsUnsetFields
  OBVIOUS
<1>1. Init => FreshBase
  BY DEF Init, FreshBase
<1>2. TypeOK /\ FreshBase /\ [Next]_vars => FreshBase'
  BY FreshBaseNext
<1>3. TypeOK /\ FreshBase /\ [Next]_vars
      => [\A r \in Receipts : OnlyGivenFieldsChange(r)]_vars
  BY UnsetFieldsStep
<1> QED BY <1>1, <1>2, <1>3, TypeCorrect, PTL DEF Spec, MergeKeepsUnsetFields

===============================================================================
