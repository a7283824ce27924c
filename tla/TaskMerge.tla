------------------------------- MODULE TaskMerge -------------------------------
(***************************************************************************)
(* What one `work` call does to the task records of a plan, field by field:*)
(* the payload is turned into work items, duplicates of a key are reduced  *)
(* to one, and each survivor is overlaid on the stored task of its key.    *)
(* WorkPlans has the interleaving of such calls, with statuses only.       *)
(***************************************************************************)
EXTENDS PlanStatus, SequencesExt

CONSTANTS
    Keys,      \* task keys
    Reasons,   \* texts of blocked_reason
    Evidence,  \* values of the evidence list, which stands for every list field
    Payloads,  \* the tasks of a call: sequences of Entries
    Empty      \* parent_task_key sent as an empty string

(* v1.WorkTaskPayload; Absent is a field that was not sent, or an empty list. *)
Entries == [key : Keys, status : Statuses, parent : Keys \cup {Absent, Empty},
            reason : Reasons \cup {Absent}, evidence : Evidence \cup {Absent}]

ASSUME MergeAssumption ==
    /\ Payloads \subseteq Seq(Entries)
    /\ Empty \notin Keys \cup {Absent}

(* A row of awm_work_plan_tasks; NoTask is a row that does not exist, and the
   zero value a new task starts from. *)
Tasks == [status : Statuses \cup {Absent}, parent : Keys \cup {Absent},
          reason : Reasons \cup {Absent}, evidence : Evidence \cup {Absent}]
NoTask == [status |-> Absent, parent |-> Absent, reason |-> Absent, evidence |-> Absent]

VARIABLE tasks  \* [Keys -> Tasks]

-------------------------------------------------------------------------------
(* Mutant: the empty text is taken for a parent. *)
ToItemVerbatim(e) ==
    [key |-> e.key, status |-> e.status, reason |-> e.reason, evidence |-> e.evidence,
     parent |-> e.parent, clear |-> FALSE]

(* core.WorkItem: an explicitly empty parent becomes a flag of its own. *)
ToWorkItem(e) ==
    [key |-> e.key, status |-> e.status, reason |-> e.reason, evidence |-> e.evidence,
     parent |-> IF e.parent = Empty THEN Absent ELSE e.parent,
     clear |-> e.parent = Empty]

(* normalizeWorkItems builds each item anew and does not carry ParentTaskKeyClear. *)
NormalizeItem(i) == [i EXCEPT !.clear = FALSE]

Priority == [s \in Statuses |-> CASE s = "blocked" -> 3 [] s = "in_progress" -> 2
                                  [] s = "pending" -> 1 [] OTHER -> 0]

(* The table with the item stored under its key. *)
Store(table, i) ==
    [k \in DOMAIN table \cup {i.key} |-> IF k = i.key THEN i ELSE table[k]]

(* Mutant: the first of two equally open entries is kept. *)
KeepFirst(table, i) ==
    IF i.key \notin DOMAIN table \/ Priority[i.status] > Priority[table[i.key].status]
    THEN Store(table, i)
    ELSE table

(* An entry replaces an earlier one of its key that is not more open. *)
KeepMostOpen(table, i) ==
    IF i.key \notin DOMAIN table \/ Priority[i.status] >= Priority[table[i.key].status]
    THEN Store(table, i)
    ELSE table

NormalizeWorkItems(items) == FoldLeft(KeepMostOpen, <<>>, items)

(* workPayloadTasks: from keys to the item of the call that counts for the key. *)
WorkPayloadTasks(payload) ==
    NormalizeWorkItems([n \in DOMAIN payload |-> NormalizeItem(ToWorkItem(payload[n]))])

(* Mutant: fields that were not sent are emptied. *)
Overwrite(current, i) ==
    [status |-> i.status, parent |-> i.parent, reason |-> i.reason, evidence |-> i.evidence]

(* Mutant: the reason outlives the block. *)
KeepReason(current, i) ==
    [status   |-> i.status,
     parent   |-> IF i.clear THEN Absent ELSE IF i.parent # Absent THEN i.parent ELSE current.parent,
     reason   |-> IF i.reason # Absent THEN i.reason ELSE current.reason,
     evidence |-> IF i.evidence # Absent THEN i.evidence ELSE current.evidence]

(* domain.mergeWorkPlanTask, for the normalized items of `work`, whose status is never empty. *)
MergeWorkPlanTask(current, i) ==
    [status   |-> i.status,
     parent   |-> IF i.clear THEN Absent ELSE IF i.parent # Absent THEN i.parent ELSE current.parent,
     reason   |-> IF i.reason # Absent THEN i.reason
                  ELSE IF i.status # "blocked" THEN Absent ELSE current.reason,
     evidence |-> IF i.evidence # Absent THEN i.evidence ELSE current.evidence]

(* The stored tasks after a call; replace mode deletes what was stored. *)
Apply(stored, payload, mode) ==
    LET given == WorkPayloadTasks(payload)
        base == IF mode = "replace" THEN [k \in Keys |-> NoTask] ELSE stored
    IN  [k \in Keys |-> IF k \in DOMAIN given THEN MergeWorkPlanTask(base[k], given[k])
                        ELSE base[k]]

MergeInit == tasks = [k \in Keys |-> NoTask]

Work(payload, mode) == tasks' = Apply(tasks, payload, mode)

MergeNext == \E payload \in Payloads, mode \in {"merge", "replace"} : Work(payload, mode)

MergeSpec == MergeInit /\ [][MergeNext]_tasks

-------------------------------------------------------------------------------
(* Properties, of every stored table a call can meet and every call.       *)

(* A stored task holds values of its columns. *)
TypeOK == tasks \in [Keys -> Tasks]

(* Which of the entries of a key counts, said without the order of the code:
   one that no other is more open than, the last of those. *)
IsMostOpenAndLast(payload, n) ==
    \A m \in DOMAIN payload : payload[m].key = payload[n].key =>
        LET pm == Priority[payload[m].status]
            pn == Priority[payload[n].status]
        IN  pm < pn \/ (pm = pn /\ m <= n)

(* work.go:407-463, and so for the plan's derived status: a duplicate entry can
   neither close a task that another entry of the same call keeps open, nor mix
   its fields into the task. *)
MostOpenEntryCounts ==
    \A payload \in Payloads : \A n \in DOMAIN payload :
        IsMostOpenAndLast(payload, n) =>
            LET e == payload[n]
                after == Apply(tasks, payload, "merge")[e.key]
                kept == tasks[e.key].evidence
            IN  after.status = e.status
                /\ after.evidence = IF e.evidence # Absent THEN e.evidence ELSE kept

(* CHANGELOG.md:314, "not provided" preserves the existing value: a merge does
   not change a parent or a list that no entry of the key sent; but, as
   RELEASE_NOTES_1.1.2.md:68 has it, a call that sends no reason leaves none on a
   task it unblocks. *)
NotProvidedIsPreserved ==
    \A payload \in Payloads, k \in Keys :
        LET sent == {payload[n] : n \in {m \in DOMAIN payload : payload[m].key = k}}
            before == tasks[k]
            after == Apply(tasks, payload, "merge")[k]
        IN  /\ (\A e \in sent : e.parent = Absent) => after.parent = before.parent
            /\ (\A e \in sent : e.evidence = Absent) => after.evidence = before.evidence
            /\ (/\ before.status = "blocked" /\ after.status # "blocked"
                /\ \A e \in sent : e.reason = Absent) => after.reason = Absent

(* CHANGELOG.md:313, "`work` merge logic now supports clearing `parent_task_key`
   by explicitly sending an empty string". *)
EmptyParentClears ==
    \A payload \in Payloads, k \in Keys :
        /\ \E n \in DOMAIN payload : payload[n].key = k
        /\ \A n \in DOMAIN payload : payload[n].key = k => payload[n].parent = Empty
        => Apply(tasks, payload, "merge")[k].parent = Absent

===============================================================================
