------------------------------ MODULE PlanStatus ------------------------------
(***************************************************************************)
(* The status vocabulary that work items, plan stages and plans share, and *)
(* the aggregation of task statuses into a plan status.  A table of tasks  *)
(* is a function from keys to Statuses \cup {Absent}: the value Absent     *)
(* stands for a row that does not exist, an input field that was left out  *)
(* and an empty column.                                                    *)
(***************************************************************************)

Absent == "absent"

(* work.go:465-478 and domain.go NormalizeWorkItemStatus map every raw text to one of these. *)
Statuses == {"pending", "in_progress", "blocked", "complete", "superseded"}

TerminalStatuses == {"complete", "superseded"}

StatusesIn(table) == {table[k] : k \in DOMAIN table} \ {Absent}

(* Mutant: a complete task outweighs a pending one. *)
CompleteBeforePending(S) ==
    IF "blocked" \in S THEN "blocked"
    ELSE IF "in_progress" \in S THEN "in_progress"
    ELSE IF "complete" \in S THEN "complete"
    ELSE IF "pending" \in S \/ S = {} THEN "pending"
    ELSE "superseded"

(* The aggregate of a set of task statuses; the order of the tests is the precedence. *)
DerivePlanStatus(S) ==
    IF "blocked" \in S THEN "blocked"
    ELSE IF "in_progress" \in S THEN "in_progress"
    ELSE IF "pending" \in S \/ S = {} THEN "pending"
    ELSE IF "complete" \in S THEN "complete"
    ELSE "superseded"

(* No open task, and at least one task: what makes a plan ready to be closed. *)
AllTerminal(table) ==
    StatusesIn(table) # {} /\ StatusesIn(table) \subseteq TerminalStatuses

===============================================================================
