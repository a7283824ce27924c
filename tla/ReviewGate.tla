------------------------------- MODULE ReviewGate -------------------------------
(***************************************************************************)
(* A runnable review gate of one receipt: `review --run`, the manual ways  *)
(* of setting the gate's work item, and the judgement `done` makes of it.  *)
(*                                                                         *)
(* A review call lists the attempts, assesses the scoped fingerprint and   *)
(* the budget, runs the configured command, appends an attempt and then    *)
(* sets the gate's item through `work`; nothing holds these steps          *)
(* together, so other calls, edits of the tree and a crash fall between:   *)
(*                                                                         *)
(*   review:  listed -> (run -> save) -> snapshot                          *)
(*   done:    done_list -> done_judge                                      *)
(*                                                                         *)
(* WorkPlans has what the `work` call inside the snapshot does in detail;  *)
(* here it is the one write that `done` reads, that of the work item.      *)
(***************************************************************************)
EXTENDS PlanStatus, SequencesExt

CONSTANTS
    Agents,     \* the processes that issue calls
    Paths,      \* files of the project tree
    Contents,   \* what a file can hold
    Scope,      \* initial_scope_paths and the managed files
    Gates,      \* the workflow definitions the gate can have
    MaxCalls,   \* bound: number of calls in a behaviour
    MaxEdits    \* bound: number of changes to the tree or to discovered_paths

ASSUME GateAssumption ==
    /\ IsFiniteSet(Agents)
    /\ Scope \subseteq Paths
    /\ Gates \subseteq [rerun : BOOLEAN, max : Nat]
    /\ MaxCalls \in Nat /\ MaxEdits \in Nat

VARIABLES
    gate,        \* rerun_requires_new_fingerprint and max_attempts (0: none)
    tree,        \* the files, as the fingerprint reads them
    discovered,  \* the plan's discovered_paths
    item,        \* the status of the gate's work item
    attempts,    \* awm_review_attempts in list order: by finish second, then by id
    accepted,    \* fingerprints of the runs `done` stored as "accepted"
    pc,          \* the next step of each agent's call
    seen,        \* the attempts the agent's call has listed
    fp,          \* the fingerprint the agent's review has computed
    run,         \* the outcome of the command the agent's review ran
    status,      \* the status the agent's review is about to store
    clock,       \* the current second
    calls, edits,
    byhand,      \* history: the item was last set without a review run
    settled,     \* history: agents whose review nothing else has disturbed so far
    overlapped   \* history: two reviews were ever under way together

vars == <<gate, tree, discovered, item, attempts, accepted, pc, seen, fp, run,
          status, clock, calls, edits, byhand, settled, overlapped>>
project == <<gate, tree, discovered, edits>>
locals == <<seen, fp, run, status>>

(* A fingerprint tells apart which paths are in scope and what each of them holds. *)
Fingerprints == UNION {[S -> Contents] : S \in SUBSET Paths}
NoFingerprint == [p \in {} |-> Absent]

Attempts == [fp : Fingerprints, passed : BOOLEAN, at : Nat]
NoRun == [passed |-> FALSE, at |-> 0]

ReviewSteps == {"listed", "run", "save", "snapshot"}

Init ==
    /\ gate \in Gates
    /\ tree \in [Paths -> Contents]
    /\ discovered = {}
    /\ item = Absent
    /\ attempts = <<>>
    /\ accepted = {}
    /\ pc = [a \in Agents |-> "idle"]
    /\ seen = [a \in Agents |-> <<>>]
    /\ fp = [a \in Agents |-> NoFingerprint]
    /\ run = [a \in Agents |-> NoRun]
    /\ status = [a \in Agents |-> Absent]
    /\ clock = 0
    /\ calls = 0 /\ edits = 0
    /\ byhand = FALSE
    /\ settled = {}
    /\ overlapped = FALSE

-------------------------------------------------------------------------------
(* What review and done compute.                                           *)

(* computeReviewFingerprint over effectiveScopePaths *)
Fingerprint == [p \in Scope \cup discovered |-> tree[p]]

(* latestReviewAttemptByFingerprint: 0 when there is none *)
LatestFor(s, f) == SelectLastInSeq(s, LAMBDA x : x.fp = f)

LatestPassed(s, f) == LatestFor(s, f) # 0 /\ s[LatestFor(s, f)].passed

LatestFailed(s, f) == LatestFor(s, f) # 0 /\ ~s[LatestFor(s, f)].passed

Spent(s) == gate.max > 0 /\ Len(s) >= gate.max

(* Mutant: the budget is looked at before the fingerprint. *)
DecideBudgetFirst(s, f) ==
    IF Spent(s) THEN "blocked"
    ELSE IF gate.rerun /\ LatestPassed(s, f) THEN "complete"
    ELSE "run"

(* Mutant: one attempt more than the budget. *)
DecideOffByOne(s, f) ==
    IF gate.rerun /\ LatestPassed(s, f) THEN "complete"
    ELSE IF gate.rerun /\ LatestFailed(s, f) THEN "run"
    ELSE IF gate.max > 0 /\ Len(s) > gate.max THEN "blocked"
    ELSE "run"

(* Mutant: a passing attempt is run again. *)
DecideRerunAll(s, f) ==
    IF gate.rerun /\ LatestFor(s, f) # 0 THEN "run"
    ELSE IF Spent(s) THEN "blocked"
    ELSE "run"

(* Mutant: the stored text of the attempt instead of the item status. *)
DecideStoredText(s, f) ==
    IF gate.rerun /\ LatestPassed(s, f) THEN "passed"
    ELSE IF Spent(s) THEN "blocked"
    ELSE "run"

(* Whether to execute, or the status to store without executing.  A failed
   attempt on the fingerprint jumps over the budget check (goto executeReview). *)
Decide(s, f) ==
    IF gate.rerun /\ LatestPassed(s, f) THEN "complete"
    ELSE IF gate.rerun /\ LatestFailed(s, f) THEN "run"
    ELSE IF Spent(s) THEN "blocked"
    ELSE "run"

(* Mutant: any attempt at all satisfies the gate. *)
ExecutedOnce(s, f) == s # <<>>

(* The part of evaluateDefinitionOfDoneIssues about a runnable gate whose item is complete. *)
GateHolds(s, f) ==
    /\ s # <<>>
    /\ IF gate.rerun THEN LatestPassed(s, f) ELSE Last(s).passed

(* Mutant: an attempt replaces the one stored for its fingerprint. *)
InsertOnePerFingerprint(s, x) == Append(SelectSeq(s, LAMBDA y : y.fp # x.fp), x)

(* ORDER BY created_at, attempt_id *)
InsertByFinish(s, x) ==
    InsertAt(s, Cardinality({i \in DOMAIN s : s[i].at <= x.at}) + 1, x)

-------------------------------------------------------------------------------
(* Around the gate: the tree, the plan and the item change by other hands. *)

Goto(a, label) == pc' = [pc EXCEPT ![a] = label]

(* An agent edits a file. *)
Edit(p, c) ==
    /\ edits < MaxEdits /\ tree[p] # c
    /\ tree' = [tree EXCEPT ![p] = c]
    /\ edits' = edits + 1
    /\ settled' = {}
    /\ UNCHANGED <<gate, discovered, item, attempts, accepted, pc, locals, clock,
                   calls, byhand, overlapped>>

(* `work` declares discovered paths; an empty list keeps the stored ones. *)
Discover(S) ==
    /\ edits < MaxEdits /\ S # {}
    /\ discovered' = S
    /\ edits' = edits + 1
    /\ settled' = {}
    /\ UNCHANGED <<gate, tree, item, attempts, accepted, pc, locals, clock,
                   calls, byhand, overlapped>>

SetByHand(s) ==
    /\ calls < MaxCalls
    /\ calls' = calls + 1
    /\ item' = s
    /\ byhand' = TRUE
    /\ settled' = {}
    /\ UNCHANGED <<project, attempts, accepted, pc, locals, clock, overlapped>>

(* `work` with the gate's key accepts every status. *)
DirectWork(s) == SetByHand(s)

(* `review` without run: complete is refused for a runnable gate. *)
ManualReview(s) == s # "complete" /\ SetByHand(s)

-------------------------------------------------------------------------------
(* review --run                                                            *)

StartReview(a) ==
    /\ pc[a] = "idle" /\ calls < MaxCalls
    /\ Goto(a, "listed")
    /\ calls' = calls + 1
    /\ seen' = [seen EXCEPT ![a] = attempts]
    /\ settled' = {a}
    /\ overlapped' = (overlapped \/ \E b \in Agents : pc[b] \in ReviewSteps)
    /\ UNCHANGED <<project, item, attempts, accepted, fp, run, status, clock, byhand>>

(* The scope, the plan and the tree are read, and the decision is taken on the
   attempts listed before. *)
Assess(a) ==
    LET decision == Decide(seen[a], Fingerprint) IN
    /\ pc[a] = "listed"
    /\ Goto(a, IF decision = "run" THEN "run" ELSE "snapshot")
    /\ fp' = [fp EXCEPT ![a] = Fingerprint]
    /\ status' = [status EXCEPT ![a] = IF decision = "run" THEN Absent ELSE decision]
    /\ UNCHANGED <<project, item, attempts, accepted, seen, run, clock, calls,
                   byhand, settled, overlapped>>

(* The command exits, with 0 or not, in this second or the next. *)
Execute(a) ==
    /\ pc[a] = "run"
    /\ Goto(a, "save")
    /\ clock' \in {clock, clock + 1}
    /\ \E passed \in BOOLEAN : run' = [run EXCEPT ![a] = [passed |-> passed, at |-> clock']]
    /\ UNCHANGED <<project, item, attempts, accepted, seen, fp, status, calls,
                   byhand, settled, overlapped>>

(* Mutant: a failed SaveReviewAttempt is not an error. *)
SaveBestEffort(a) ==
    /\ pc[a] = "save"
    /\ Goto(a, "snapshot")
    /\ attempts' \in {attempts, InsertByFinish(attempts,
                       [fp |-> fp[a], passed |-> run[a].passed, at |-> run[a].at])}
    /\ status' = [status EXCEPT ![a] = IF run[a].passed THEN "complete" ELSE "blocked"]
    /\ settled' = settled \cap {a}
    /\ UNCHANGED <<project, item, accepted, seen, fp, run, clock, calls, byhand, overlapped>>

(* SaveReviewAttempt is a single INSERT. *)
Save(a) ==
    /\ pc[a] = "save"
    /\ Goto(a, "snapshot")
    /\ attempts' = InsertByFinish(attempts,
                       [fp |-> fp[a], passed |-> run[a].passed, at |-> run[a].at])
    /\ status' = [status EXCEPT ![a] = IF run[a].passed THEN "complete" ELSE "blocked"]
    /\ settled' = settled \cap {a}
    /\ UNCHANGED <<project, item, accepted, seen, fp, run, clock, calls, byhand, overlapped>>

(* updateReviewSnapshot *)
Snapshot(a) ==
    /\ pc[a] = "snapshot"
    /\ Goto(a, "idle")
    /\ item' = status[a]
    /\ byhand' = FALSE
    /\ settled' = settled \cap {a}
    /\ UNCHANGED <<project, attempts, accepted, locals, clock, calls, overlapped>>

(* A crash or a failed statement ends the call where it is. *)
Crash(a) ==
    /\ pc[a] # "idle"
    /\ Goto(a, "idle")
    /\ settled' = settled \ {a}
    /\ UNCHANGED <<project, item, attempts, accepted, locals, clock, calls, byhand, overlapped>>

-------------------------------------------------------------------------------
(* done                                                                    *)

(* `done` lists the work items; a gate that is not complete is an issue, and
   the run is then rejected or stored as accepted_with_warnings. *)
StartDone(a) ==
    /\ pc[a] = "idle" /\ calls < MaxCalls
    /\ calls' = calls + 1
    /\ Goto(a, IF item = "complete" THEN "done_list" ELSE "idle")
    /\ UNCHANGED <<project, item, attempts, accepted, locals, clock, byhand,
                   settled, overlapped>>

ListForDone(a) ==
    /\ pc[a] = "done_list"
    /\ Goto(a, "done_judge")
    /\ seen' = [seen EXCEPT ![a] = attempts]
    /\ UNCHANGED <<project, item, attempts, accepted, fp, run, status, clock, calls,
                   byhand, settled, overlapped>>

(* The plan is loaded again and the tree is hashed; SaveRunReceiptSummary stores the run. *)
Judge(a) ==
    /\ pc[a] = "done_judge"
    /\ Goto(a, "idle")
    /\ accepted' = IF GateHolds(seen[a], Fingerprint) THEN accepted \cup {Fingerprint}
                   ELSE accepted
    /\ UNCHANGED <<project, item, attempts, locals, clock, calls, byhand,
                   settled, overlapped>>

-------------------------------------------------------------------------------
Next ==
    \/ \E p \in Paths, c \in Contents : Edit(p, c)
    \/ \E S \in SUBSET Paths : Discover(S)
    \/ \E s \in Statuses : DirectWork(s) \/ ManualReview(s)
    \/ \E a \in Agents :
        \/ StartReview(a) \/ Assess(a) \/ Execute(a) \/ Save(a) \/ Snapshot(a)
        \/ StartDone(a) \/ ListForDone(a) \/ Judge(a)
        \/ Crash(a)

Spec == Init /\ [][Next]_vars

-------------------------------------------------------------------------------
(* Properties                                                              *)

(* Every variable holds a value of the columns and locals it stands for. *)
TypeOK ==
    /\ gate \in Gates
    /\ tree \in [Paths -> Contents]
    /\ discovered \in SUBSET Paths
    /\ item \in Statuses \cup {Absent}
    /\ attempts \in Seq(Attempts)
    /\ accepted \subseteq Fingerprints
    /\ pc \in [Agents -> {"idle", "done_list", "done_judge"} \cup ReviewSteps]
    /\ seen \in [Agents -> Seq(Attempts)]
    /\ fp \in [Agents -> Fingerprints]
    /\ run \in [Agents -> [passed : BOOLEAN, at : Nat]]
    /\ status \in [Agents -> {"complete", "blocked", Absent}]
    /\ clock \in Nat /\ calls \in Nat /\ edits \in Nat
    /\ byhand \in BOOLEAN /\ overlapped \in BOOLEAN
    /\ settled \subseteq Agents

(* docs/cli-reference.md:58, "`done` requires a passing runnable review for the
   current fingerprint when dedupe is enabled": whatever is written by hand or
   changes between the steps of `done`, no run is stored as accepted whose
   fingerprint no review has passed; without dedupe, some review has. *)
AcceptedWasReviewed ==
    \A f \in accepted : \E i \in DOMAIN attempts :
        attempts[i].passed /\ (gate.rerun => attempts[i].fp = f)

(* An attempt is stored before the item is: an item that a review made complete
   is backed by a passing attempt, whichever calls overlapped or crashed. *)
CompleteNeedsPass ==
    item = "complete" /\ ~byhand => \E i \in DOMAIN attempts : attempts[i].passed

(* A review that ran to its end undisturbed settles the gate, whatever crashed
   before it: with dedupe the item is complete exactly when `done` would accept
   the fingerprint now.  Without dedupe a spent budget blocks even a gate whose
   last attempt passed, so only one direction holds. *)
SettledReviewDecides ==
    \A a \in settled :
        pc[a] = "idle" =>
            /\ item = "complete" => GateHolds(attempts, Fingerprint)
            /\ gate.rerun /\ GateHolds(attempts, Fingerprint) => item = "complete"

(* review.go:124-145: reviews that run one after the other never execute the
   command again for a fingerprint that has passed, also when the call that
   saw it pass crashed before it stored the item. *)
PassIsFinal ==
    gate.rerun /\ ~overlapped =>
        \A i, j \in DOMAIN attempts :
            i < j /\ attempts[i].fp = attempts[j].fp => ~attempts[i].passed

(* The budget is checked against attempts listed earlier and nothing reserves
   one, so N processes can exceed max_attempts, but only by N - 1. *)
BudgetBound ==
    ~gate.rerun /\ gate.max > 0 =>
        Len(attempts) <= gate.max + Cardinality(Agents) - 1

(* The fingerprints that a recorded attempt passed. *)
Passes == {x.fp : x \in {y \in ToSet(attempts) : y.passed}}

Ledger == INSTANCE GateLedger WITH
    Unset <- Absent, Processes <- Cardinality(Agents),
    dedupe <- gate.rerun, max <- gate.max, count <- Len(attempts), passes <- Passes

(* concepts.md:208 and review.go:193-238, for readers of the gate: whatever the
   calls' steps, crashes and edits, the list of attempts is a ledger that grows
   by one attempt at a time and forgets none, within the budget but for the
   reviews under way; what reviews and `done` then write follows from it. *)
ImplementsLedger == Ledger!Spec

(* docs/concepts.md:208, "failed or interrupted same-fingerprint attempts rerun
   until any configured `max_attempts` budget is exhausted". *)
WithinDocumentedBudget == gate.max > 0 => Len(attempts) <= gate.max

===============================================================================
