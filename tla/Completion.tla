------------------------------- MODULE Completion -------------------------------
(***************************************************************************)
(* `context`, `verify` and `done` over a project tree that agents edit and *)
(* commit meanwhile.  A receipt keeps a baseline, what the working tree    *)
(* looked like when it was opened; `verify` and `done` take the difference *)
(* between the baseline and the tree of the moment for the files the task  *)
(* has changed, select tests and gates by them and judge them by the       *)
(* receipt's scope.                                                        *)
(*                                                                         *)
(* A call is a sequence of reads and one or two writes, with edits and     *)
(* other calls in between; a crash or an error ends it anywhere:           *)
(*                                                                         *)
(*   context:  (capture) -> persist                                        *)
(*   done:     (fetch scope) -> d_plan -> d_detect -> d_items -> d_judge   *)
(*   verify:   (fetch scope) -> v_select -> v_save -> v_item               *)
(*                                                                         *)
(* An argument of a call is chosen at the step that uses it first.  Paths  *)
(* are the files a capture can list: what git ignores, and awm's own files *)
(* below .awm, are not among them.                                         *)
(***************************************************************************)
EXTENDS PlanStatus, Naturals, Sequences, FiniteSets

CONSTANTS
    Agents,        \* the processes that issue calls
    Paths,         \* files of the project
    Contents,      \* what a file can contain
    FirstCommits,  \* what HEAD can be at first (one empty tree without git)
    ScopePaths,    \* files and directories a scope can name
    Covers,        \* [ScopePaths -> SUBSET Paths], the files at or under each
    Governance,    \* files every scope includes (AGENTS.md, CLAUDE.md)
    Openings,      \* the payloads of `context`, each with the three that follow
    PhaseOf,       \* its phase
    TagsOf,        \* the canonical tags it resolves to
    ScopeOf,       \* its initial_scope_paths
    DoneFiles,     \* values of files_changed in `done`
    TestSets,      \* test definitions a project can have
    Workflows,     \* sets of required tasks a project can have
    HandStatuses,  \* statuses that `work` reports for a required task
    NoId,          \* a call that names no receipt
    Git,           \* whether the project is a git repository
    CaptureFails,  \* whether `context` can fail to read the tree
    MaxCalls,      \* bound: number of calls in a behaviour
    MaxEdits       \* bound: number of edits and commits in a behaviour

Phases == {"plan", "execute", "review"}
VerifyTests == "verify:tests"
Unlisted == "unlisted"

Trees == [Paths -> Contents \cup {Absent}]

(* What is stored of a tree: of each listed file its content, Absent if it was deleted. *)
Captures == [Paths -> Contents \cup {Absent, Unlisted}]
Nothing == [p \in Paths |-> Unlisted]

(* A receipt id hashes the payload of `context` and the baseline; the hash is taken to be injective. *)
Ids == [opening : Openings, baseline : Captures]

Definitions == UNION Workflows
ItemKeys == {VerifyTests} \cup {d.key : d \in Definitions}

ASSUME CompletionAssumption ==
    /\ Covers \in [ScopePaths -> SUBSET Paths]
    /\ Governance \subseteq Paths
    /\ FirstCommits \subseteq Trees
    /\ Absent \notin Contents /\ Unlisted \notin Contents
    /\ PhaseOf \in [Openings -> Phases]
    /\ ScopeOf \in [Openings -> SUBSET ScopePaths]
    /\ DoneFiles \subseteq SUBSET Paths
    /\ HandStatuses \subseteq Statuses
    /\ NoId \notin Ids
    /\ Git \in BOOLEAN /\ CaptureFails \in BOOLEAN
    /\ MaxCalls \in Nat /\ MaxEdits \in Nat

VARIABLES
    tests,      \* the project's test definitions (.awm/awm-tests.yaml)
    workflow,   \* the project's required tasks (.awm/awm-workflows.yaml)
    head,       \* the commit HEAD names
    tree,       \* the working tree
    rows,       \* receipt id -> its row, its plan's paths and its work items
    batches,    \* awm_verification_batches
    runs,       \* awm_runs
    opened,     \* history: head and tree at each capture that opened a receipt
    pc,         \* the next step of each agent's call
    call,       \* the locals of each agent's call
    calls,      \* number of calls issued
    edits       \* number of edits and commits

project == <<tests, workflow, head, tree>>
db == <<rows, batches, runs>>
vars == <<project, db, opened, pc, call, calls, edits>>

(* history in a row: `writer` is the batch whose call set the item of verify:tests, 0 if `work` did. *)
Rows == [captured : BOOLEAN, baseline : Captures, declared : SUBSET ScopePaths,
         items : [ItemKeys -> Statuses \cup {Absent}], writer : Nat]
NoRow == [captured |-> FALSE, baseline |-> Nothing, declared |-> {},
          items |-> [k \in ItemKeys |-> Absent], writer |-> 0]

Empty == [p \in Paths |-> Absent]

NoCall == [receipt |-> NoId, row |-> NoRow, files |-> {}, ok |-> FALSE,
           head |-> Empty, tree |-> Empty, tests |-> {}, selected |-> FALSE, batch |-> 0]

Init ==
    /\ tests \in TestSets /\ workflow \in Workflows
    /\ tree \in Trees
    /\ head \in FirstCommits
    /\ rows = [r \in {} |-> NoRow] /\ batches = << >> /\ runs = {}
    /\ opened = {}
    /\ pc = [a \in Agents |-> "idle"]
    /\ call = [a \in Agents |-> NoCall]
    /\ calls = 0 /\ edits = 0

-------------------------------------------------------------------------------
(* scope_runtime.go and sync.go: the baseline and the delta.               *)

(* Mutant: the list of untracked files left out. *)
CaptureTracked(h, t) ==
    [p \in Paths |-> IF t[p] = h[p] \/ h[p] = Absent THEN Unlisted ELSE t[p]]

(* captureWorkingTreeBaseline: with git what differs from HEAD, otherwise every file there is. *)
Capture(h, t) ==
    [p \in Paths |-> IF (IF Git THEN t[p] = h[p] ELSE t[p] = Absent) THEN Unlisted ELSE t[p]]

(* Mutant: the loop over the baseline left out, only files listed now are compared. *)
DeltaOfListed(baseline, current) ==
    {p \in Paths : current[p] # Unlisted /\ current[p] # baseline[p]}

(* diffSyncPathStates *)
Delta(baseline, current) == {p \in Paths : current[p] # baseline[p]}

Covered(scope) == UNION {Covers[s] : s \in scope}

(* completionEffectiveScopePaths and pathWithinScope *)
InScope(opening, declared) == Covered(ScopeOf[opening]) \cup Covered(declared) \cup Governance

(* Mutant: the supplied files are believed where both are known. *)
SuppliedFirst(row, current, supplied) ==
    IF supplied # {} \/ ~row.captured THEN supplied ELSE Delta(row.baseline, current)

(* resolveDoneFilesChanged, resolveDetectedFilesChanged *)
FilesChanged(row, current, supplied) ==
    IF row.captured THEN Delta(row.baseline, current) ELSE supplied

(* filesChangedMismatchViolations *)
Mismatch(row, current, supplied) ==
    row.captured /\ supplied # {} /\ supplied # Delta(row.baseline, current)

(* matchVerifyDefinition and matchWorkflowRequiredTask: every selector that is given must match. *)
Selects(d, phase, opening, files) ==
    /\ d.phases = {} \/ phase \in d.phases
    /\ d.tags = {} \/ d.tags \cap TagsOf[opening] # {}
    /\ d.paths = {} \/ d.paths \cap files # {}

(* A test needs a selector or always_run to be selected; a required task without one always is. *)
HasSelector(d) == d.phases # {} \/ d.tags # {} \/ d.paths # {}

SelectedTests(phase, opening, files) ==
    {d \in tests : d.always \/ (HasSelector(d) /\ Selects(d, phase, opening, files))}

(* Mutant: no fallback to verify:tests where nothing is configured. *)
ConfiguredKeys(opening, files) ==
    {d.key : d \in {e \in workflow : Selects(e, PhaseOf[opening], opening, files)}}

(* Done: the configured required tasks that match, or verify:tests for any file. *)
RequiredKeys(opening, files) ==
    IF workflow # {} THEN {d.key : d \in {e \in workflow : Selects(e, PhaseOf[opening], opening, files)}}
    ELSE IF files # {} THEN {VerifyTests} ELSE {}

(* Mutant: the baseline is not hashed, as if a task had one receipt for good. *)
IdOfTask(opening, baseline) == [opening |-> opening, baseline |-> Nothing]

(* deterministicReceiptID *)
ReceiptId(opening, baseline) == [opening |-> opening, baseline |-> baseline]

RowOf(r) == IF r \in DOMAIN rows THEN rows[r] ELSE NoRow

Store(r, row) == rows' = [s \in DOMAIN rows \cup {r} |-> IF s = r THEN row ELSE rows[s]]

-------------------------------------------------------------------------------
(* The project's files: steps of the agents, not of awm.                   *)

Edit(p, c) ==
    /\ edits < MaxEdits
    /\ tree[p] # c
    /\ tree' = [tree EXCEPT ![p] = c]
    /\ edits' = edits + 1
    /\ UNCHANGED <<tests, workflow, head, db, opened, pc, call, calls>>

Commit ==
    /\ Git /\ edits < MaxEdits
    /\ head # tree
    /\ head' = tree
    /\ edits' = edits + 1
    /\ UNCHANGED <<tests, workflow, tree, db, opened, pc, call, calls>>

-------------------------------------------------------------------------------
(* Frames: a call starts, goes on, ends.                                   *)

Start(a, locals, step) ==
    /\ pc[a] = "idle" /\ calls < MaxCalls
    /\ calls' = calls + 1
    /\ call' = [call EXCEPT ![a] = locals]
    /\ pc' = [pc EXCEPT ![a] = step]
    /\ UNCHANGED <<project, edits>>

Continue(a, from, locals, step) ==
    /\ pc[a] = from
    /\ call' = [call EXCEPT ![a] = locals]
    /\ pc' = [pc EXCEPT ![a] = step]
    /\ UNCHANGED <<project, calls, edits>>

End(a, from) == Continue(a, from, NoCall, "idle")

(* FetchReceiptScope *)
WithScope(r) == [NoCall EXCEPT !.receipt = r, !.row.captured = RowOf(r).captured,
                               !.row.baseline = RowOf(r).baseline]

(* A whole `work` call as the one write that matters here. *)
AtOnce(a) == Start(a, NoCall, "idle")

-------------------------------------------------------------------------------
(* `context`, and the auto-open of `work`.                                 *)

(* A tree that cannot be read leaves the receipt without a baseline. *)
Open(a) ==
    \E o \in Openings, captured \in {TRUE} \cup {~CaptureFails} :
        LET baseline == IF captured THEN Capture(head, tree) ELSE Nothing
        IN  /\ Start(a, [NoCall EXCEPT !.receipt = ReceiptId(o, baseline),
                                       !.row = [NoRow EXCEPT !.captured = captured, !.baseline = baseline],
                                       !.head = head, !.tree = tree],
                     "persist")
            /\ UNCHANGED <<db, opened>>

(* UpsertReceiptScope overwrites the baseline of a row that exists. *)
Persist(a) ==
    LET c == call[a]
    IN  /\ End(a, "persist")
        /\ Store(c.receipt, [RowOf(c.receipt) EXCEPT !.captured = c.row.captured,
                                                     !.baseline = c.row.baseline])
        /\ opened' = IF c.row.captured
                     THEN opened \cup {[receipt |-> c.receipt, head |-> c.head, tree |-> c.tree]}
                     ELSE opened
        /\ UNCHANGED <<batches, runs>>

(* `work` replaces the plan's discovered_paths or in_scope. *)
Declare(a) ==
    \E r \in DOMAIN rows, declared \in SUBSET ScopePaths :
        /\ AtOnce(a)
        /\ Store(r, [rows[r] EXCEPT !.declared = declared])
        /\ UNCHANGED <<batches, runs, opened>>

(* `work` reports a required task. *)
SetItem(a) ==
    \E r \in DOMAIN rows, k \in ItemKeys, s \in HandStatuses :
        /\ AtOnce(a)
        /\ Store(r, [rows[r] EXCEPT !.items[k] = s,
                                    !.writer = IF k = VerifyTests THEN 0 ELSE @])
        /\ UNCHANGED <<batches, runs, opened>>

-------------------------------------------------------------------------------
(* `verify`                                                                *)

(* A call that names no receipt runs tests and sets no item. *)
StartVerify(a) ==
    \E r \in DOMAIN rows \cup {NoId} :
        /\ Start(a, WithScope(r), "v_select")
        /\ UNCHANGED <<db, opened>>

(* Test ids that are given; a call without a receipt that selects by supplied files is one of these. *)
SelectByName(a) ==
    \E chosen \in (SUBSET tests) \ {{}} :
        /\ Continue(a, "v_select", [call[a] EXCEPT !.tests = chosen], "v_save")
        /\ UNCHANGED <<db, opened>>

(* The definitions that the delta selects; none ends the call. *)
SelectByDelta(a) ==
    LET c == call[a]
    IN  /\ c.receipt # NoId
        /\ \E supplied \in DoneFiles, phase \in Phases :
              LET files == FilesChanged(c.row, Capture(head, tree), supplied)
                  chosen == SelectedTests(phase, c.receipt.opening, files)
              IN  IF chosen = {} THEN End(a, "v_select")
                  ELSE Continue(a, "v_select", [c EXCEPT !.tests = chosen, !.selected = c.row.captured,
                                                         !.head = head, !.tree = tree], "v_save")
        /\ UNCHANGED <<db, opened>>

(* Mutant: a batch that cannot be stored does not end the call. *)
SaveBatchBestEffort(a) ==
    LET c == call[a]
    IN  \E failed \in SUBSET c.tests, stored \in BOOLEAN :
        /\ batches' = IF ~stored THEN batches
                      ELSE Append(batches, [receipt |-> c.receipt, tests |-> c.tests, passed |-> failed = {},
                                            selected |-> c.selected, head |-> c.head, tree |-> c.tree])
        /\ IF c.receipt = NoId THEN End(a, "v_save")
           ELSE Continue(a, "v_save", [c EXCEPT !.batch = Len(batches) + 1, !.ok = failed = {}], "v_item")
        /\ UNCHANGED <<rows, runs, opened>>

(* The tests run, each with an outcome of its own, and the batch is stored. *)
SaveBatch(a) ==
    LET c == call[a]
    IN  \E failed \in SUBSET c.tests :
        /\ batches' = Append(batches, [receipt |-> c.receipt, tests |-> c.tests, passed |-> failed = {},
                                       selected |-> c.selected, head |-> c.head, tree |-> c.tree])
        /\ IF c.receipt = NoId THEN End(a, "v_save")
           ELSE Continue(a, "v_save", [c EXCEPT !.batch = Len(batches) + 1, !.ok = failed = {}], "v_item")
        /\ UNCHANGED <<rows, runs, opened>>

(* Mutant: the verdict is reported in the words of the batch. *)
UpdateItemVerbatim(a) ==
    LET c == call[a]
    IN  /\ End(a, "v_item")
        /\ Store(c.receipt, [rows[c.receipt] EXCEPT
                    !.items[VerifyTests] = IF c.ok THEN "passed" ELSE "failed",
                    !.writer = c.batch])
        /\ UNCHANGED <<batches, runs, opened>>

(* updateVerifyWork *)
UpdateItem(a) ==
    LET c == call[a]
    IN  /\ End(a, "v_item")
        /\ Store(c.receipt, [rows[c.receipt] EXCEPT
                    !.items[VerifyTests] = IF c.ok THEN "complete" ELSE "blocked",
                    !.writer = c.batch])
        /\ UNCHANGED <<batches, runs, opened>>

-------------------------------------------------------------------------------
(* `done`                                                                  *)

StartDone(a) ==
    \E r \in DOMAIN rows :
        /\ Start(a, WithScope(r), "d_plan")
        /\ UNCHANGED <<db, opened>>

LoadPlan(a) ==
    LET c == call[a]
    IN  /\ Continue(a, "d_plan", [c EXCEPT !.row.declared = rows[c.receipt].declared], "d_detect")
        /\ UNCHANGED <<db, opened>>

(* The delta and the violations; a no_file_changes that is denied by the delta ends the call, and *)
(* so does having neither a delta, nor files, nor that flag.                                      *)
Detect(a) ==
    LET c == call[a]
        current == Capture(head, tree)
    IN  /\ \E supplied \in DoneFiles, noFileChanges \in BOOLEAN :
              LET files == FilesChanged(c.row, current, supplied)
              IN  /\ noFileChanges => supplied = {}
                  /\ IF IF c.row.captured THEN noFileChanges /\ files # {} ELSE files = {} /\ ~noFileChanges
                     THEN End(a, "d_detect")
                     ELSE Continue(a, "d_detect",
                            [c EXCEPT !.files = files, !.head = head, !.tree = tree,
                                      !.ok = /\ ~Mismatch(c.row, current, supplied)
                                             /\ files \subseteq InScope(c.receipt.opening, c.row.declared)],
                            "d_items")
        /\ UNCHANGED <<db, opened>>

ListItems(a) ==
    LET c == call[a]
    IN  /\ Continue(a, "d_items", [c EXCEPT !.row.items = rows[c.receipt].items,
                                            !.row.writer = rows[c.receipt].writer], "d_judge")
        /\ UNCHANGED <<db, opened>>

(* A strict run with violations or open gates is rejected and leaves nothing behind. *)
Judge(a) ==
    LET c == call[a]
        gates == \A k \in RequiredKeys(c.receipt.opening, c.files) : c.row.items[k] = "complete"
    IN  /\ End(a, "d_judge")
        /\ \E strict \in BOOLEAN :
              runs' = IF strict /\ ~(c.ok /\ gates) THEN runs
                      ELSE runs \cup {[receipt |-> c.receipt, row |-> c.row, files |-> c.files,
                                      status |-> IF c.ok /\ gates THEN "accepted" ELSE "accepted_with_warnings",
                                      head |-> c.head, tree |-> c.tree]}
        /\ UNCHANGED <<rows, batches, opened>>

-------------------------------------------------------------------------------
(* A crash, a cancelled context or a failed statement ends a call where it is. *)
Crash(a) ==
    /\ pc[a] # "idle"
    /\ End(a, pc[a])
    /\ UNCHANGED <<db, opened>>

Next ==
    \/ \E p \in Paths, c \in Contents \cup {Absent} : Edit(p, c)
    \/ Commit
    \/ \E a \in Agents :
          \/ Open(a) \/ Persist(a) \/ Declare(a) \/ SetItem(a)
          \/ StartVerify(a) \/ SelectByName(a) \/ SelectByDelta(a) \/ SaveBatch(a) \/ UpdateItem(a)
          \/ StartDone(a) \/ LoadPlan(a) \/ Detect(a) \/ ListItems(a) \/ Judge(a)
          \/ Crash(a)

Spec == Init /\ [][Next]_vars

-------------------------------------------------------------------------------
(* Properties.                                                             *)

Calls == [receipt : Ids \cup {NoId}, row : Rows, files : SUBSET Paths, ok : BOOLEAN,
          head : Trees, tree : Trees, tests : SUBSET tests, selected : BOOLEAN, batch : Nat]

Runs == [receipt : Ids, row : Rows, files : SUBSET Paths, head : Trees, tree : Trees,
         status : {"accepted", "accepted_with_warnings"}]

Batches == [receipt : Ids \cup {NoId}, tests : SUBSET tests, passed : BOOLEAN,
            selected : BOOLEAN, head : Trees, tree : Trees]

Steps == {"idle", "persist", "d_plan", "d_detect", "d_items", "d_judge", "v_select", "v_save", "v_item"}

(* Type correctness of the stored rows, the history and the calls. *)
TypeOK ==
    /\ head \in Trees /\ tree \in Trees
    /\ DOMAIN rows \subseteq Ids /\ \A r \in DOMAIN rows : rows[r] \in Rows
    /\ batches \in Seq(Batches) /\ runs \subseteq Runs
    /\ opened \subseteq [receipt : Ids, head : Trees, tree : Trees]
    /\ pc \in [Agents -> Steps] /\ call \in [Agents -> Calls]
    /\ calls \in 0 .. MaxCalls /\ edits \in 0 .. MaxEdits

(* The files whose content differs between an opening and a later moment. *)
Changed(o, t) == {p \in Paths : t[p] # o.tree[p]}

(* Nothing was committed between an opening and a later moment. *)
SameHead(o, h) == Git => h = o.head

(* While nothing is committed the delta is what has really changed: no edit, creation, deletion or *)
(* revert is missed and none is invented, whoever opened the receipt, and however dirty the tree   *)
(* was (captureWorkingTreeBaseline and diffSyncPathStates against the tree itself).                *)
DeltaIsExact ==
    \A o \in opened :
        LET row == rows[o.receipt]
        IN  row.captured /\ SameHead(o, head) => Delta(row.baseline, Capture(head, tree)) = Changed(o, tree)

(* A run that `done` stored as plainly accepted, or a strict one, changed nothing outside the scope: *)
(* all that really differs between the opening of the receipt and the moment of the delta is covered *)
(* by the receipt's paths, the plan's paths as `done` read them, and the governance files.           *)
AcceptedStaysInScope ==
    \A run \in runs, o \in opened :
        /\ run.status = "accepted" /\ run.row.captured
        /\ o.receipt = run.receipt /\ SameHead(o, run.head)
        => Changed(o, run.tree) \subseteq InScope(run.receipt.opening, run.row.declared)

(* The same without the exception for commits, as docs/concepts.md:123 has it: the effective scope    *)
(* and the baseline "validate what actually changed".                                                 *)
AcceptedChangesInScope ==
    \A run \in runs, o \in opened :
        run.status = "accepted" /\ run.row.captured /\ o.receipt = run.receipt
        => Changed(o, run.tree) \subseteq InScope(run.receipt.opening, run.row.declared)

(* An accepted run met the gates of what had really changed: every required task whose path selector *)
(* a changed file matches, or verify:tests where none is configured, was complete when it was read.  *)
AcceptedMetGates ==
    \A run \in runs, o \in opened :
        /\ run.status = "accepted" /\ run.row.captured
        /\ o.receipt = run.receipt /\ SameHead(o, run.head)
        => LET changed == Changed(o, run.tree)
           IN  /\ workflow = {} /\ changed # {} => run.row.items[VerifyTests] = "complete"
               /\ \A d \in workflow : d.phases \cup d.tags = {} /\ d.paths \cap changed # {}
                                      => run.row.items[d.key] = "complete"

(* verify:tests shows a verdict of `verify` only if a batch of that receipt with that verdict is     *)
(* stored: in the items, and in what an accepted run has read (SaveVerificationBatch before          *)
(* updateVerifyWork, whatever fails or overlaps).                                                    *)
VerdictHasBatch ==
    \A e \in {[receipt |-> r, row |-> rows[r]] : r \in DOMAIN rows} \cup runs :
        e.row.writer # 0 =>
            /\ e.row.writer \in DOMAIN batches
            /\ batches[e.row.writer].receipt = e.receipt
            /\ batches[e.row.writer].passed <=> e.row.items[VerifyTests] = "complete"

(* A `verify` that leaves the choice to the definitions runs every test that asks for a file the task *)
(* has really changed (matchVerifyDefinition over the delta).                                         *)
ChangesSelectTests ==
    \A n \in DOMAIN batches, o \in opened :
        /\ batches[n].selected /\ batches[n].receipt = o.receipt /\ SameHead(o, batches[n].head)
        => \A d \in tests : d.phases \cup d.tags = {} /\ d.paths \cap Changed(o, batches[n].tree) # {}
                             => d \in batches[n].tests

(* A receipt that has a baseline keeps it, however often it is opened again; only an empty baseline,  *)
(* which a failed capture shares with a clean tree, can lose its mark.                                *)
BaselineIsKept ==
    [][\A r \in DOMAIN rows : rows[r].captured /\ rows[r].baseline # Nothing
        => rows'[r].captured /\ rows'[r].baseline = rows[r].baseline]_vars

===============================================================================
