------------------------------ MODULE PointerIndex ------------------------------
(***************************************************************************)
(* The pointer index and the calls that refresh it: `sync`, `health` with  *)
(* its fixers, and `init`.  The index has a row for each file it knows and *)
(* a row for each rule of a ruleset file.                                  *)
(*                                                                         *)
(* All of these calls are made of the same parts, one after the other,     *)
(* and each part is a few reads followed by one transaction:               *)
(*                                                                         *)
(*   sync:    list -> (hash) -> apply                                      *)
(*   rules:   discover -> (parse -> put), once per ruleset file            *)
(*   tree:    tree            (the files there are, for `health`)          *)
(*   cached:  cached -> seed  (the files git knows or sees, for `init`)    *)
(*   index:   inventory -> stubs                                           *)
(*                                                                         *)
(* The project is edited and committed meanwhile, calls overlap, and an    *)
(* error or a crash ends a call anywhere.  Ruleset files are awm's own     *)
(* (.awm/..., awm-rules.yaml): no list of project files has them.          *)
(***************************************************************************)
EXTENDS Naturals, Sequences

CONSTANTS
    Agents,          \* the processes that issue calls
    Files,           \* files of the project that git does not ignore
    Contents,        \* what a file can contain
    FirstCommits,    \* what the last two commits can be at first
    Primary,         \* .awm/awm-rules.yaml
    Secondary,       \* awm-rules.yaml
    OtherSources,    \* ruleset files that calls name explicitly
    Rules,           \* rule ids
    FirstRuleFiles,  \* what the ruleset files can be at first
    RuleVersions,    \* what an edit can leave in each ruleset file
    FixerLists,      \* values of `fixers` in health
    MaxCalls,        \* bound: number of calls in a behaviour
    MaxEdits         \* bound: number of edits and commits in a behaviour

Absent == "absent"
Modes == {"changed", "full", "working_tree"}
Sources == {Primary, Secondary} \cup OtherSources
Trees == [Files -> Contents \cup {Absent}]

(* A ruleset file that is missing, that does not parse, or that has rules. *)
Missing == [state |-> "missing", rules |-> {}]
Broken == [state |-> "broken", rules |-> {}]
Ruleset(set) == [state |-> "ok", rules |-> set]
RuleFiles == {Missing, Broken} \cup {Ruleset(set) : set \in SUBSET Rules}

(* Content hashes: blob ids of git, digests of the working tree, or NULL. *)
Hashes == [kind : {"git", "sha256"}, of : Contents \cup {Absent}]
Null == [kind |-> "null", of |-> Absent]
Hash(kind, content) == [kind |-> kind, of |-> content]

Fixers == {"sync_working_tree", "index_unindexed_files", "sync_ruleset"}

ASSUME IndexAssumption ==
    /\ Primary # Secondary
    /\ Absent \notin Contents
    /\ FirstCommits \subseteq Trees
    /\ FirstRuleFiles \subseteq [Sources -> RuleFiles]
    /\ RuleVersions \in [Sources -> SUBSET RuleFiles]
    /\ FixerLists \subseteq UNION {[1..n -> Fixers] : n \in 1..3}
    /\ MaxCalls \in Nat /\ MaxEdits \in Nat

VARIABLES
    parent,      \* the commit HEAD~1
    head,        \* the commit HEAD
    tree,        \* the working tree
    ruleFiles,   \* the ruleset files
    rows,        \* awm_pointers: the row of each file
    rules,       \* awm_pointers: the rows of each ruleset file
    candidates,  \* awm_pointer_candidates
    seen,        \* history: the sets of rules each ruleset file has had
    pc,          \* the next step of each agent's call
    call,        \* the locals of each agent's call
    calls,       \* number of calls issued
    edits        \* number of edits and commits

commits == <<parent, head>>
index == <<rows, rules, candidates>>
vars == <<commits, tree, ruleFiles, index, seen, pc, call, calls, edits>>

Rows == [state : {"none", "live", "stale"}, hash : Hashes \cup {Null}]
NoRow == [state |-> "none", hash |-> Null]
NoRows == [f \in Files |-> NoRow]
NoHash == [f \in Files |-> Null]

(* The parts of each kind of call, and the first step of each part. *)
SyncParts(insert) == IF insert THEN <<"sync", "rules", "index">> ELSE <<"sync", "rules">>
InitParts == <<"cached", "rules", "index">>

FixerParts(fixer) ==
    CASE fixer = "sync_working_tree"     -> SyncParts(TRUE)
      [] fixer = "index_unindexed_files" -> <<"tree", "index">>
      [] fixer = "sync_ruleset"          -> <<"rules">>

FirstStep(part) ==
    CASE part = "sync"   -> "list"
      [] part = "rules"  -> "discover"
      [] part = "tree"   -> "tree"
      [] part = "cached" -> "cached"
      [] part = "index"  -> "inventory"

(* executeHealthFixer for each fixer of the payload; there are at most three. *)
HealthParts(fixers) ==
    LET Nth(n) == IF n <= Len(fixers) THEN FixerParts(fixers[n]) ELSE << >>
    IN  Nth(1) \o Nth(2) \o Nth(3)

(* history in a call: `before`, the rows when it began; `calm`, nobody else has written since. *)
NoCall == [kind |-> "none", parts |-> << >>, at |-> 0, mode |-> "changed", insert |-> FALSE,
           sources |-> << >>, nth |-> 0, found |-> {}, parsed |-> {},
           present |-> {}, deleted |-> {}, hash |-> NoHash,
           live |-> {}, missing |-> {}, before |-> NoRows, calm |-> FALSE]

Init ==
    /\ parent \in FirstCommits /\ head \in FirstCommits /\ tree = head
    /\ ruleFiles \in FirstRuleFiles
    /\ rows = NoRows
    /\ rules = [s \in Sources |-> [r \in Rules |-> "none"]]
    /\ candidates = {}
    /\ seen = [s \in Sources |-> {{}, ruleFiles[s].rules}]
    /\ pc = [a \in Agents |-> "idle"]
    /\ call = [a \in Agents |-> NoCall]
    /\ calls = 0 /\ edits = 0

-------------------------------------------------------------------------------
(* The project, edited outside the program.                                *)

(* history: a call is no longer calm once somebody else has written. *)
Disturbed(by) == [a \in Agents |->
    IF a \in by THEN call[a] ELSE [call[a] EXCEPT !.calm = FALSE, !.before = NoRows]]

MayEdit == edits < MaxEdits /\ edits' = edits + 1

Edit(f, content) ==
    /\ MayEdit /\ content # tree[f]
    /\ tree' = [tree EXCEPT ![f] = content]
    /\ call' = Disturbed({})
    /\ UNCHANGED <<commits, ruleFiles, index, seen, pc, calls>>

(* `git commit` of some of the files that differ from HEAD. *)
Commit(changed) ==
    /\ MayEdit /\ changed # {} /\ \A f \in changed : tree[f] # head[f]
    /\ parent' = head
    /\ head' = [f \in Files |-> IF f \in changed THEN tree[f] ELSE head[f]]
    /\ call' = Disturbed({})
    /\ UNCHANGED <<tree, ruleFiles, index, seen, pc, calls>>

WriteRuleFile(s, file) ==
    /\ ruleFiles' = [ruleFiles EXCEPT ![s] = file]
    /\ seen' = [seen EXCEPT ![s] = @ \cup {file.rules}]

EditRules(s, file) ==
    /\ MayEdit /\ file # ruleFiles[s]
    /\ WriteRuleFile(s, file)
    /\ call' = Disturbed({})
    /\ UNCHANGED <<commits, tree, index, pc, calls>>

-------------------------------------------------------------------------------
(* The start and the end of a call, and of a part of it.                   *)

(* The ruleset files of a call: the two default ones, or the one it names. *)
SourceLists == {<<Primary, Secondary>>} \cup {<<s>> : s \in Sources}

(* An argument is chosen by the step that uses it first: the mode and the ruleset files are not here. *)
Start(a, kind, parts, insert) ==
    /\ pc[a] = "idle" /\ calls < MaxCalls
    /\ calls' = calls + 1
    /\ pc' = [pc EXCEPT ![a] = FirstStep(Head(parts))]
    /\ call' = [call EXCEPT ![a] =
         [NoCall EXCEPT !.kind = kind, !.parts = parts, !.at = 1, !.insert = insert,
                        !.before = rows, !.calm = TRUE]]
    /\ UNCHANGED <<commits, tree, ruleFiles, index, seen, edits>>

StartSync(a) == \E insert \in BOOLEAN : Start(a, "sync", SyncParts(insert), insert)
StartHealthFix(a) == \E fixers \in FixerLists : Start(a, "health", HealthParts(fixers), TRUE)
StartInit(a) == Start(a, "init", InitParts, FALSE)

(* The call goes on with step `step` and locals `locals`. *)
GoOn(a, step, locals) ==
    /\ pc' = [pc EXCEPT ![a] = step]
    /\ call' = [call EXCEPT ![a] = locals]

(* A transaction has committed: the calls of the others are no longer calm. *)
Committed(a, step, locals) ==
    /\ pc' = [pc EXCEPT ![a] = step]
    /\ call' = [Disturbed({a}) EXCEPT ![a] = locals]

(* The step after the last one of a part; what only that part used is out of scope. *)
AfterPart(c) == IF c.at < Len(c.parts) THEN FirstStep(c.parts[c.at + 1]) ELSE "done"
EndPart(c) == [c EXCEPT !.at = @ + 1, !.present = {}, !.deleted = {}, !.hash = NoHash,
                        !.nth = 0, !.found = {}, !.parsed = {}, !.missing = {}]

(* The result is returned, or the call is cut short by an error or a crash. *)
Return(a) ==
    /\ pc[a] # "idle"
    /\ GoOn(a, "idle", NoCall)
    /\ UNCHANGED <<commits, tree, ruleFiles, index, seen, calls, edits>>

-------------------------------------------------------------------------------
(* sync.go and ApplySync: the paths of a mode, their hashes, the rows.     *)

Listed(c, mode, present, deleted) ==
    [c EXCEPT !.mode = mode, !.present = present, !.deleted = deleted, !.live = present]

(* collectFullSyncPaths: `git ls-tree HEAD` gives the paths with their hashes. *)
ListFull(a) ==
    /\ pc[a] = "list" /\ call[a].kind = "sync"
    /\ LET present == {f \in Files : head[f] # Absent}
       IN  GoOn(a, "apply", [Listed(call[a], "full", present, {}) EXCEPT
                 !.hash = [f \in Files |-> IF f \in present THEN Hash("git", head[f]) ELSE Null]])
    /\ UNCHANGED <<commits, tree, ruleFiles, index, seen, calls, edits>>

(* Mutant: the list of untracked files left out. *)
PresentTracked(from, to) == {f \in Files : to[f] # from[f] /\ to[f] # Absent /\ from[f] # Absent}

(* parseChangedNameStatus: the files that differ between two trees and are there in the second. *)
Present(from, to) == {f \in Files : to[f] # from[f] /\ to[f] # Absent}

(* Mutant: status D not handled. *)
NoneDeleted(from, to) == {}

(* Those that are not. *)
Deleted(from, to) == {f \in Files : to[f] # from[f] /\ to[f] = Absent}

ListDiff(a, mode, from, to) ==
    /\ pc[a] = "list"
    /\ GoOn(a, "hash", Listed(call[a], mode, Present(from, to), Deleted(from, to)))
    /\ UNCHANGED <<commits, tree, ruleFiles, index, seen, calls, edits>>

(* collectChangedSyncPaths, of the default range HEAD~1..HEAD *)
ListChanged(a) == call[a].kind = "sync" /\ ListDiff(a, "changed", parent, head)

(* collectWorkingTreeSyncPaths: `git diff HEAD` and the untracked files *)
ListWorkingTree(a) == ListDiff(a, "working_tree", head, tree)

(* resolveContentHashes and computeFileHashes: the end of the range, or the files, are hashed. *)
HashSource(c) == IF c.mode = "changed" THEN head ELSE tree

(* A listed file that is gone is an error. *)
HashFiles(a) ==
    /\ pc[a] = "hash"
    /\ LET c    == call[a]
           kind == IF c.mode = "changed" THEN "git" ELSE "sha256"
           from == HashSource(c)
       IN  /\ \A f \in c.present : from[f] # Absent
           /\ GoOn(a, "apply", [c EXCEPT !.hash =
                 [f \in Files |-> IF f \in c.present THEN Hash(kind, from[f]) ELSE Null]])
    /\ UNCHANGED <<commits, tree, ruleFiles, index, seen, calls, edits>>

MarkStale(row) == IF row.state = "live" THEN [row EXCEPT !.state = "stale"] ELSE row

(* Mutant: the pointers that `full` does not list are left as they are. *)
SyncedRowListed(c, f) ==
    IF rows[f].state = "none" THEN rows[f]
    ELSE IF f \in c.present THEN [state |-> "live", hash |-> c.hash[f]]
    ELSE IF f \in c.deleted THEN MarkStale(rows[f])
    ELSE rows[f]

(* The statements of ApplySync on one row; of the present files the hash and the mark are set. *)
SyncedRow(c, f) ==
    IF rows[f].state = "none" THEN rows[f]
    ELSE IF f \in c.present THEN [state |-> "live", hash |-> c.hash[f]]
    ELSE IF f \in c.deleted \/ c.mode = "full" THEN MarkStale(rows[f])
    ELSE rows[f]

(* ApplySync, one transaction.  No ruleset file is present, so `full` marks the rows of all rules. *)
Apply(a) ==
    /\ pc[a] = "apply"
    /\ LET c == call[a]
       IN  /\ rows' = [f \in Files |-> SyncedRow(c, f)]
           /\ rules' = [s \in Sources |-> [r \in Rules |->
                 IF c.mode = "full" /\ rules[s][r] = "live" THEN "stale" ELSE rules[s][r]]]
           /\ candidates' = candidates \cup
                 {f \in c.present : c.insert /\ rows[f].state = "none"}
           /\ Committed(a, AfterPart(c), EndPart(c))
    /\ UNCHANGED <<commits, tree, ruleFiles, seen, calls, edits>>

-------------------------------------------------------------------------------
(* ruleset.go and SyncRulePointers: one transaction per ruleset file.      *)

SourcesOf(c) == IF c.sources = << >> THEN SourceLists ELSE {c.sources}

(* discoverCanonicalRulesetSources *)
Discover(a) ==
    /\ pc[a] = "discover"
    /\ \E sources \in SourcesOf(call[a]) :
         GoOn(a, "parse", [call[a] EXCEPT !.sources = sources, !.nth = 1,
                             !.found = {s \in Sources : ruleFiles[s].state # "missing"}])
    /\ UNCHANGED <<commits, tree, ruleFiles, index, seen, calls, edits>>

Source(c) == c.sources[c.nth]

(* parseCanonicalRulesetFile, of a file that was there; one that is gone or broken is an error. *)
Parse(a) ==
    /\ pc[a] = "parse"
    /\ LET s == Source(call[a])
       IN  /\ s \in call[a].found => ruleFiles[s].state = "ok"
           /\ GoOn(a, "put", [call[a] EXCEPT !.parsed =
                 IF s \in call[a].found THEN ruleFiles[s].rules ELSE {}])
    /\ UNCHANGED <<commits, tree, ruleFiles, index, seen, calls, edits>>

(* The upsert of SyncRulePointers.  Mutant of PutRules: the DELETE left out. *)
Upserted(s, supplied) == [r \in Rules |-> IF r \in supplied THEN "live" ELSE rules[s][r]]

(* SyncRulePointers: the rules supplied are upserted, the others of the file are deleted. *)
PutRules(s, supplied) == [r \in Rules |-> IF r \in supplied THEN Upserted(s, supplied)[r] ELSE "none"]

(* Mutant: an index compared with <=. *)
OneMoreSource(c) == c.nth <= Len(c.sources)

(* Mutant: the first ruleset that is found is the only one. *)
FirstSourceOnly(c) == c.nth < Len(c.sources) /\ Source(c) \notin c.found

MoreSources(c) == c.nth < Len(c.sources)

Put(a) ==
    /\ pc[a] = "put"
    /\ LET c == call[a]
       IN  /\ rules' = [rules EXCEPT ![Source(c)] = PutRules(Source(c), c.parsed)]
           /\ IF MoreSources(c)
              THEN Committed(a, "parse", [c EXCEPT !.nth = @ + 1])
              ELSE Committed(a, AfterPart(c), EndPart(c))
    /\ UNCHANGED <<commits, tree, ruleFiles, rows, candidates, seen, calls, edits>>

-------------------------------------------------------------------------------
(* inventory_health.go, maintenance.go and upsertAutoIndexedPaths: stubs.  *)

(* Mutant: without the untracked files. *)
TrackedFiles(c) == {f \in Files : head[f] # Absent /\ tree[f] # Absent}

(* collectInventoryPaths: the files there are; collectInitCandidatePaths: those git tracks as well,
   though they be deleted. *)
InventoryPaths(c) == {f \in Files : tree[f] # Absent \/ (c.kind = "init" /\ head[f] # Absent)}

ListTree(a) ==
    /\ pc[a] = "tree"
    /\ GoOn(a, AfterPart(call[a]), [EndPart(call[a]) EXCEPT !.live = InventoryPaths(call[a])])
    /\ UNCHANGED <<commits, tree, ruleFiles, index, seen, calls, edits>>

ListCached(a) ==
    /\ pc[a] = "cached"
    /\ GoOn(a, "seed", [call[a] EXCEPT !.live = InventoryPaths(call[a])])
    /\ UNCHANGED <<commits, tree, ruleFiles, index, seen, calls, edits>>

(* EnsureProjectScaffold: an empty ruleset where there is none and none is named. *)
Seed(a) ==
    /\ pc[a] = "seed"
    /\ \E sources \in SourceLists :
         /\ IF Len(sources) = 2 /\ \A s \in {Primary, Secondary} : ruleFiles[s].state = "missing"
            THEN WriteRuleFile(Primary, Ruleset({}))
            ELSE UNCHANGED <<ruleFiles, seen>>
         /\ Committed(a, AfterPart(call[a]), [EndPart(call[a]) EXCEPT !.sources = sources])
    /\ UNCHANGED <<commits, tree, index, calls, edits>>

(* ListPointerInventory: the listed files without a row. *)
Inventory(a) ==
    /\ pc[a] = "inventory"
    /\ GoOn(a, "stubs", [call[a] EXCEPT !.missing = {f \in call[a].live : rows[f].state = "none"}])
    /\ UNCHANGED <<commits, tree, ruleFiles, index, seen, calls, edits>>

(* UpsertPointerStubs: a row inserted meanwhile keeps its hash and is no longer stale. *)
Stubs(a) ==
    /\ pc[a] = "stubs"
    /\ rows' = [f \in Files |-> IF f \in call[a].missing
                                THEN [rows[f] EXCEPT !.state = "live"] ELSE rows[f]]
    /\ Committed(a, AfterPart(call[a]), EndPart(call[a]))
    /\ UNCHANGED <<commits, tree, ruleFiles, rules, candidates, seen, calls, edits>>

-------------------------------------------------------------------------------
EditProject ==
    \/ \E f \in Files, content \in Contents \cup {Absent} : Edit(f, content)
    \/ \E changed \in SUBSET Files : Commit(changed)
    \/ \E s \in Sources : \E file \in RuleVersions[s] : EditRules(s, file)

StartCall(a) == StartSync(a) \/ StartHealthFix(a) \/ StartInit(a)

Step(a) ==
    \/ ListFull(a) \/ ListChanged(a) \/ ListWorkingTree(a) \/ HashFiles(a) \/ Apply(a)
    \/ Discover(a) \/ Parse(a) \/ Put(a)
    \/ ListTree(a) \/ ListCached(a) \/ Seed(a) \/ Inventory(a) \/ Stubs(a)

Next == EditProject \/ \E a \in Agents : StartCall(a) \/ Step(a) \/ Return(a)

Spec == Init /\ [][Next]_vars

-------------------------------------------------------------------------------
(* Properties.                                                             *)

Parts == {"sync", "rules", "tree", "cached", "index"}
Steps == {"idle", "list", "hash", "apply", "discover", "parse", "put",
          "tree", "cached", "seed", "inventory", "stubs", "done"}

Calls == [kind : {"none", "sync", "health", "init"}, parts : Seq(Parts), at : Nat, mode : Modes,
          insert : BOOLEAN, sources : {<< >>} \cup SourceLists, nth : 0..2,
          found : SUBSET Sources, parsed : SUBSET Rules,
          present : SUBSET Files, deleted : SUBSET Files, hash : [Files -> Hashes \cup {Null}],
          live : SUBSET Files, missing : SUBSET Files, before : [Files -> Rows], calm : BOOLEAN]

(* Every variable has its type. *)
TypeOK ==
    /\ parent \in Trees /\ head \in Trees /\ tree \in Trees
    /\ ruleFiles \in [Sources -> RuleFiles]
    /\ rows \in [Files -> Rows]
    /\ rules \in [Sources -> [Rules -> {"none", "live", "stale"}]]
    /\ candidates \subseteq Files
    /\ seen \in [Sources -> SUBSET SUBSET Rules]
    /\ pc \in [Agents -> Steps]
    /\ call \in [Agents -> Calls]
    /\ \A a \in Agents : call[a].nth <= Len(call[a].sources)
    /\ calls \in 0..MaxCalls /\ edits \in 0..MaxEdits

(* The rules stored for a file are those of one version of it, and either all of them can be fetched   *)
(* or none: overlapping and cut-short calls mix neither versions nor marks (SyncRulePointers).         *)
RulesComeWhole == \A s \in Sources :
    LET stored == {r \in Rules : rules[s][r] # "none"}
    IN  stored \in seen[s] /\ \A r, q \in stored : rules[s][r] = rules[s][q]

(* The index is up to date with `files`: a live row for each file that is there, with no hash or with
   that of its content, and no live row for the others. *)
UpToDate(table, files) == \A f \in Files :
    IF files[f] = Absent THEN table[f].state # "live"
    ELSE table[f].state = "live" /\ (table[f].hash = Null \/ table[f].hash.of = files[f])

(* The call of a has done all it had to, and nobody else wrote from its start to now. *)
Completed(a, kind) == pc[a] = "done" /\ call[a].calm /\ call[a].kind = kind

SyncCompleted(a, mode) == Completed(a, "sync") /\ call[a].mode = mode /\ call[a].insert

(* A full sync that nobody disturbs brings the index up to date with HEAD whatever was in it: it       *)
(* repairs what races and cut-short calls have left (collectFullSyncPaths, ApplySync).                 *)
FullSyncRepairs == \A a \in Agents : SyncCompleted(a, "full") => UpToDate(rows, head)

(* A sync of the last commit, undisturbed, takes an index that was up to date with HEAD~1 to HEAD      *)
(* (collectChangedSyncPaths): following every commit is as good as a full sync.                        *)
ChangedSyncKeepsUp == \A a \in Agents :
    SyncCompleted(a, "changed") /\ UpToDate(call[a].before, parent) => UpToDate(rows, head)

(* A sync of the working tree, undisturbed, takes an index that was up to date with HEAD to the        *)
(* working tree (collectWorkingTreeSyncPaths).                                                         *)
WorkingTreeSyncKeepsUp == \A a \in Agents :
    SyncCompleted(a, "working_tree") /\ UpToDate(call[a].before, head) => UpToDate(rows, tree)

(* An undisturbed call that syncs rulesets leaves the rules of each ruleset file it reads as they are  *)
(* in the file, and none of a file that is gone, in whatever order its parts ran                       *)
(* (syncCanonicalRulesets after ApplySync, healthFix).                                                 *)
RulesFollowFiles == \A a \in Agents : \A i \in 1..Len(call[a].parts) :
    /\ pc[a] = "done" /\ call[a].calm
    /\ call[a].parts[i] = "rules"
    => \A n \in 1..Len(call[a].sources) :
         LET s == call[a].sources[n]
         IN  \A r \in Rules : rules[s][r] = IF r \in ruleFiles[s].rules THEN "live" ELSE "none"

(* After `init`, or a health fix that indexes files, undisturbed, each file of the tree has a row      *)
(* (collectInventoryPaths, collectInitCandidatePaths, UpsertPointerStubs).                             *)
EveryFileIndexed == \A a \in Agents : \A i \in 1..Len(call[a].parts) :
    /\ pc[a] = "done" /\ call[a].calm
    /\ call[a].parts[i] \in {"tree", "cached"}
    => \A f \in Files : tree[f] # Absent => rows[f].state # "none"

===============================================================================
