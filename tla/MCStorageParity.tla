---- MODULE MCStorageParity ----
(* Few inputs of each operation, chosen so that rows are inserted, updated,  *)
(* found stale, brought back, deleted and searched within a few calls.       *)
EXTENDS StorageParity

Stub(k, p, kind) == [key |-> k, path |-> p, kind |-> kind, text |-> {"stub"}]
MCStubLists == {<<Stub(Blank, 1, "code"), Stub(Blank, 2, "doc")>>, <<Stub(5, 1, "code"), Stub(5, 2, "code")>>}

Rule(k, t) == [key |-> k, text |-> {t}]
MCRuleSyncs == {[source |-> 3, rules |-> <<Rule(6, "a"), Rule(7, "a"), Rule(6, "b")>>],
                [source |-> 3, rules |-> <<Rule(7, "b")>>]}

At(p, h)  == [key |-> p, deleted |-> FALSE, hash |-> h]
Gone(p)   == [key |-> p, deleted |-> TRUE, hash |-> Null]
MCSyncInputs == {[mode |-> "full", insertNew |-> TRUE, paths |-> <<At(1, "h1"), At(4, "h1")>>],
                 [mode |-> "full", insertNew |-> TRUE, paths |-> <<>>],
                 [mode |-> "changed", insertNew |-> TRUE, paths |-> <<At(2, "h2"), Gone(1), At(3, "h1")>>],
                 [mode |-> "changed", insertNew |-> FALSE, paths |-> <<Gone(2), At(2, "h1"), Gone(1)>>]}

MCScopeInputs == {[key |-> r, task |-> "t", phase |-> p, pointers |-> {1}, scope |-> {r},
                   baseline |-> b, actor |-> "agent"] :
                      r \in {1, 2}, p \in {Blank, "plan"}, b \in {"base"}}
Run(r, t, files, issues) ==
    [key |-> r, task |-> t, phase |-> Blank, pointers |-> {}, status |-> Blank, request |-> "q",
     files |-> files, outcome |-> "done", issues |-> issues]
MCRunInputs == {Run(1, "t", {}, {"i"}), Run(2, "u", {"f"}, {}), [Run(1, "u", {}, {}) EXCEPT !.status = "accepted_with_warnings"]}
Item(k, s) == [key |-> k, status |-> s]
MCItemInputs == {[receipt |-> 1, list |-> <<Item(1, "complete"), Item(2, "pending"), Item(1, "blocked")>>],
                 [receipt |-> 1, list |-> <<Item(1, "complete")>>],
                 [receipt |-> 2, list |-> <<Item(2, "complete")>>]}

Task(k, s, t, r) == [key |-> k, status |-> s, text |-> t, reason |-> r]
Plan(k, mode, tasks) ==
    [key |-> k, mode |-> mode, receipt |-> k, text |-> {}, kind |-> Blank, status |-> Blank,
     stages |-> Blank, tasks |-> tasks]
MCPlanInputs ==
    {Plan(1, "merge", <<Task(1, "in_progress", {"t"}, Blank), Task(2, Blank, {}, Blank)>>),
     Plan(1, "merge", <<Task(1, "blocked", {}, "why"), Task(1, Blank, {"u"}, Blank)>>),
     Plan(1, "replace", <<Task(2, "complete", {}, Blank), Task(3, "superseded", {}, Blank)>>),
     [Plan(1, "merge", <<>>) EXCEPT !.text = {"p"}, !.status = "blocked"],
     [Plan(2, "merge", <<Task(1, "complete", {}, Blank)>>) EXCEPT !.kind = "story"],
     [Plan(2, "replace", <<>>) EXCEPT !.status = "superseded", !.stages = "complete"]}

Attempt(r, review, status, age) ==
    [receipt |-> r, review |-> review, fingerprint |-> "fp", status |-> status, timeout |-> 1, created |-> age]
MCAttemptInputs == {Attempt(1, "gate", "failed", 0), Attempt(1, "gate", "passed", 1),
                    Attempt(1, "other", "passed", 1), [Attempt(1, "gate", "passed", 0) EXCEPT !.timeout = 0]}
Result(t, s, started, finished) ==
    [test |-> t, status |-> s, timeout |-> 1, started |-> started, finished |-> finished]
MCBatchInputs == {[key |-> 1, receipt |-> 1, status |-> "passed", created |-> 0,
                   results |-> <<Result("a", "passed", 1, 0), Result("b", "skipped", 0, 1)>>],
                  [key |-> 2, receipt |-> Null, status |-> "failed", created |-> 0,
                   results |-> <<Result("a", "timed_out", 2, 0)>>]}
MCGroups == {"pointers", "receipts", "plans", "gates"}
MCWords  == {"t", "u", "q", "f", "i", "p", "why", "plan", "execute", "story", "done"}
====
