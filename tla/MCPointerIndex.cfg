SPECIFICATION Spec
CONSTANTS
    f1 = f1
    f2 = f2
    c1 = c1
    c2 = c2
    r1 = r1
    r2 = r2
    Agents = {a1, a2}
    Files = {f1, f2}
    Contents = {c1, c2}
    FirstCommits <- OnlyF1
    Primary = primary
    Secondary = secondary
    OtherSources = {}
    Rules = {r1, r2}
    FirstRuleFiles <- OneRuleset
    RuleVersions <- Versions
    FixerLists <- AllFixers
    MaxCalls = 2
    MaxEdits = 2
SYMMETRY Symmetry
CHECK_DEADLOCK FALSE
INVARIANTS
    RulesComeWhole
    FullSyncRepairs
    ChangedSyncKeepsUp
    WorkingTreeSyncKeepsUp
    RulesFollowFiles
    EveryFileIndexed
