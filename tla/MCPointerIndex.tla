------------------------------ MODULE MCPointerIndex ------------------------------
(* Commits, ruleset files and fixers for checking PointerIndex. *)
EXTENDS PointerIndex, TLC

CONSTANTS f1, f2, c1, c2, r1, r2

Symmetry == Permutations(Agents)

(* One of the files is committed. *)
OnlyF1 == {[f \in Files |-> IF f = f1 THEN c1 ELSE Absent]}

(* A ruleset in the one place, none in the other. *)
OneRuleset == {[s \in Sources |-> IF s = Primary THEN Ruleset({r1, r2}) ELSE Missing]}

(* The ruleset is removed, broken or changed; a second one appears. *)
Versions == [s \in Sources |-> IF s = Primary THEN {Missing, Broken, Ruleset({r2})} ELSE {Ruleset({r1})}]

(* The default fixers, in their order. *)
AllFixers == {<<"sync_working_tree", "index_unindexed_files", "sync_ruleset">>}

===============================================================================
