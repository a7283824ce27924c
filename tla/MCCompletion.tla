------------------------------ MODULE MCCompletion ------------------------------
(* Openings, definitions and scopes for checking Completion. *)
EXTENDS Completion, TLC

CONSTANTS task, p, q, sp, c1, c2

Symmetry == Permutations(Agents)

SpCoversP == [s \in {sp} |-> {p}]

(* p is tracked and q is new. *)
OnlyPTracked == {[f \in Paths |-> IF f = p THEN c1 ELSE Absent]}

(* One task; p is in its scope only once sp is declared, and q is a governance file. *)
Unscoped == [o \in {task} |-> {}]
ToExecute == [o \in {task} |-> "execute"]
Untagged == [o \in {task} |-> {}]

(* Nothing, or one of the files, is passed as files_changed. *)
NoneOrP == {{}, {p}}

Test(paths) == [always |-> paths = {}, phases |-> {}, tags |-> {}, paths |-> paths]

(* A smoke test that always runs, and one for changes of q. *)
SmokeAndForQ == {{Test({}), Test({q})}}

RequiredTask(paths) == [key |-> VerifyTests, phases |-> {}, tags |-> {}, paths |-> paths]

(* The default gate, and one that asks for tests when q has changed. *)
DefaultOrForQ == {{}, {RequiredTask({q})}}

===============================================================================
