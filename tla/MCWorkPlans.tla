------------------------------ MODULE MCWorkPlans ------------------------------
(* Payloads and mutants for checking WorkPlans. *)
EXTENDS WorkPlans, TLC

CONSTANTS Task  \* a key that is not a stage:* task

Symmetry == Permutations(Agents)

Payload(mode, status, stage, disc, table) ==
    [mode |-> mode, status |-> status, stage |-> stage, disc |-> disc, tasks |-> table]

OfTask(s) == [EmptyTable EXCEPT ![Task] = s]
OfStage(s) == [EmptyTable EXCEPT ![StageKey] = s]

(* Progress reports, a metadata update, a plan file with explicit statuses, a
   replacement: each kind of payload the agent instructions of the repository use. *)
MCWorkInputs == {
    Payload("merge", Absent, Absent, Absent, OfTask("pending")),
    Payload("merge", "in_progress", Absent, Absent, OfTask("complete")),
    Payload("merge", Absent, Absent, Absent, OfStage("complete")),
    Payload("merge", Absent, "in_progress", Absent, OfStage("superseded")),
    Payload("merge", "complete", Absent, "p1", EmptyTable),
    Payload("replace", Absent, Absent, Absent, OfTask("complete"))}

===============================================================================
