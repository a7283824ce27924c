------------------------------ MODULE MCTaskMerge ------------------------------
(* Payloads for checking TaskMerge: calls of one or two tasks, with every
   combination of fields on one key, and a second key to be its parent. *)
EXTENDS TaskMerge

CONSTANTS Task, Parent

MCEntries ==
    [key : {Task}, status : Statuses, parent : {Absent, Empty, Parent},
     reason : Reasons \cup {Absent}, evidence : Evidence \cup {Absent}]
    \cup [key : {Parent}, status : Statuses, parent : {Absent},
          reason : {Absent}, evidence : {Absent}]

MCPayloads == {<<e>> : e \in MCEntries} \cup {<<e, f>> : e, f \in MCEntries}

===============================================================================
