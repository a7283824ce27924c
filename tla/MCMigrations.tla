---- MODULE MCMigrations ----
(* Two processes, databases of four older releases: none, one before plans  *)
(* had a hierarchy, one before each rebuild of the status columns.  Two     *)
(* calls cover a cut and a second open, and two opens at once; three, from  *)
(* the release before the rebuilds, cover a second cut and an open after    *)
(* two that overlapped.                                                     *)
EXTENDS Migrations

MCStarts == {[v |-> 0, opens |-> 2], [v |-> 5, opens |-> 2],
             [v |-> 12, opens |-> 3], [v |-> 13, opens |-> 2]}
Symmetric == Permutations(Procs)
====
