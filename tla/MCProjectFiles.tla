---- MODULE MCProjectFiles ----
(* Three templates of the catalog, cut down to one operation of each kind   *)
(* they have: the planning template and a verify template replace the same  *)
(* pristine file, the hooks merge a JSON file and create an executable one. *)
EXTENDS ProjectFiles

MCPaths == {".gitignore", ".env.example", ".awm/awm-tests.yaml", ".awm/awm-tags.yaml",
            ".claude/settings.json", "hook.sh"}

VerifyTests  == Text(<<"verify_tests">>)
PlanTests    == Text(<<"plan_tests">>)
HookScript   == Text(<<"hook">>)
HookSettings == Json((<<>> :> Map) @@ (<<"hooks">> :> Arr(<<"h1", "h2">>)) @@ (<<"on">> :> Leaf("t")))

MCCatalog ==
    << [id |-> "hooks", ops |->
            << Op("merge_json", ".claude/settings.json", HookSettings),
               [Op("create_if_missing", "hook.sh", HookScript) EXCEPT !.mode = "rwx"] >>],
       [id |-> "planning", ops |->
            << [Op("replace_if_pristine", ".awm/awm-tests.yaml", PlanTests) EXCEPT
                    !.pristine = {BlankTests, VerifyTests}] >>],
       [id |-> "verify", ops |->
            << [Op("replace_if_pristine", ".awm/awm-tests.yaml", VerifyTests) EXCEPT
                    !.pristine = {BlankTests}] >>] >>

MCApplied == {{"hooks"}, {"planning", "verify"}, {"verify"}}

MCUserEdits == [f \in MCPaths |->
    CASE f = ".gitignore" -> {Text(<<User>>), Text(<<"g1", User>>)}
      [] f = ".env.example" -> {Text(<<User>>), Text(<<>>)}
      [] f = ".awm/awm-tests.yaml" -> {Text(<<User>>), BlankTests, Absent}
      [] f = ".awm/awm-tags.yaml" -> {Text(<<"tags_version", User>>), Text(<<User>>)}
      [] f = ".claude/settings.json" ->
            {Json((<<>> :> Map) @@ (<<"hooks">> :> Arr(<<User, "h2">>))),
             Json((<<>> :> Map) @@ (<<"on">> :> Leaf(User))), Text(<<User>>)}
      [] f = "hook.sh" -> {HookScript, Text(<<User>>)}]
MCGitIgnoreLines == <<"g1", "g2">>
MCEnvKeys == <<"e1", "e2">>
Symmetric == Permutations(Procs)
====
