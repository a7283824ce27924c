---------------------------- MODULE ProjectFiles ----------------------------
(***************************************************************************)
(* What `init` writes into a project: the scaffold (.gitignore,            *)
(* .env.example, blank tests, workflows and rules), the tag dictionary and *)
(* the files of the templates, while the user edits the same files and     *)
(* another init may run.  Every file is read, judged, and later written    *)
(* through a temporary file that is renamed or linked into place.          *)
(*                                                                         *)
(* A text is the sequence of its lines, a line being what tells it apart;  *)
(* a JSON document is a function from its key paths, the root being <<>>,  *)
(* to nodes: a map, an array of elements that are compared as wholes, or a *)
(* leaf.  A path stands for the file it resolves to.                       *)
(***************************************************************************)
EXTENDS Naturals, Sequences, FiniteSets, SequencesExt

CONSTANTS
    Procs,          \* processes that run init
    Paths,          \* files of the project that an operation or the user touches
    Catalog,        \* sequence of the templates, sorted by id: [id, ops]
    Applied,        \* the sets of template ids a call may name
    UserEdits,      \* Path -> the contents the user may give it
    GitIgnoreLines, EnvKeys,    \* what the scaffold adds to .gitignore and .env.example
    MaxCalls, MaxEdits          \* bounds on the calls and on the edits

VARIABLES
    files,          \* path -> content
    modes,          \* path -> mode
    temps,          \* temporary files left in the tree, per process
    calls,          \* per process: its call of Init
    started, edits, \* numbers of calls and edits so far
    mine,           \* history: the paths whose content is the user's
    raced,          \* history: paths replaced although changed since they were read
    settled         \* history: calls (templates, tags) whose result is the present state

vars == <<files, modes, temps, calls, started, edits, mine, raced, settled>>

(***************************************************************************)
(* Contents.                                                               *)
(***************************************************************************)
Absent    == [kind |-> "absent"]
Text(l)   == [kind |-> "text", lines |-> l]
Json(v)   == [kind |-> "json", value |-> v]
Leaf(x)   == [k |-> "leaf", x |-> x]
Map       == [k |-> "map"]
Arr(a)    == [k |-> "arr", a |-> a]
User      == "u"    \* the line, key or value that only the user writes

BlankRules     == Text(<<"blank_rules">>)
BlankTests     == Text(<<"blank_tests">>)
BlankWorkflows == Text(<<"blank_workflows">>)

\* renderCanonicalTagsDocumentYAML: with or without suggested tags.
TagsDocument(suggest) == Text(IF suggest THEN <<"tags_version", "tags">> ELSE <<"tags_version">>)
HasTags(c) == c.kind = "text" /\ "tags" \in ToSet(c.lines)
ParsesAsTags(c) == c.kind = "text" /\ c.lines # <<>> /\ c.lines[1] = "tags_version"

NodePieces(n) == CASE n.k = "leaf" -> {n.x}
                   [] n.k = "arr"  -> ToSet(n.a)
                   [] n.k = "map"  -> {}
Pieces(c) == CASE c.kind = "absent" -> {}
               [] c.kind = "text"   -> ToSet(c.lines)
               [] c.kind = "json"   -> UNION {ToSet(p) \cup NodePieces(c.value[p]) : p \in DOMAIN c.value}

IsSeq(s) == s \in Seq(ToSet(s))
IsNode(n) == n.k \in {"map", "leaf"} \/ (n.k = "arr" /\ IsSeq(n.a))
IsContent(c) ==
    \/ c = Absent
    \/ c.kind = "text" /\ IsSeq(c.lines)
    \/ c.kind = "json" /\ \A p \in DOMAIN c.value : IsNode(c.value[p])

TextFiles == {".gitignore", ".env.example"}
TagsFile  == ".awm/awm-tags.yaml"

(* What holds of every template of the code: none writes the files the scaffold edits line by
   line or the tag dictionary, a file merged as JSON is JSON, and no content taken for pristine
   has anything of the user's.  The user keeps the files edited line by line as texts. *)
ASSUME ProjectAssumption ==
    /\ IsSeq(GitIgnoreLines) /\ IsSeq(EnvKeys)
    /\ IsSeq(Catalog)
    /\ \A t \in ToSet(Catalog) : IsSeq(t.ops)
    /\ \A t \in ToSet(Catalog) : \A op \in ToSet(t.ops) :
            /\ op.type \in {"create_if_missing", "replace_if_pristine",
                            "create_or_replace_if_pristine", "merge_json"}
            /\ op.path \in Paths \ (TextFiles \cup {TagsFile})
            /\ IsContent(op.content)
            /\ op.type = "merge_json" => op.content.kind = "json"
            /\ \A c \in op.pristine : User \notin Pieces(c)
    /\ \A f \in Paths : \A c \in UserEdits[f] :
            IsContent(c) /\ (f \in TextFiles => c.kind # "json")

(* What holds of the templates of the code taken together: a path that two operations share is
   one both replace when pristine, and when the second one's content counts as pristine for the
   first one, so does all it replaces.  No operation takes its own content, or a missing file,
   for pristine. *)
ASSUME CatalogAssumption ==
    \A s, t \in ToSet(Catalog) : \A a \in ToSet(s.ops), b \in ToSet(t.ops) :
        /\ a.content # Absent /\ {a.content, Absent} \cap a.pristine = {}
        /\ a.type = "merge_json" =>
               /\ a.content = Json([p \in DOMAIN a.content.value |-> a.content.value[p]])
               /\ \A p \in DOMAIN a.content.value :
                      LET n == a.content.value[p] IN n.k = "arr" => n = Arr(n.a)
        /\ a.path = b.path /\ a # b =>
               /\ a.type = "replace_if_pristine"
               /\ b.content \in a.pristine => b.pristine \subseteq a.pristine

\* The elements of seq that are in keep, in their order.
Kept(seq, keep) == FoldLeft(LAMBDA l, x : IF x \in keep THEN Append(l, x) ELSE l, <<>>, seq)

(***************************************************************************)
(* mergeInitJSONValues: maps are merged key by key, missing elements are   *)
(* appended to arrays, and anything else must be equal.                    *)
(***************************************************************************)
Mergeable(target, source) ==
    \A p \in DOMAIN target \cap DOMAIN source :
        /\ target[p].k = source[p].k
        /\ source[p].k = "leaf" => target[p] = source[p]

(* Mutant: the elements are appended whether the array has them or not. *)
AppendAll(a, b) == a \o b
\* initJSONArrayContains decides which elements of b are appended to a.
AppendNew(a, b) == FoldLeft(LAMBDA l, x : IF x \in ToSet(l) THEN l ELSE Append(l, x), a, b)

Merge(target, source) ==
    [p \in DOMAIN target \cup DOMAIN source |->
        IF p \notin DOMAIN target THEN source[p]
        ELSE IF p \in DOMAIN source /\ source[p].k = "arr"
             THEN Arr(AppendNew(target[p].a, source[p].a))
        ELSE target[p]]

(***************************************************************************)
(* The operations of a call, in order.                                     *)
(***************************************************************************)
Op(type, path, content) ==
    [type |-> type, path |-> path, content |-> content, mode |-> "rw",
     pristine |-> {}, other |-> path]

\* EnsureProjectScaffold without a rules file of its own.
Scaffold ==
    << Op("append", ".gitignore", Text(GitIgnoreLines)),
       Op("env", ".env.example", Text(EnvKeys)),
       [Op("scaffold", ".awm/awm-tests.yaml", BlankTests) EXCEPT !.other = "awm-tests.yaml"],
       [Op("scaffold", ".awm/awm-workflows.yaml", BlankWorkflows) EXCEPT !.other = "awm-workflows.yaml"],
       [Op("scaffold", ".awm/awm-rules.yaml", BlankRules) EXCEPT !.other = "awm-rules.yaml"] >>

\* syncInitCanonicalTagsFile; the paths of the project decide whether there are suggestions.
Tags(suggest) == << Op("tags", TagsFile, TagsDocument(suggest)) >>

\* EnsureProjectScaffold and the tags, as far as Paths has their files.
Basics(suggest) ==
    LET all == Scaffold \o Tags(suggest)
    IN  Kept(all, {op \in ToSet(all) : op.path \in Paths})

\* Then ResolveTemplates and ApplyTemplates: the named templates in the order of their ids.
Ops(ids, suggest) ==
    FoldLeft(LAMBDA ops, t : IF t.id \in ids THEN ops \o t.ops ELSE ops, Basics(suggest), Catalog)

(***************************************************************************)
(* What a call makes of the file it reads: "skip" goes to the next         *)
(* operation, "conflict" too, "new" and "replace" lead to a write,         *)
(* "reread" to a second read, "fail" ends the call.                        *)
(***************************************************************************)
Verdict(does, content) == [does |-> does, content |-> content]
Skip     == Verdict("skip", Absent)
Conflict == Verdict("conflict", Absent)

LinesMissing(c, want) == Kept(want, ToSet(want) \ Pieces(c))

\* appendUniqueLines, up to its second read.
JudgeAppend(op, c) ==
    LET missing == LinesMissing(c, op.content.lines)
    IN  IF missing = <<>> THEN Skip ELSE Verdict("reread", Text(missing))

(* Mutant: the missing keys replace the text. *)
JudgeEnvAnew(op, c) ==
    LET missing == LinesMissing(c, op.content.lines)
    IN  IF c \in {Absent, Text(<<>>)} THEN Verdict("new", op.content)
        ELSE IF missing = <<>> THEN Skip
        ELSE Verdict("replace", Text(missing))

\* ensureEnvExample.
JudgeEnv(op, c) ==
    LET missing == LinesMissing(c, op.content.lines)
    IN  IF c \in {Absent, Text(<<>>)} THEN Verdict("new", op.content)
        ELSE IF missing = <<>> THEN Skip
        ELSE Verdict("replace", Text(c.lines \o missing))

\* sourceExists in either place, then WriteScaffoldFile.
JudgeScaffold(op) ==
    IF files[op.path] # Absent \/ (op.other \in Paths /\ files[op.other] # Absent)
    THEN Skip ELSE Verdict("new", op.content)

JudgeTags(op, c) ==
    IF c = Absent THEN Verdict("new", op.content)
    ELSE IF ~ParsesAsTags(c) THEN Verdict("fail", Absent)
    ELSE IF HasTags(c) \/ ~HasTags(op.content) THEN Skip
    ELSE Verdict("replace", op.content)

\* writeInitTemplateFile.
JudgeCreate(op, c) ==
    IF c = Absent THEN Verdict("new", op.content)
    ELSE IF c # op.content THEN Conflict ELSE Skip

\* applyInitTemplateReplaceIfPristine, and CreateOrReplaceIfPristine.
JudgePristine(op, c) ==
    IF c = op.content THEN Skip
    ELSE IF c \in op.pristine THEN Verdict("replace", op.content) ELSE Conflict
JudgeReplace(op, c) == IF c = Absent THEN Skip ELSE JudgePristine(op, c)
JudgeCreateOrReplace(op, c) == IF c = Absent THEN Verdict("new", op.content) ELSE JudgePristine(op, c)

JudgeMerge(op, c) ==
    IF c = Absent THEN Verdict("new", op.content)
    ELSE IF c.kind # "json" \/ ~Mergeable(c.value, op.content.value) THEN Conflict
    ELSE LET merged == Json(Merge(c.value, op.content.value))
         IN  IF merged = c THEN Skip ELSE Verdict("replace", merged)

Judge(op) ==
    LET c == files[op.path]
    IN  CASE op.type = "append"            -> JudgeAppend(op, c)
          [] op.type = "env"               -> JudgeEnv(op, c)
          [] op.type = "scaffold"          -> JudgeScaffold(op)
          [] op.type = "tags"              -> JudgeTags(op, c)
          [] op.type = "create_if_missing" -> JudgeCreate(op, c)
          [] op.type = "replace_if_pristine" -> JudgeReplace(op, c)
          [] op.type = "create_or_replace_if_pristine" -> JudgeCreateOrReplace(op, c)
          [] op.type = "merge_json"        -> JudgeMerge(op, c)

IsTemplateOp(op) == op.type \notin {"append", "env", "scaffold", "tags"}

(***************************************************************************)
(* Init and its steps.                                                     *)
(***************************************************************************)
Idle == [pc |-> "idle", ids |-> {}, suggest |-> FALSE, at |-> 0, read |-> Absent,
         content |-> Absent, how |-> "", mode |-> "rw", again |-> FALSE, calm |-> FALSE]

CurrentOp(p) == Ops(calls[p].ids, calls[p].suggest)[calls[p].at]
Running(p) == calls[p].pc \notin {"idle", "done", "failed"}

\* Where the call goes after the operation at hand.
Onward(call) ==
    IF call.at = Len(Ops(call.ids, call.suggest)) THEN [call EXCEPT !.pc = "done"]
    ELSE [call EXCEPT !.pc = "read", !.at = @ + 1]

Init ==
    /\ files \in [Paths -> {Absent}]
    /\ modes = [f \in Paths |-> "rw"]
    /\ temps = {}
    /\ calls = [p \in Procs |-> Idle]
    /\ started = 0 /\ edits = 0
    /\ mine = {} /\ raced = {} /\ settled = {}

\* A change of the tree by somebody else disturbs every call under way but that of p.
Disturbed(p) == [q \in Procs |-> IF q = p THEN calls[q] ELSE [calls[q] EXCEPT !.calm = FALSE]]

\* The user writes a file in one go, or deletes it.
Edit(f, c) ==
    /\ edits < MaxEdits
    /\ c # files[f]
    /\ files' = [files EXCEPT ![f] = c]
    /\ edits' = edits + 1
    /\ mine' = IF User \in Pieces(c) THEN mine \cup {f} ELSE mine \ {f}
    /\ raced' = raced \ {f}
    /\ settled' = {}
    /\ calls' = [q \in Procs |-> [calls[q] EXCEPT !.calm = FALSE]]
    /\ UNCHANGED <<modes, temps, started>>

\* The user makes a file executable, or takes that away.
Chmod(f, m) ==
    /\ edits < MaxEdits
    /\ files[f] # Absent
    /\ m # modes[f]
    /\ modes' = [modes EXCEPT ![f] = m]
    /\ edits' = edits + 1
    /\ settled' = {}
    /\ calls' = [q \in Procs |-> [calls[q] EXCEPT !.calm = FALSE]]
    /\ UNCHANGED <<files, temps, started, mine, raced>>

\* Left out: the candidates file, which init writes on request at its end (WriteCandidates) and
\* which replaces whatever is at the path the caller names.  Paths does not have that file.
StartInit(p, ids, suggest) ==
    /\ ~Running(p)
    /\ started < MaxCalls
    /\ started' = started + 1
    /\ calls' = [calls EXCEPT ![p] =
            Onward([Idle EXCEPT !.ids = ids, !.suggest = suggest,
                                !.again = <<ids, suggest>> \in settled,
                                !.calm = \A q \in Procs \ {p} : ~Running(q)])]
    /\ UNCHANGED <<files, modes, temps, edits, mine, raced, settled>>

\* The file is read and judged; a template operation whose file is as it should be sets its
\* mode (ensureInitTemplateMode).
Read(p) ==
    LET op == CurrentOp(p)
        v  == Judge(op)
        fixMode == v.does = "skip" /\ IsTemplateOp(op) /\ files[op.path] # Absent
                   /\ modes[op.path] # op.mode
    IN
    /\ calls[p].pc = "read"
    /\ calls' = [(IF fixMode THEN Disturbed(p) ELSE calls) EXCEPT ![p] =
            CASE v.does \in {"skip", "conflict"} -> Onward(@)
              [] v.does = "fail"   -> [@ EXCEPT !.pc = "failed"]
              [] v.does = "reread" -> [@ EXCEPT !.pc = "reread", !.content = v.content]
              [] OTHER -> [@ EXCEPT !.pc = "temp", !.how = v.does, !.content = v.content,
                                    !.read = files[op.path]]]
    /\ modes' = IF fixMode THEN [modes EXCEPT ![op.path] = op.mode] ELSE modes
    /\ settled' = IF fixMode THEN {} ELSE settled
    /\ UNCHANGED <<files, temps, started, edits, mine, raced>>

\* The second read of appendUniqueLines: the lines missing before go to the end of it.
Reread(p) ==
    LET c == files[CurrentOp(p).path] IN
    /\ calls[p].pc = "reread"
    /\ calls' = [calls EXCEPT ![p].pc = "temp", ![p].how = "replace", ![p].read = c,
            ![p].content = Text((IF c = Absent THEN <<>> ELSE c.lines) \o calls[p].content.lines)]
    /\ UNCHANGED <<files, modes, temps, started, edits, mine, raced, settled>>

(* Mutant: the file is opened and truncated before it is written. *)
TruncateFirst(p) ==
    LET f == CurrentOp(p).path
        taken == calls[p].how = "new" /\ files[f] # Absent
    IN
    /\ calls[p].pc = "temp"
    /\ calls' = [calls EXCEPT ![p] =
            IF taken THEN IF IsTemplateOp(CurrentOp(p)) THEN [@ EXCEPT !.pc = "failed"] ELSE Onward(@)
            ELSE [@ EXCEPT !.pc = "publish", !.how = "replace"]]
    /\ files' = IF taken THEN files ELSE [files EXCEPT ![f] = Text(<<>>)]
    /\ UNCHANGED <<modes, temps, started, edits, mine, raced, settled>>

\* Atomic and AtomicNew up to the complete temporary file; AtomicNew looks first whether
\* the file exists, Atomic for the mode to keep.
MakeTemp(p) ==
    LET f == CurrentOp(p).path
        taken == calls[p].how = "new" /\ files[f] # Absent
    IN
    /\ calls[p].pc = "temp"
    /\ calls' = [calls EXCEPT ![p] =
            IF taken THEN IF IsTemplateOp(CurrentOp(p)) THEN [@ EXCEPT !.pc = "failed"] ELSE Onward(@)
            ELSE [@ EXCEPT !.pc = "publish",
                           !.mode = IF files[f] # Absent THEN modes[f] ELSE CurrentOp(p).mode]]
    /\ temps' = IF taken THEN temps ELSE temps \cup {p}
    /\ UNCHANGED <<files, modes, started, edits, mine, raced, settled>>

\* rename, or link, which fails if the name has appeared: then a template operation ends
\* the call and a scaffold file counts as there.
Publish(p) ==
    LET f == CurrentOp(p).path
        taken == calls[p].how = "new" /\ files[f] # Absent
    IN
    /\ calls[p].pc = "publish"
    /\ temps' = temps \ {p}
    /\ IF taken
       THEN /\ calls' = [calls EXCEPT ![p] = IF IsTemplateOp(CurrentOp(p))
                                             THEN [@ EXCEPT !.pc = "failed"] ELSE Onward(@)]
            /\ UNCHANGED <<files, modes, raced, settled>>
       ELSE /\ files' = [files EXCEPT ![f] = calls[p].content]
            /\ modes' = [modes EXCEPT ![f] = calls[p].mode]
            /\ raced' = IF files[f] # calls[p].read THEN raced \cup {f} ELSE raced
            /\ settled' = {}
            /\ calls' = [Disturbed(p) EXCEPT ![p] = Onward(@)]
    /\ UNCHANGED <<started, edits, mine>>

\* A completed call nobody disturbed has brought the tree where it wants it.
Return(p) ==
    /\ calls[p].pc = "done"
    /\ calls' = [calls EXCEPT ![p] = Idle]
    /\ settled' = IF calls[p].calm THEN settled \cup {<<calls[p].ids, calls[p].suggest>>} ELSE settled
    /\ UNCHANGED <<files, modes, temps, started, edits, mine, raced>>

\* The process is killed: a temporary file stays behind.
Crash(p) ==
    /\ Running(p)
    /\ calls' = [calls EXCEPT ![p] = Idle]
    /\ UNCHANGED <<files, modes, temps, started, edits, mine, raced, settled>>

Next ==
    \/ \E f \in Paths : \E c \in UserEdits[f] : Edit(f, c)
    \/ \E f \in Paths, m \in {"rw", "rwx"} : Chmod(f, m)
    \/ \E p \in Procs :
        \/ \E ids \in Applied, suggest \in BOOLEAN : StartInit(p, ids, suggest)
        \/ Read(p) \/ Reread(p) \/ MakeTemp(p) \/ Publish(p) \/ Return(p) \/ Crash(p)

Spec == Init /\ [][Next]_vars

(***************************************************************************)
(* Properties.                                                             *)
(***************************************************************************)
\* What the user has put into a file stays there ("templates never overwrite user-edited
\* files"), whatever init makes of the file and
\* however often, unless the edit fell between a call's last read of the file and its
\* write of it.  The one exception is a tag dictionary without tags, which init replaces.
UserTextSurvives ==
    \A f \in mine \ raced :
        \/ User \in Pieces(files[f])
        \/ f = TagsFile /\ HasTags(files[f])

\* Applying the same templates again to a project nobody has touched since changes nothing:
\* no template undoes or redoes what another one of the call, or the scaffold, has done.
ReapplyIsIdle ==
    \A p \in Procs : calls[p].again /\ calls[p].calm =>
        calls[p].pc \notin {"publish", "failed"}

\* A call that ends undisturbed leaves the project set up, whatever crashed, failed or
\* overlapping calls have left before: the lines are there, every file a template creates
\* exists and has its mode, no pristine file is left that a template would replace, and what a
\* template merges is merged.  (An .env.example the user has emptied stays empty:
\* WriteScaffoldFile takes it for a file that exists.)
Fulfilled(op) ==
    LET c == files[op.path]
    IN  CASE op.type \in {"append", "env"} ->
                \/ ToSet(op.content.lines) \subseteq Pieces(c)
                \/ op.type = "env" /\ c = Text(<<>>) /\ edits > 0
          [] op.type = "scaffold" -> c # Absent \/ (op.other \in Paths /\ files[op.other] # Absent)
          [] op.type = "tags" -> c # Absent /\ (HasTags(op.content) => HasTags(c))
          [] op.type = "replace_if_pristine" -> c \notin op.pristine
          [] op.type = "create_or_replace_if_pristine" -> c # Absent /\ c \notin op.pristine
          [] op.type = "create_if_missing" ->
                c # Absent /\ (c = op.content => modes[op.path] = op.mode)
          [] op.type = "merge_json" ->
                c # Absent /\ (c.kind = "json" /\ Mergeable(c.value, op.content.value)
                                => Merge(c.value, op.content.value) = c.value)
InitEstablishes ==
    \A p \in Procs : calls[p].pc = "done" /\ calls[p].calm =>
        \A i \in DOMAIN Ops(calls[p].ids, calls[p].suggest) :
            Fulfilled(Ops(calls[p].ids, calls[p].suggest)[i])
=============================================================================
