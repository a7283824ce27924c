--------------------------- MODULE Completion_proofs ---------------------------
(***************************************************************************)
(* Proofs about Completion, for any number of processes, files, contents,  *)
(* openings, definitions, calls and edits, with and without git.           *)
(***************************************************************************)
EXTENDS Completion, TLAPS

Judging == {"d_plan", "d_detect", "d_items", "d_judge"}

(* Which receipt an agent's call is about, by the step it has reached. *)
CallsOpen ==
    \A a \in Agents :
        /\ pc[a] = "persist" => call[a].receipt \in Ids
        /\ pc[a] \in Judging \cup {"v_item"} => call[a].receipt \in DOMAIN rows
        /\ pc[a] \in {"v_select", "v_save"} => call[a].receipt \in DOMAIN rows \cup {NoId}

TypeInv == TypeOK /\ CallsOpen

LEMMA EmptyTypes ==
    /\ Empty \in Trees /\ Nothing \in Captures
    /\ NoRow \in Rows /\ NoCall \in Calls
    /\ NoId \notin Ids
<1>1. Empty \in Trees /\ Nothing \in Captures
  BY DEF Empty, Trees, Nothing, Captures
<1>2. NoRow \in Rows
  BY <1>1 DEF NoRow, Rows
<1>3. NoCall \in Calls
  BY <1>1, <1>2 DEF NoCall, Calls
<1> QED
  BY <1>1, <1>2, <1>3, CompletionAssumption DEF CompletionAssumption

LEMMA CaptureType ==
    ASSUME NEW h \in Trees, NEW t \in Trees
    PROVE  Capture(h, t) \in Captures
BY DEF Capture, Captures, Trees

(* What storing a row changes, and that nothing else does. *)
LEMMA StoreFacts ==
    ASSUME NEW r, NEW row, Store(r, row)
    PROVE  /\ DOMAIN rows' = DOMAIN rows \cup {r}
           /\ rows'[r] = row
           /\ \A s \in DOMAIN rows \ {r} : rows'[s] = rows[s]
BY DEF Store

LEMMA StoreTypes ==
    ASSUME TypeOK, NEW r \in Ids, NEW row \in Rows, Store(r, row)
    PROVE  DOMAIN rows' \subseteq Ids /\ \A s \in DOMAIN rows' : rows'[s] \in Rows
BY DEF Store, TypeOK

(* The frames of the steps of a call. *)
LEMMA ContinueFacts ==
    ASSUME TypeOK, NEW a \in Agents, NEW from, NEW locals \in Calls, NEW step \in Steps,
           Continue(a, from, locals, step)
    PROVE  /\ pc[a] = from /\ project' = project /\ calls' = calls /\ edits' = edits
           /\ call' \in [Agents -> Calls] /\ pc' \in [Agents -> Steps]
           /\ call'[a] = locals /\ pc'[a] = step
           /\ \A b \in Agents \ {a} : call'[b] = call[b] /\ pc'[b] = pc[b]
BY DEF Continue, TypeOK

LEMMA EndFacts ==
    ASSUME TypeOK, NEW a \in Agents, NEW from, End(a, from)
    PROVE  /\ pc[a] = from /\ project' = project /\ calls' = calls /\ edits' = edits
           /\ call' \in [Agents -> Calls] /\ pc' \in [Agents -> Steps]
           /\ call'[a] = NoCall /\ pc'[a] = "idle"
           /\ \A b \in Agents \ {a} : call'[b] = call[b] /\ pc'[b] = pc[b]
BY EmptyTypes, ContinueFacts DEF End, Steps

LEMMA StartFacts ==
    ASSUME TypeOK, NEW a \in Agents, NEW locals \in Calls, NEW step \in Steps,
           Start(a, locals, step)
    PROVE  /\ pc[a] = "idle" /\ project' = project /\ edits' = edits
           /\ calls' \in 0 .. MaxCalls
           /\ call' \in [Agents -> Calls] /\ pc' \in [Agents -> Steps]
           /\ call'[a] = locals /\ pc'[a] = step
           /\ \A b \in Agents \ {a} : call'[b] = call[b] /\ pc'[b] = pc[b]
BY CompletionAssumption DEF Start, TypeOK, CompletionAssumption

LEMMA AtOnceFacts ==
    ASSUME TypeOK, NEW a \in Agents, AtOnce(a)
    PROVE  /\ pc[a] = "idle" /\ project' = project /\ edits' = edits
           /\ calls' \in 0 .. MaxCalls
           /\ call' \in [Agents -> Calls] /\ pc' \in [Agents -> Steps]
           /\ call'[a] = NoCall /\ pc'[a] = "idle"
           /\ \A b \in Agents \ {a} : call'[b] = call[b] /\ pc'[b] = pc[b]
BY EmptyTypes, StartFacts DEF AtOnce, Steps

(* The locals of a call that starts with a receipt's scope. *)
LEMMA WithScopeFacts ==
    ASSUME TypeOK, NEW r \in DOMAIN rows \cup {NoId}
    PROVE  /\ WithScope(r) \in Calls
           /\ WithScope(r).receipt = r
           /\ r \in DOMAIN rows => /\ WithScope(r).row.captured = rows[r].captured
                                   /\ WithScope(r).row.baseline = rows[r].baseline
           /\ WithScope(r).row.writer = 0 /\ ~WithScope(r).selected
<1>1. r \in Ids \cup {NoId}
  BY DEF TypeOK
<1>2. RowOf(r) \in Rows
  BY EmptyTypes DEF RowOf, TypeOK
<1>3. RowOf(r).captured \in BOOLEAN /\ RowOf(r).baseline \in Captures
  BY <1>2 DEF Rows
<1>4. [NoRow EXCEPT !.captured = RowOf(r).captured, !.baseline = RowOf(r).baseline] \in Rows
  BY <1>3, EmptyTypes DEF Rows, NoRow
<1>5. WithScope(r) = [NoCall EXCEPT !.receipt = r,
          !.row = [NoRow EXCEPT !.captured = RowOf(r).captured, !.baseline = RowOf(r).baseline]]
  BY DEF WithScope, NoCall, NoRow
<1>6. WithScope(r) \in Calls
  BY <1>1, <1>4, <1>5, EmptyTypes DEF Calls, NoCall
<1>7. WithScope(r).receipt = r
  BY <1>5 DEF NoCall
<1>8. /\ WithScope(r).row.captured = RowOf(r).captured /\ WithScope(r).row.baseline = RowOf(r).baseline
      /\ WithScope(r).row.writer = 0 /\ ~WithScope(r).selected
  BY <1>5, ZenonT(60) DEF NoCall, NoRow
<1> QED
  BY <1>6, <1>7, <1>8 DEF RowOf

-------------------------------------------------------------------------------
(* Type correctness.                                                       *)

LEMMA InitTypes == Init => TypeInv
<1> SUFFICES ASSUME Init PROVE TypeInv
  OBVIOUS
<1>1. head \in Trees /\ tree \in Trees
  BY CompletionAssumption DEF Init, CompletionAssumption
<1>2. DOMAIN rows \subseteq Ids /\ \A r \in DOMAIN rows : rows[r] \in Rows
  BY DEF Init
<1>3. batches \in Seq(Batches) /\ runs = {} /\ opened = {}
  BY DEF Init
<1>4. pc \in [Agents -> Steps] /\ call \in [Agents -> Calls]
  BY EmptyTypes DEF Init, Steps
<1>5. calls \in 0 .. MaxCalls /\ edits \in 0 .. MaxEdits
  BY CompletionAssumption DEF Init, CompletionAssumption
<1>6. CallsOpen
  BY DEF CallsOpen, Init, Judging
<1> QED
  BY <1>1, <1>2, <1>3, <1>4, <1>5, <1>6 DEF TypeInv, TypeOK

(* The type of a row follows its fields. *)
LEMMA RowTypes ==
    ASSUME NEW row \in Rows
    PROVE  /\ \A c \in BOOLEAN, b \in Captures : [row EXCEPT !.captured = c, !.baseline = b] \in Rows
           /\ \A d \in SUBSET ScopePaths : [row EXCEPT !.declared = d] \in Rows
           /\ \A k \in ItemKeys, s \in Statuses, w \in Nat : [row EXCEPT !.items[k] = s, !.writer = w] \in Rows
           /\ \A i \in [ItemKeys -> Statuses \cup {Absent}], w \in Nat :
                 [row EXCEPT !.items = i, !.writer = w] \in Rows
BY DEF Rows

(* The sets that depend on the project's tests stay what they are. *)
LEMMA TestsFixed ==
    ASSUME project' = project
    PROVE  Calls' = Calls /\ Batches' = Batches /\ head' = head /\ tree' = tree
BY DEF project, Calls, Batches

LEMMA CallsOpenKept ==
    ASSUME TypeInv, NEW a \in Agents, DOMAIN rows \subseteq DOMAIN rows',
           \A b \in Agents \ {a} : call'[b] = call[b] /\ pc'[b] = pc[b],
           pc'[a] = "persist" => call'[a].receipt \in Ids,
           pc'[a] \in Judging \cup {"v_item"} => call'[a].receipt \in DOMAIN rows',
           pc'[a] \in {"v_select", "v_save"} => call'[a].receipt \in DOMAIN rows' \cup {NoId}
    PROVE  CallsOpen'
BY DEF CallsOpen, TypeInv

(* A step that leaves the stored data alone and takes an agent from one step of its call to another. *)
LEMMA CallStepTypes ==
    ASSUME TypeInv, NEW a \in Agents, NEW from, NEW locals \in Calls, NEW step \in Steps,
           Continue(a, from, locals, step), UNCHANGED <<db, opened>>,
           step = "persist" => locals.receipt \in Ids,
           step \in Judging \cup {"v_item"} => locals.receipt \in DOMAIN rows,
           step \in {"v_select", "v_save"} => locals.receipt \in DOMAIN rows \cup {NoId}
    PROVE  TypeInv'
<1> USE DEF TypeInv
<1>1. /\ project' = project /\ calls' = calls /\ edits' = edits
      /\ call' \in [Agents -> Calls] /\ pc' \in [Agents -> Steps]
      /\ call'[a] = locals /\ pc'[a] = step
      /\ \A b \in Agents \ {a} : call'[b] = call[b] /\ pc'[b] = pc[b]
  BY ContinueFacts
<1>2. rows' = rows /\ batches' = batches /\ runs' = runs /\ opened' = opened
  BY DEF db
<1>3. TypeOK'
  BY <1>1, <1>2, TestsFixed DEF TypeOK
<1>4. CallsOpen'
  BY <1>1, <1>2, CallsOpenKept
<1> QED
  BY <1>3, <1>4

LEMMA CallStartTypes ==
    ASSUME TypeInv, NEW a \in Agents, NEW locals \in Calls, NEW step \in Steps,
           Start(a, locals, step), UNCHANGED <<db, opened>>,
           step = "persist" => locals.receipt \in Ids,
           step \in Judging \cup {"v_item"} => locals.receipt \in DOMAIN rows,
           step \in {"v_select", "v_save"} => locals.receipt \in DOMAIN rows \cup {NoId}
    PROVE  TypeInv'
<1> USE DEF TypeInv
<1>1. /\ project' = project /\ edits' = edits /\ calls' \in 0 .. MaxCalls
      /\ call' \in [Agents -> Calls] /\ pc' \in [Agents -> Steps]
      /\ call'[a] = locals /\ pc'[a] = step
      /\ \A b \in Agents \ {a} : call'[b] = call[b] /\ pc'[b] = pc[b]
  BY StartFacts
<1>2. rows' = rows /\ batches' = batches /\ runs' = runs /\ opened' = opened
  BY DEF db
<1>3. TypeOK'
  BY <1>1, <1>2, TestsFixed DEF TypeOK
<1>4. CallsOpen'
  BY <1>1, <1>2, CallsOpenKept
<1> QED
  BY <1>3, <1>4

(* A step that stores something and ends the call, or is a call of its own. *)
LEMMA CallEndTypes ==
    ASSUME TypeInv, NEW a \in Agents, NEW from, End(a, from) \/ AtOnce(a),
           DOMAIN rows \subseteq DOMAIN rows',
           DOMAIN rows' \subseteq Ids /\ \A s \in DOMAIN rows' : rows'[s] \in Rows,
           batches' \in Seq(Batches), runs' \subseteq Runs,
           opened' \subseteq [receipt : Ids, head : Trees, tree : Trees]
    PROVE  TypeInv'
<1> USE DEF TypeInv
<1>1. /\ project' = project /\ edits' = edits /\ calls' \in 0 .. MaxCalls
      /\ call' \in [Agents -> Calls] /\ pc' \in [Agents -> Steps]
      /\ call'[a] = NoCall /\ pc'[a] = "idle"
      /\ \A b \in Agents \ {a} : call'[b] = call[b] /\ pc'[b] = pc[b]
  BY EndFacts, AtOnceFacts DEF TypeOK
<1>2. TypeOK'
  BY <1>1, TestsFixed DEF TypeOK
<1>3. CallsOpen'
  BY <1>1, CallsOpenKept DEF Judging
<1> QED
  BY <1>2, <1>3

LEMMA FilesType ==
    ASSUME NEW row, NEW current, NEW supplied \in DoneFiles
    PROVE  FilesChanged(row, current, supplied) \in SUBSET Paths
BY CompletionAssumption DEF FilesChanged, Delta, CompletionAssumption

LEMMA ContextStepTypes ==
    ASSUME TypeInv, NEW a \in Agents, Open(a) \/ Persist(a) \/ Declare(a) \/ SetItem(a)
    PROVE  TypeInv'
<1> USE DEF TypeInv
<1>1. CASE Open(a)
  <2>1. PICK o \in Openings, captured \in {TRUE} \cup {~CaptureFails} :
          LET baseline == IF captured THEN Capture(head, tree) ELSE Nothing
          IN  /\ Start(a, [NoCall EXCEPT !.receipt = ReceiptId(o, baseline),
                                         !.row = [NoRow EXCEPT !.captured = captured, !.baseline = baseline],
                                         !.head = head, !.tree = tree],
                       "persist")
              /\ UNCHANGED <<db, opened>>
    BY <1>1 DEF Open
  <2> DEFINE baseline == IF captured THEN Capture(head, tree) ELSE Nothing
             row == [NoRow EXCEPT !.captured = captured, !.baseline = baseline]
             locals == [NoCall EXCEPT !.receipt = ReceiptId(o, baseline), !.row = row,
                                      !.head = head, !.tree = tree]
  <2>2. baseline \in Captures /\ captured \in BOOLEAN
    BY CaptureType, EmptyTypes, CompletionAssumption DEF TypeOK, CompletionAssumption
  <2>3. ReceiptId(o, baseline) \in Ids
    BY <2>2 DEF ReceiptId, Ids
  <2>4. row \in Rows
    BY <2>2, EmptyTypes, RowTypes
  <2>5. locals \in Calls /\ locals.receipt \in Ids
    <3> HIDE DEF row, baseline
    <3> QED
      BY <2>3, <2>4, EmptyTypes DEF Calls, NoCall, TypeOK
  <2>6. Start(a, locals, "persist") /\ UNCHANGED <<db, opened>>
    BY <2>1
  <2> HIDE DEF locals
  <2> QED
    BY <2>5, <2>6, CallStartTypes DEF Steps, Judging
<1>2. CASE Persist(a)
  <2> DEFINE c == call[a]
             row == [RowOf(c.receipt) EXCEPT !.captured = c.row.captured, !.baseline = c.row.baseline]
  <2>1. /\ End(a, "persist") /\ Store(c.receipt, row) /\ batches' = batches /\ runs' = runs
        /\ opened' = IF c.row.captured
                     THEN opened \cup {[receipt |-> c.receipt, head |-> c.head, tree |-> c.tree]}
                     ELSE opened
    BY <1>2 DEF Persist
  <2>2. c \in Calls /\ c.receipt \in Ids
    BY <2>1, EndFacts DEF TypeOK, CallsOpen
  <2>3. c.row \in Rows /\ c.head \in Trees /\ c.tree \in Trees
    BY <2>2 DEF Calls
  <2>4. RowOf(c.receipt) \in Rows
    BY EmptyTypes DEF RowOf, TypeOK
  <2>5. row \in Rows
    <3>1. c.row.captured \in BOOLEAN /\ c.row.baseline \in Captures
      BY <2>3 DEF Rows
    <3> QED
      BY <2>4, <3>1, RowTypes
  <2>6. opened' \subseteq [receipt : Ids, head : Trees, tree : Trees]
    BY <2>1, <2>2, <2>3 DEF TypeOK
  <2> HIDE DEF row
  <2>7. DOMAIN rows \subseteq DOMAIN rows' /\ DOMAIN rows' \subseteq Ids /\ \A s \in DOMAIN rows' : rows'[s] \in Rows
    BY <2>1, <2>2, <2>5, StoreTypes, StoreFacts
  <2> QED
    BY <2>1, <2>6, <2>7, CallEndTypes DEF TypeOK
<1>3. CASE Declare(a)
  <2>1. PICK r \in DOMAIN rows, declared \in SUBSET ScopePaths :
          /\ AtOnce(a) /\ Store(r, [rows[r] EXCEPT !.declared = declared])
          /\ UNCHANGED <<batches, runs, opened>>
    BY <1>3 DEF Declare
  <2>2. r \in Ids /\ [rows[r] EXCEPT !.declared = declared] \in Rows
    BY RowTypes DEF TypeOK
  <2>3. DOMAIN rows \subseteq DOMAIN rows' /\ DOMAIN rows' \subseteq Ids /\ \A s \in DOMAIN rows' : rows'[s] \in Rows
    BY <2>1, <2>2, StoreTypes, StoreFacts
  <2> QED
    BY <2>1, <2>3, CallEndTypes DEF TypeOK
<1>4. CASE SetItem(a)
  <2>1. PICK r \in DOMAIN rows, k \in ItemKeys, s \in HandStatuses :
          /\ AtOnce(a)
          /\ Store(r, [rows[r] EXCEPT !.items[k] = s, !.writer = IF k = VerifyTests THEN 0 ELSE @])
          /\ UNCHANGED <<batches, runs, opened>>
    BY <1>4 DEF SetItem
  <2>2. r \in Ids /\ rows[r] \in Rows /\ rows[r].writer \in Nat /\ s \in Statuses
    BY CompletionAssumption DEF TypeOK, Rows, CompletionAssumption
  <2>3. [rows[r] EXCEPT !.items[k] = s, !.writer = IF k = VerifyTests THEN 0 ELSE @] \in Rows
    BY <2>2 DEF Rows
  <2>4. DOMAIN rows \subseteq DOMAIN rows' /\ DOMAIN rows' \subseteq Ids /\ \A e \in DOMAIN rows' : rows'[e] \in Rows
    BY <2>1, <2>2, <2>3, StoreTypes, StoreFacts
  <2> QED
    BY <2>1, <2>4, CallEndTypes DEF TypeOK
<1> QED
  BY <1>1, <1>2, <1>3, <1>4

LEMMA VerifyStepTypes ==
    ASSUME TypeInv, NEW a \in Agents,
           StartVerify(a) \/ SelectByName(a) \/ SelectByDelta(a) \/ SaveBatch(a) \/ UpdateItem(a)
    PROVE  TypeInv'
<1> USE DEF TypeInv
<1> DEFINE c == call[a]
<1>0. /\ c \in Calls /\ c.receipt \in Ids \cup {NoId} /\ c.row \in Rows /\ c.ok \in BOOLEAN
      /\ c.head \in Trees /\ c.tree \in Trees /\ c.tests \in SUBSET tests /\ c.selected \in BOOLEAN
      /\ c.batch \in Nat
  BY DEF TypeOK, Calls
<1>1. CASE StartVerify(a)
  <2>1. PICK r \in DOMAIN rows \cup {NoId} : Start(a, WithScope(r), "v_select") /\ UNCHANGED <<db, opened>>
    BY <1>1 DEF StartVerify
  <2> QED
    BY <2>1, WithScopeFacts, CallStartTypes DEF Steps, Judging
<1>2. CASE SelectByName(a)
  <2>1. PICK chosen \in SUBSET tests :
          Continue(a, "v_select", [c EXCEPT !.tests = chosen], "v_save") /\ UNCHANGED <<db, opened>>
    BY <1>2 DEF SelectByName
  <2>2. [c EXCEPT !.tests = chosen] \in Calls /\ [c EXCEPT !.tests = chosen].receipt = c.receipt
    BY <1>0 DEF Calls
  <2>3. c.receipt \in DOMAIN rows \cup {NoId}
    BY <2>1 DEF Continue, CallsOpen
  <2> QED
    BY <2>1, <2>2, <2>3, CallStepTypes DEF Steps, Judging
<1>3. CASE SelectByDelta(a)
  <2>1. PICK supplied \in DoneFiles, phase \in Phases :
          LET files == FilesChanged(c.row, Capture(head, tree), supplied)
              chosen == SelectedTests(phase, c.receipt.opening, files)
          IN  IF chosen = {} THEN End(a, "v_select")
              ELSE Continue(a, "v_select", [c EXCEPT !.tests = chosen, !.selected = c.row.captured,
                                                     !.head = head, !.tree = tree], "v_save")
    BY <1>3 DEF SelectByDelta
  <2> DEFINE chosen == SelectedTests(phase, c.receipt.opening, FilesChanged(c.row, Capture(head, tree), supplied))
             locals == [c EXCEPT !.tests = chosen, !.selected = c.row.captured, !.head = head, !.tree = tree]
  <2>2. chosen \in SUBSET tests /\ c.row.captured \in BOOLEAN
    BY <1>0 DEF SelectedTests, Rows
  <2>3. End(a, "v_select") \/ Continue(a, "v_select", locals, "v_save")
    BY <2>1
  <2>4. UNCHANGED <<db, opened>>
    BY <1>3 DEF SelectByDelta
  <2>5. locals \in Calls /\ locals.receipt = c.receipt
    <3> HIDE DEF chosen
    <3> QED
      BY <1>0, <2>2 DEF Calls, TypeOK
  <2>6. c.receipt \in DOMAIN rows \cup {NoId}
    BY <2>3 DEF End, Continue, CallsOpen
  <2> HIDE DEF locals
  <2> QED
    BY <2>3, <2>4, <2>5, <2>6, EmptyTypes, CallStepTypes DEF Steps, Judging, End
<1>4. CASE SaveBatch(a)
  <2>1. PICK failed \in SUBSET c.tests :
          /\ batches' = Append(batches, [receipt |-> c.receipt, tests |-> c.tests, passed |-> failed = {},
                                         selected |-> c.selected, head |-> c.head, tree |-> c.tree])
          /\ IF c.receipt = NoId THEN End(a, "v_save")
             ELSE Continue(a, "v_save", [c EXCEPT !.batch = Len(batches) + 1, !.ok = failed = {}], "v_item")
          /\ UNCHANGED <<rows, runs, opened>>
    BY <1>4 DEF SaveBatch
  <2> DEFINE batch == [receipt |-> c.receipt, tests |-> c.tests, passed |-> failed = {},
                       selected |-> c.selected, head |-> c.head, tree |-> c.tree]
             locals == [c EXCEPT !.batch = Len(batches) + 1, !.ok = failed = {}]
  <2>2. batch \in Batches
    BY <1>0 DEF Batches
  <2>3. batches' \in Seq(Batches) /\ Len(batches) + 1 \in Nat
    <3> HIDE DEF batch
    <3>1. batches' = Append(batches, batch)
      BY <2>1 DEF batch
    <3> QED
      BY <2>2, <3>1 DEF TypeOK
  <2>4. locals \in Calls /\ locals.receipt = c.receipt
    BY <1>0, <2>3 DEF Calls
  <2>5. c.receipt \in DOMAIN rows \cup {NoId}
    BY <2>1 DEF End, Continue, CallsOpen
  <2>6. CASE c.receipt = NoId
    BY <2>1, <2>3, <2>6, CallEndTypes DEF TypeOK
  <2>7. CASE c.receipt # NoId
    <3>1. Continue(a, "v_save", locals, "v_item")
      BY <2>1, <2>7
    <3> HIDE DEF locals
    <3>2. /\ project' = project /\ calls' = calls /\ edits' = edits
          /\ call' \in [Agents -> Calls] /\ pc' \in [Agents -> Steps]
          /\ call'[a] = locals /\ pc'[a] = "v_item"
          /\ \A b \in Agents \ {a} : call'[b] = call[b] /\ pc'[b] = pc[b]
      BY <2>4, <3>1, ContinueFacts DEF Steps
    <3>3. TypeOK'
      BY <2>1, <2>3, <3>2, TestsFixed DEF TypeOK
    <3>4. CallsOpen'
      BY <2>1, <2>4, <2>5, <2>7, <3>2, CallsOpenKept DEF Judging
    <3> QED
      BY <3>3, <3>4
  <2> QED
    BY <2>6, <2>7
<1>5. CASE UpdateItem(a)
  <2> DEFINE row == [rows[c.receipt] EXCEPT
                        !.items[VerifyTests] = IF c.ok THEN "complete" ELSE "blocked", !.writer = c.batch]
  <2>1. End(a, "v_item") /\ Store(c.receipt, row) /\ UNCHANGED <<batches, runs, opened>>
    BY <1>5 DEF UpdateItem
  <2>2. c.receipt \in DOMAIN rows /\ c.receipt \in Ids
    BY <2>1 DEF End, Continue, CallsOpen, TypeOK
  <2>3. row \in Rows
    <3>1. rows[c.receipt] \in Rows
      BY <2>2 DEF TypeOK
    <3>2. VerifyTests \in ItemKeys /\ (IF c.ok THEN "complete" ELSE "blocked") \in Statuses
      BY DEF ItemKeys, Statuses
    <3> QED
      BY <1>0, <3>1, <3>2, RowTypes
  <2> HIDE DEF row
  <2>4. DOMAIN rows \subseteq DOMAIN rows' /\ DOMAIN rows' \subseteq Ids /\ \A s \in DOMAIN rows' : rows'[s] \in Rows
    BY <2>1, <2>2, <2>3, StoreTypes, StoreFacts
  <2> QED
    BY <2>1, <2>4, CallEndTypes DEF TypeOK
<1> QED
  BY <1>1, <1>2, <1>3, <1>4, <1>5

LEMMA DoneStepTypes ==
    ASSUME TypeInv, NEW a \in Agents,
           StartDone(a) \/ LoadPlan(a) \/ Detect(a) \/ ListItems(a) \/ Judge(a) \/ Crash(a)
    PROVE  TypeInv'
<1> USE DEF TypeInv
<1> DEFINE c == call[a]
<1>0. /\ c \in Calls /\ c.row \in Rows /\ c.files \in SUBSET Paths /\ c.ok \in BOOLEAN
      /\ c.head \in Trees /\ c.tree \in Trees
  BY DEF TypeOK, Calls
<1>1. CASE StartDone(a)
  <2>1. PICK r \in DOMAIN rows : Start(a, WithScope(r), "d_plan") /\ UNCHANGED <<db, opened>>
    BY <1>1 DEF StartDone
  <2> QED
    BY <2>1, WithScopeFacts, CallStartTypes DEF Steps, Judging
<1>2. CASE LoadPlan(a)
  <2> DEFINE locals == [c EXCEPT !.row.declared = rows[c.receipt].declared]
  <2>1. Continue(a, "d_plan", locals, "d_detect") /\ UNCHANGED <<db, opened>>
    BY <1>2 DEF LoadPlan
  <2>2. c.receipt \in DOMAIN rows
    BY <2>1 DEF Continue, CallsOpen, Judging
  <2>3. locals \in Calls /\ locals.receipt = c.receipt
    <3>1. rows[c.receipt].declared \in SUBSET ScopePaths
      BY <2>2 DEF TypeOK, Rows
    <3>2. [c.row EXCEPT !.declared = rows[c.receipt].declared] \in Rows
      BY <1>0, <3>1, RowTypes
    <3> QED
      BY <1>0, <3>2 DEF Calls
  <2> HIDE DEF locals
  <2> QED
    BY <2>1, <2>2, <2>3, CallStepTypes DEF Steps, Judging
<1>3. CASE Detect(a)
  <2>1. PICK supplied \in DoneFiles, noFileChanges \in BOOLEAN :
          LET current == Capture(head, tree)
              files == FilesChanged(c.row, current, supplied)
          IN  \/ End(a, "d_detect")
              \/ Continue(a, "d_detect",
                    [c EXCEPT !.files = files, !.head = head, !.tree = tree,
                              !.ok = /\ ~Mismatch(c.row, current, supplied)
                                     /\ files \subseteq InScope(c.receipt.opening, c.row.declared)],
                    "d_items")
    BY <1>3 DEF Detect
  <2> DEFINE files == FilesChanged(c.row, Capture(head, tree), supplied)
             ok == /\ ~Mismatch(c.row, Capture(head, tree), supplied)
                   /\ files \subseteq InScope(c.receipt.opening, c.row.declared)
             locals == [c EXCEPT !.files = files, !.head = head, !.tree = tree, !.ok = ok]
  <2>2. End(a, "d_detect") \/ Continue(a, "d_detect", locals, "d_items")
    BY <2>1
  <2>3. UNCHANGED <<db, opened>>
    BY <1>3 DEF Detect
  <2>4. files \in SUBSET Paths /\ ok \in BOOLEAN
    BY FilesType
  <2>5. locals \in Calls /\ locals.receipt = c.receipt
    <3> HIDE DEF files, ok
    <3> QED
      BY <1>0, <2>4 DEF Calls, TypeOK
  <2>6. c.receipt \in DOMAIN rows
    BY <2>2 DEF End, Continue, CallsOpen, Judging
  <2> HIDE DEF locals
  <2> QED
    BY <2>2, <2>3, <2>5, <2>6, EmptyTypes, CallStepTypes DEF Steps, Judging, End
<1>4. CASE ListItems(a)
  <2> DEFINE locals == [c EXCEPT !.row.items = rows[c.receipt].items, !.row.writer = rows[c.receipt].writer]
  <2>1. Continue(a, "d_items", locals, "d_judge") /\ UNCHANGED <<db, opened>>
    BY <1>4 DEF ListItems
  <2>2. c.receipt \in DOMAIN rows
    BY <2>1 DEF Continue, CallsOpen, Judging
  <2>3. locals \in Calls /\ locals.receipt = c.receipt
    <3>1. rows[c.receipt].items \in [ItemKeys -> Statuses \cup {Absent}] /\ rows[c.receipt].writer \in Nat
      BY <2>2 DEF TypeOK, Rows
    <3>2. [c.row EXCEPT !.items = rows[c.receipt].items, !.writer = rows[c.receipt].writer] \in Rows
      BY <1>0, <3>1, RowTypes
    <3> QED
      BY <1>0, <3>2 DEF Calls
  <2> HIDE DEF locals
  <2> QED
    BY <2>1, <2>2, <2>3, CallStepTypes DEF Steps, Judging
<1>5. CASE Judge(a)
  <2> DEFINE gates == \A k \in RequiredKeys(c.receipt.opening, c.files) : c.row.items[k] = "complete"
             run == [receipt |-> c.receipt, row |-> c.row, files |-> c.files,
                     status |-> IF c.ok /\ gates THEN "accepted" ELSE "accepted_with_warnings",
                     head |-> c.head, tree |-> c.tree]
  <2>1. End(a, "d_judge") /\ UNCHANGED <<rows, batches, opened>> /\ runs' \subseteq runs \cup {run}
    BY <1>5 DEF Judge
  <2>2. c.receipt \in Ids
    BY <2>1 DEF End, Continue, CallsOpen, Judging, TypeOK
  <2>3. run \in Runs
    <3> HIDE DEF gates
    <3> QED
      BY <1>0, <2>2 DEF Runs
  <2> HIDE DEF run
  <2> QED
    BY <2>1, <2>3, CallEndTypes DEF TypeOK
<1>6. CASE Crash(a)
  BY <1>6, EmptyTypes, CallStepTypes DEF Crash, End, Steps, Judging
<1> QED
  BY <1>1, <1>2, <1>3, <1>4, <1>5, <1>6

LEMMA ProjectStepTypes ==
    ASSUME TypeInv, Commit \/ \E p \in Paths, c \in Contents \cup {Absent} : Edit(p, c)
    PROVE  TypeInv'
<1> USE DEF TypeInv
<1>1. /\ tests' = tests /\ rows' = rows /\ batches' = batches /\ runs' = runs /\ opened' = opened
      /\ pc' = pc /\ call' = call /\ calls' = calls
  BY DEF Commit, Edit, db
<1>2. head' \in Trees /\ tree' \in Trees /\ edits' \in 0 .. MaxEdits
  BY CompletionAssumption DEF Commit, Edit, TypeOK, Trees, CompletionAssumption
<1>3. Calls' = Calls /\ Batches' = Batches
  BY <1>1 DEF Calls, Batches
<1> QED
  BY <1>1, <1>2, <1>3 DEF TypeOK, CallsOpen

LEMMA StepTypes == TypeInv /\ [Next]_vars => TypeInv'
<1> SUFFICES ASSUME TypeInv, [Next]_vars PROVE TypeInv'
  OBVIOUS
<1>1. CASE UNCHANGED vars
  BY <1>1 DEF vars, project, db, TypeInv, TypeOK, CallsOpen, Calls, Batches
<1>2. CASE Commit \/ \E p \in Paths, c \in Contents \cup {Absent} : Edit(p, c)
  BY <1>2, ProjectStepTypes
<1>3. ASSUME NEW a \in Agents,
             \/ Open(a) \/ Persist(a) \/ Declare(a) \/ SetItem(a)
             \/ StartVerify(a) \/ SelectByName(a) \/ SelectByDelta(a) \/ SaveBatch(a) \/ UpdateItem(a)
             \/ StartDone(a) \/ LoadPlan(a) \/ Detect(a) \/ ListItems(a) \/ Judge(a) \/ Crash(a)
      PROVE  TypeInv'
  BY <1>3, ContextStepTypes, VerifyStepTypes, DoneStepTypes
<1> QED
  BY <1>1, <1>2, <1>3 DEF Next

(* Every stored row, batch and run and every call is well typed, and a call that judges or reports *)
(* is about a receipt that exists.                                                                 *)
THEOREM TypeCorrect == Spec => []TypeOK
<1>1. Init => TypeInv
  BY InitTypes
<1>2. TypeInv /\ [Next]_vars => TypeInv'
  BY StepTypes
<1>3. TypeInv => TypeOK
  BY DEF TypeInv
<1> QED
  BY <1>1, <1>2, <1>3, PTL DEF Spec

-------------------------------------------------------------------------------
(* The baseline: what a receipt's id hashes is what its row keeps, and what the capture has seen. *)

BaselineInv ==
    /\ \A r \in DOMAIN rows : rows[r].baseline = r.baseline
    /\ \A o \in opened : o.receipt \in DOMAIN rows /\ o.receipt.baseline = Capture(o.head, o.tree)
    /\ \A a \in Agents : pc[a] = "persist" =>
          /\ call[a].row.baseline = call[a].receipt.baseline
          /\ IF call[a].row.captured THEN call[a].row.baseline = Capture(call[a].head, call[a].tree)
             ELSE call[a].row.baseline = Nothing

(* Two captures differ in exactly the files whose content differs, unless there was a commit between. *)
LEMMA CaptureDelta ==
    ASSUME NEW h0 \in Trees, NEW t0 \in Trees, NEW h \in Trees, NEW t \in Trees, Git => h = h0
    PROVE  Delta(Capture(h0, t0), Capture(h, t)) = {p \in Paths : t[p] # t0[p]}
<1>1. \A p \in Paths : Capture(h0, t0)[p] # Capture(h, t)[p] <=> t[p] # t0[p]
  <2> SUFFICES ASSUME NEW p \in Paths
               PROVE  Capture(h0, t0)[p] # Capture(h, t)[p] <=> t[p] # t0[p]
    OBVIOUS
  <2>1. t[p] # Unlisted /\ t0[p] # Unlisted
    BY CompletionAssumption DEF CompletionAssumption, Trees, Absent, Unlisted
  <2>2. Capture(h, t)[p] = IF (IF Git THEN t[p] = h[p] ELSE t[p] = Absent) THEN Unlisted ELSE t[p]
    BY DEF Capture
  <2>3. Capture(h0, t0)[p] = IF (IF Git THEN t0[p] = h0[p] ELSE t0[p] = Absent) THEN Unlisted ELSE t0[p]
    BY DEF Capture
  <2>4. CASE Git
    BY <2>1, <2>2, <2>3, <2>4
  <2>5. CASE ~Git
    BY <2>1, <2>2, <2>3, <2>5
  <2> QED
    BY <2>4, <2>5
<1> QED
  BY <1>1 DEF Delta

(* Storing a row that keeps the baseline of a receipt that exists. *)
LEMMA BaselineStored ==
    ASSUME TypeInv, BaselineInv, NEW a \in Agents, NEW from, End(a, from) \/ AtOnce(a),
           opened' = opened,
           NEW r \in DOMAIN rows, NEW row, row.baseline = rows[r].baseline, Store(r, row)
    PROVE  BaselineInv'
<1>1. pc'[a] = "idle" /\ \A b \in Agents \ {a} : call'[b] = call[b] /\ pc'[b] = pc[b]
  BY EndFacts, AtOnceFacts DEF TypeInv
<1>2. DOMAIN rows' = DOMAIN rows /\ rows'[r] = row /\ \A s \in DOMAIN rows \ {r} : rows'[s] = rows[s]
  BY StoreFacts
<1> QED
  BY <1>1, <1>2 DEF BaselineInv

(* A step of a call that is not `context`, and stores no row. *)
LEMMA BaselineFrame ==
    ASSUME TypeInv, BaselineInv, NEW a \in Agents, rows' = rows, opened' = opened,
           pc'[a] # "persist", \A b \in Agents \ {a} : call'[b] = call[b] /\ pc'[b] = pc[b]
    PROVE  BaselineInv'
BY DEF BaselineInv

LEMMA BaselineInit == Init => BaselineInv
BY DEF Init, BaselineInv

LEMMA BaselineContext ==
    ASSUME TypeInv, BaselineInv, NEW a \in Agents, Open(a) \/ Persist(a) \/ Declare(a) \/ SetItem(a)
    PROVE  BaselineInv'
<1> USE DEF TypeInv
<1>1. CASE Open(a)
  <2>1. PICK o \in Openings, captured \in {TRUE} \cup {~CaptureFails} :
          LET baseline == IF captured THEN Capture(head, tree) ELSE Nothing
          IN  /\ Start(a, [NoCall EXCEPT !.receipt = ReceiptId(o, baseline),
                                         !.row = [NoRow EXCEPT !.captured = captured, !.baseline = baseline],
                                         !.head = head, !.tree = tree],
                       "persist")
              /\ UNCHANGED <<db, opened>>
    BY <1>1 DEF Open
  <2> DEFINE baseline == IF captured THEN Capture(head, tree) ELSE Nothing
             row == [NoRow EXCEPT !.captured = captured, !.baseline = baseline]
             locals == [NoCall EXCEPT !.receipt = ReceiptId(o, baseline), !.row = row,
                                      !.head = head, !.tree = tree]
  <2>2. Start(a, locals, "persist") /\ rows' = rows /\ opened' = opened
    BY <2>1 DEF db
  <2>3. row.baseline = baseline /\ row.captured = captured
    BY DEF NoRow
  <2>4. locals.receipt.baseline = baseline
    BY DEF NoCall, ReceiptId
  <2>5. locals.row = row /\ locals.head = head /\ locals.tree = tree
    <3> HIDE DEF row
    <3> QED
      BY DEF NoCall
  <2> HIDE DEF locals
  <2>6. call'[a] = locals /\ pc'[a] = "persist" /\ \A b \in Agents \ {a} : call'[b] = call[b] /\ pc'[b] = pc[b]
    BY <2>2 DEF Start, TypeOK
  <2> HIDE DEF row
  <2>8. captured => baseline = Capture(head, tree)
    OBVIOUS
  <2>9. ~captured => baseline = Nothing
    OBVIOUS
  <2> HIDE DEF baseline
  <2> QED
    BY <2>2, <2>3, <2>4, <2>5, <2>6, <2>8, <2>9 DEF BaselineInv
<1>2. CASE Persist(a)
  <2> DEFINE c == call[a]
             row == [RowOf(c.receipt) EXCEPT !.captured = c.row.captured, !.baseline = c.row.baseline]
  <2>1. /\ End(a, "persist") /\ Store(c.receipt, row)
        /\ opened' = IF c.row.captured
                     THEN opened \cup {[receipt |-> c.receipt, head |-> c.head, tree |-> c.tree]}
                     ELSE opened
    BY <1>2 DEF Persist
  <2>2. /\ pc[a] = "persist" /\ pc'[a] = "idle"
        /\ \A b \in Agents \ {a} : call'[b] = call[b] /\ pc'[b] = pc[b]
    BY <2>1, EndFacts
  <2>3. row.baseline = c.receipt.baseline
    <3>1. RowOf(c.receipt) \in Rows
      BY EmptyTypes DEF RowOf, TypeOK
    <3> QED
      BY <2>2, <3>1 DEF BaselineInv, Rows
  <2>4. c.row.captured => c.receipt.baseline = Capture(c.head, c.tree)
    BY <2>2 DEF BaselineInv
  <2> HIDE DEF row
  <2>5. /\ DOMAIN rows' = DOMAIN rows \cup {c.receipt} /\ rows'[c.receipt] = row
        /\ \A s \in DOMAIN rows \ {c.receipt} : rows'[s] = rows[s]
    BY <2>1, StoreFacts
  <2>6. \A o \in opened' : o.receipt \in DOMAIN rows' /\ o.receipt.baseline = Capture(o.head, o.tree)
    BY <2>1, <2>4, <2>5 DEF BaselineInv
  <2>7. \A r \in DOMAIN rows' : rows'[r].baseline = r.baseline
    BY <2>3, <2>5 DEF BaselineInv
  <2> QED
    BY <2>2, <2>6, <2>7 DEF BaselineInv
<1>3. CASE Declare(a)
  <2>1. PICK r \in DOMAIN rows, declared \in SUBSET ScopePaths :
          AtOnce(a) /\ Store(r, [rows[r] EXCEPT !.declared = declared]) /\ opened' = opened
    BY <1>3 DEF Declare
  <2>2. [rows[r] EXCEPT !.declared = declared].baseline = rows[r].baseline
    BY DEF TypeOK, Rows
  <2> QED
    BY <2>1, <2>2, BaselineStored
<1>4. CASE SetItem(a)
  <2>1. PICK r \in DOMAIN rows, k \in ItemKeys, s \in HandStatuses :
          /\ AtOnce(a) /\ opened' = opened
          /\ Store(r, [rows[r] EXCEPT !.items[k] = s, !.writer = IF k = VerifyTests THEN 0 ELSE @])
    BY <1>4 DEF SetItem
  <2>2. [rows[r] EXCEPT !.items[k] = s, !.writer = IF k = VerifyTests THEN 0 ELSE @].baseline = rows[r].baseline
    BY DEF TypeOK, Rows
  <2> QED
    BY <2>1, <2>2, BaselineStored
<1> QED
  BY <1>1, <1>2, <1>3, <1>4

(* What `verify` and `done` do to a call and to the rows. *)
LEMMA JudgingFrame ==
    ASSUME TypeInv, NEW a \in Agents,
           \/ StartVerify(a) \/ SelectByName(a) \/ SelectByDelta(a) \/ SaveBatch(a)
           \/ StartDone(a) \/ LoadPlan(a) \/ Detect(a) \/ ListItems(a) \/ Judge(a) \/ Crash(a)
    PROVE  /\ rows' = rows /\ opened' = opened /\ project' = project
           /\ pc'[a] # "persist" /\ \A b \in Agents \ {a} : call'[b] = call[b] /\ pc'[b] = pc[b]
<1> USE DEF TypeInv
<1>1. rows' = rows /\ opened' = opened
  BY DEF StartVerify, SelectByName, SelectByDelta, SaveBatch, StartDone, LoadPlan, Detect, ListItems, Judge, Crash, db
<1>2. CASE StartVerify(a) \/ StartDone(a)
  BY <1>1, <1>2 DEF StartVerify, StartDone, Start, TypeOK
<1>3. CASE SelectByName(a) \/ SelectByDelta(a) \/ SaveBatch(a)
  BY <1>1, <1>3 DEF SelectByName, SelectByDelta, SaveBatch, End, Continue, TypeOK
<1>4. CASE LoadPlan(a) \/ Detect(a) \/ ListItems(a)
  BY <1>1, <1>4 DEF LoadPlan, Detect, ListItems, End, Continue, TypeOK
<1>5. CASE Judge(a) \/ Crash(a)
  BY <1>1, <1>5 DEF Judge, Crash, End, Continue, TypeOK
<1> QED
  BY <1>2, <1>3, <1>4, <1>5

LEMMA UpdateItemFacts ==
    ASSUME TypeInv, NEW a \in Agents, UpdateItem(a)
    PROVE  /\ End(a, "v_item") /\ batches' = batches /\ runs' = runs /\ opened' = opened
           /\ pc[a] = "v_item" /\ call[a].receipt \in DOMAIN rows
           /\ \E row \in Rows :
                 /\ Store(call[a].receipt, row)
                 /\ row.captured = rows[call[a].receipt].captured
                 /\ row.baseline = rows[call[a].receipt].baseline
                 /\ row.items[VerifyTests] = IF call[a].ok THEN "complete" ELSE "blocked"
                 /\ row.writer = call[a].batch
<1> USE DEF TypeInv
<1> DEFINE c == call[a]
           row == [rows[c.receipt] EXCEPT
                      !.items[VerifyTests] = IF c.ok THEN "complete" ELSE "blocked", !.writer = c.batch]
<1>1. End(a, "v_item") /\ batches' = batches /\ runs' = runs /\ opened' = opened /\ Store(c.receipt, row)
  BY DEF UpdateItem
<1>2. pc[a] = "v_item" /\ c.receipt \in DOMAIN rows
  BY <1>1 DEF End, Continue, CallsOpen
<1>3. rows[c.receipt] \in Rows /\ c.batch \in Nat
  BY <1>2 DEF TypeOK, Calls
<1>4. VerifyTests \in ItemKeys /\ (IF c.ok THEN "complete" ELSE "blocked") \in Statuses
  BY DEF ItemKeys, Statuses
<1>5. row \in Rows
  BY <1>3, <1>4, RowTypes
<1>6. /\ row.captured = rows[c.receipt].captured /\ row.baseline = rows[c.receipt].baseline
      /\ row.items[VerifyTests] = IF c.ok THEN "complete" ELSE "blocked"
      /\ row.writer = c.batch
  BY <1>3, <1>4 DEF Rows
<1> HIDE DEF row
<1> QED
  BY <1>1, <1>2, <1>5, <1>6

LEMMA BaselineStep == TypeInv /\ BaselineInv /\ [Next]_vars => BaselineInv'
<1> SUFFICES ASSUME TypeInv, BaselineInv, [Next]_vars PROVE BaselineInv'
  OBVIOUS
<1>1. CASE UNCHANGED vars
  BY <1>1 DEF vars, db, BaselineInv
<1>2. CASE Commit \/ \E p \in Paths, c \in Contents \cup {Absent} : Edit(p, c)
  BY <1>2 DEF Commit, Edit, db, BaselineInv
<1>3. ASSUME NEW a \in Agents, Open(a) \/ Persist(a) \/ Declare(a) \/ SetItem(a)
      PROVE  BaselineInv'
  BY <1>3, BaselineContext
<1>4. ASSUME NEW a \in Agents,
             \/ StartVerify(a) \/ SelectByName(a) \/ SelectByDelta(a) \/ SaveBatch(a)
             \/ StartDone(a) \/ LoadPlan(a) \/ Detect(a) \/ ListItems(a) \/ Judge(a) \/ Crash(a)
      PROVE  BaselineInv'
  BY <1>4, JudgingFrame, BaselineFrame
<1>5. ASSUME NEW a \in Agents, UpdateItem(a)
      PROVE  BaselineInv'
  BY <1>5, UpdateItemFacts, BaselineStored
<1> QED
  BY <1>1, <1>2, <1>3, <1>4, <1>5 DEF Next

THEOREM BaselineHolds == Spec => [](TypeInv /\ BaselineInv)
<1>1. Init => TypeInv /\ BaselineInv
  BY InitTypes, BaselineInit
<1>2. TypeInv /\ BaselineInv /\ [Next]_vars => (TypeInv /\ BaselineInv)'
  BY StepTypes, BaselineStep
<1> QED
  BY <1>1, <1>2, PTL DEF Spec

(* The delta of a receipt, as long as nothing was committed since it was opened. *)
LEMMA DeltaOfReceipt ==
    ASSUME TypeInv, BaselineInv, NEW o \in opened, NEW h \in Trees, NEW t \in Trees, SameHead(o, h)
    PROVE  Delta(o.receipt.baseline, Capture(h, t)) = Changed(o, t)
<1>1. o.head \in Trees /\ o.tree \in Trees
  BY DEF TypeInv, TypeOK
<1>2. o.receipt.baseline = Capture(o.head, o.tree)
  BY DEF BaselineInv
<1>3. Delta(Capture(o.head, o.tree), Capture(h, t)) = {p \in Paths : t[p] # o.tree[p]}
  BY <1>1, CaptureDelta DEF SameHead
<1> QED
  BY <1>2, <1>3 DEF Changed

(* The delta that `verify` and `done` work with is what has really changed since the receipt was   *)
(* opened, whoever opened it and however often, until something is committed.                      *)
THEOREM DeltaCorrect == Spec => []DeltaIsExact
<1>1. TypeInv /\ BaselineInv => DeltaIsExact
  <2> SUFFICES ASSUME TypeInv, BaselineInv, NEW o \in opened, SameHead(o, head)
               PROVE  Delta(rows[o.receipt].baseline, Capture(head, tree)) = Changed(o, tree)
    BY DEF DeltaIsExact
  <2>1. rows[o.receipt].baseline = o.receipt.baseline
    BY DEF BaselineInv
  <2> QED
    BY <2>1, DeltaOfReceipt DEF TypeInv, TypeOK
<1> QED
  BY <1>1, BaselineHolds, PTL

LEMMA KeptStep == TypeInv /\ BaselineInv /\ [Next]_vars =>
    \A r \in DOMAIN rows : rows[r].captured /\ rows[r].baseline # Nothing
        => rows'[r].captured /\ rows'[r].baseline = rows[r].baseline
<1> SUFFICES ASSUME TypeInv, BaselineInv, [Next]_vars,
                    NEW r \in DOMAIN rows, rows[r].captured, rows[r].baseline # Nothing
             PROVE  rows'[r].captured /\ rows'[r].baseline = rows[r].baseline
  OBVIOUS
<1>0. rows[r] \in Rows
  BY DEF TypeInv, TypeOK
<1>1. CASE rows' = rows
  BY <1>1
<1>2. ASSUME NEW a \in Agents, Persist(a)
      PROVE  rows'[r].captured /\ rows'[r].baseline = rows[r].baseline
  <2> DEFINE c == call[a]
             row == [RowOf(c.receipt) EXCEPT !.captured = c.row.captured, !.baseline = c.row.baseline]
  <2>1. Store(c.receipt, row) /\ pc[a] = "persist"
    BY <1>2 DEF Persist, End, Continue
  <2>2. CASE c.receipt = r
    <3>1. c.row.baseline = rows[r].baseline /\ c.row.captured
      BY <2>1, <2>2 DEF BaselineInv
    <3>2. row.captured = c.row.captured /\ row.baseline = c.row.baseline
      BY <1>0, <2>2 DEF RowOf, Rows
    <3> HIDE DEF row
    <3>3. rows'[r] = row
      BY <2>1, <2>2, StoreFacts
    <3> QED
      BY <3>1, <3>2, <3>3
  <2>3. CASE c.receipt # r
    <3> HIDE DEF row
    <3> QED
      BY <2>1, <2>3, StoreFacts
  <2> QED
    BY <2>2, <2>3
<1>3. ASSUME NEW a \in Agents, Declare(a)
      PROVE  rows'[r].captured /\ rows'[r].baseline = rows[r].baseline
  <2>1. PICK s \in DOMAIN rows, declared \in SUBSET ScopePaths :
          Store(s, [rows[s] EXCEPT !.declared = declared])
    BY <1>3 DEF Declare
  <2> DEFINE row == [rows[s] EXCEPT !.declared = declared]
  <2>2. row.captured = rows[s].captured /\ row.baseline = rows[s].baseline
    BY DEF TypeInv, TypeOK, Rows
  <2> HIDE DEF row
  <2>3. rows'[s] = row /\ \A e \in DOMAIN rows \ {s} : rows'[e] = rows[e]
    BY <2>1, StoreFacts DEF row
  <2> QED
    BY <2>2, <2>3
<1>4. ASSUME NEW a \in Agents, SetItem(a)
      PROVE  rows'[r].captured /\ rows'[r].baseline = rows[r].baseline
  <2>1. PICK s \in DOMAIN rows, k \in ItemKeys, v \in HandStatuses :
          Store(s, [rows[s] EXCEPT !.items[k] = v, !.writer = IF k = VerifyTests THEN 0 ELSE @])
    BY <1>4 DEF SetItem
  <2> DEFINE row == [rows[s] EXCEPT !.items[k] = v, !.writer = IF k = VerifyTests THEN 0 ELSE @]
  <2>2. row.captured = rows[s].captured /\ row.baseline = rows[s].baseline
    BY DEF TypeInv, TypeOK, Rows
  <2> HIDE DEF row
  <2>3. rows'[s] = row /\ \A e \in DOMAIN rows \ {s} : rows'[e] = rows[e]
    BY <2>1, StoreFacts DEF row
  <2> QED
    BY <2>2, <2>3
<1>5. ASSUME NEW a \in Agents, UpdateItem(a)
      PROVE  rows'[r].captured /\ rows'[r].baseline = rows[r].baseline
  <2>1. PICK row \in Rows : /\ Store(call[a].receipt, row)
                            /\ row.captured = rows[call[a].receipt].captured
                            /\ row.baseline = rows[call[a].receipt].baseline
    BY <1>5, UpdateItemFacts
  <2>2. rows'[call[a].receipt] = row /\ \A e \in DOMAIN rows \ {call[a].receipt} : rows'[e] = rows[e]
    BY <2>1, StoreFacts
  <2> QED
    BY <2>1, <2>2
<1>6. ASSUME NEW a \in Agents,
             \/ Open(a) \/ StartVerify(a) \/ SelectByName(a) \/ SelectByDelta(a) \/ SaveBatch(a)
             \/ StartDone(a) \/ LoadPlan(a) \/ Detect(a) \/ ListItems(a) \/ Judge(a) \/ Crash(a)
      PROVE  rows' = rows
  BY <1>6, JudgingFrame DEF Open, db
<1>7. CASE Commit \/ \E p \in Paths, c \in Contents \cup {Absent} : Edit(p, c)
  BY <1>1, <1>7 DEF Commit, Edit, db
<1>8. CASE UNCHANGED vars
  BY <1>1, <1>8 DEF vars, db
<1>9. ASSUME NEW a \in Agents, \/ Open(a) \/ Persist(a) \/ Declare(a) \/ SetItem(a)
             \/ StartVerify(a) \/ SelectByName(a) \/ SelectByDelta(a) \/ SaveBatch(a) \/ UpdateItem(a)
             \/ StartDone(a) \/ LoadPlan(a) \/ Detect(a) \/ ListItems(a) \/ Judge(a) \/ Crash(a)
      PROVE  rows'[r].captured /\ rows'[r].baseline = rows[r].baseline
  BY <1>1, <1>2, <1>3, <1>4, <1>5, <1>6, <1>9
<1> QED
  BY <1>7, <1>8, <1>9 DEF Next

(* Opening a receipt again, by whoever and over whatever tree, never replaces its baseline; and no   *)
(* other call touches it.                                                                            *)
THEOREM BaselineKept == Spec => BaselineIsKept
<1>1. TypeInv /\ BaselineInv /\ [Next]_vars =>
        [\A r \in DOMAIN rows : rows[r].captured /\ rows[r].baseline # Nothing
            => rows'[r].captured /\ rows'[r].baseline = rows[r].baseline]_vars
  BY KeptStep
<1> QED
  BY <1>1, BaselineHolds, PTL DEF Spec, BaselineIsKept

-------------------------------------------------------------------------------
(* `done`: what the call has read of the tree and of the scope, and what a run records of it.       *)

(* A verdict over a captured baseline is over the delta, and is plain only inside the scope. *)
Judged(c, ok) ==
    c.row.captured =>
        /\ c.files = Delta(c.receipt.baseline, Capture(c.head, c.tree))
        /\ ok => c.files \subseteq InScope(c.receipt.opening, c.row.declared)

GatesMet(run) == \A k \in RequiredKeys(run.receipt.opening, run.files) : run.row.items[k] = "complete"

DoneInv ==
    /\ \A a \in Agents :
          /\ pc[a] \in Judging => call[a].row.baseline = call[a].receipt.baseline
          /\ pc[a] \in {"d_items", "d_judge"} => Judged(call[a], call[a].ok)
    /\ \A run \in runs :
          /\ Judged(run, run.status = "accepted")
          /\ run.status = "accepted" => GatesMet(run)

LEMMA DoneInit == Init => DoneInv
BY DEF Init, DoneInv, Judging

(* A step that stores no run and judges nothing. *)
LEMMA DoneFrame ==
    ASSUME TypeInv, DoneInv, NEW a \in Agents, runs' = runs, project' = project,
           pc'[a] \notin Judging, \A b \in Agents \ {a} : call'[b] = call[b] /\ pc'[b] = pc[b]
    PROVE  DoneInv'
<1>1. workflow' = workflow
  BY DEF project
<1>2. \A run \in runs : GatesMet(run)' <=> GatesMet(run)
  BY <1>1 DEF GatesMet, RequiredKeys
<1>3. \A b \in Agents : pc'[b] \in Judging => pc[b] \in Judging /\ pc'[b] = pc[b] /\ call'[b] = call[b]
  OBVIOUS
<1> QED
  BY <1>2, <1>3 DEF DoneInv, Judged, Judging

(* A step of `done` before its verdict. *)
LEMMA DoneCallFrame ==
    ASSUME TypeInv, DoneInv, NEW a \in Agents, runs' = runs, project' = project,
           \A b \in Agents \ {a} : call'[b] = call[b] /\ pc'[b] = pc[b],
           call'[a].row.baseline = call'[a].receipt.baseline,
           pc'[a] \in {"d_items", "d_judge"} => Judged(call'[a], call'[a].ok)
    PROVE  DoneInv'
<1>1. workflow' = workflow
  BY DEF project
<1>2. \A run \in runs : GatesMet(run)' <=> GatesMet(run)
  BY <1>1 DEF GatesMet, RequiredKeys
<1> QED
  BY <1>2 DEF DoneInv, Judged, Judging

LEMMA DoneJudging ==
    ASSUME TypeInv, BaselineInv, DoneInv, NEW a \in Agents,
           StartDone(a) \/ LoadPlan(a) \/ Detect(a) \/ ListItems(a) \/ Judge(a)
    PROVE  DoneInv'
<1> USE DEF TypeInv
<1> DEFINE c == call[a]
<1>0. /\ project' = project /\ workflow' = workflow
      /\ \A b \in Agents \ {a} : call'[b] = call[b] /\ pc'[b] = pc[b]
  BY JudgingFrame DEF project
<1>t. c \in Calls /\ c.row \in Rows
  BY DEF TypeOK, Calls
<1>1. CASE StartDone(a)
  <2>1. PICK r \in DOMAIN rows : Start(a, WithScope(r), "d_plan") /\ UNCHANGED <<db, opened>>
    BY <1>1 DEF StartDone
  <2>2. call'[a] = WithScope(r) /\ pc'[a] = "d_plan" /\ runs' = runs
    BY <2>1, WithScopeFacts, StartFacts DEF Steps, db
  <2>3. WithScope(r).receipt = r /\ WithScope(r).row.baseline = r.baseline
    BY WithScopeFacts DEF BaselineInv
  <2> QED
    BY <1>0, <2>2, <2>3, DoneCallFrame
<1>2. CASE LoadPlan(a)
  <2> DEFINE locals == [c EXCEPT !.row.declared = rows[c.receipt].declared]
  <2>1. Continue(a, "d_plan", locals, "d_detect") /\ runs' = runs
    BY <1>2 DEF LoadPlan, db
  <2>2. locals.receipt = c.receipt /\ locals.row.baseline = c.row.baseline
    BY <1>t DEF Calls, Rows
  <2> HIDE DEF locals
  <2>3. pc[a] = "d_plan" /\ call'[a] = locals /\ pc'[a] = "d_detect"
    BY <2>1 DEF Continue, TypeOK
  <2> QED
    BY <1>0, <2>1, <2>2, <2>3, DoneCallFrame DEF DoneInv, Judging
<1>3. CASE Detect(a)
  <2>1. PICK supplied \in DoneFiles, noFileChanges \in BOOLEAN :
          LET current == Capture(head, tree)
              files == FilesChanged(c.row, current, supplied)
          IN  \/ End(a, "d_detect")
              \/ Continue(a, "d_detect",
                    [c EXCEPT !.files = files, !.head = head, !.tree = tree,
                              !.ok = /\ ~Mismatch(c.row, current, supplied)
                                     /\ files \subseteq InScope(c.receipt.opening, c.row.declared)],
                    "d_items")
    BY <1>3 DEF Detect
  <2> DEFINE files == FilesChanged(c.row, Capture(head, tree), supplied)
             ok == /\ ~Mismatch(c.row, Capture(head, tree), supplied)
                   /\ files \subseteq InScope(c.receipt.opening, c.row.declared)
             locals == [c EXCEPT !.files = files, !.head = head, !.tree = tree, !.ok = ok]
  <2>2. runs' = runs
    BY <1>3 DEF Detect, db
  <2>3. CASE End(a, "d_detect")
    BY <1>0, <2>2, <2>3, EndFacts, DoneFrame DEF Judging
  <2>4. CASE Continue(a, "d_detect", locals, "d_items")
    <3>1. pc[a] = "d_detect" /\ call'[a] = locals /\ pc'[a] = "d_items"
      BY <2>4 DEF Continue, TypeOK
    <3>2. c.row.baseline = c.receipt.baseline
      BY <3>1 DEF DoneInv, Judging
    <3>3. c.row.captured => files = Delta(c.receipt.baseline, Capture(head, tree))
      BY <3>2 DEF FilesChanged
    <3>4. ok => files \subseteq InScope(c.receipt.opening, c.row.declared)
      OBVIOUS
    <3> HIDE DEF files, ok
    <3>5. /\ locals.receipt = c.receipt /\ locals.row = c.row /\ locals.files = files
          /\ locals.ok = ok /\ locals.head = head /\ locals.tree = tree
      BY <1>t DEF Calls
    <3> HIDE DEF locals
    <3>6. Judged(locals, locals.ok)
      BY <3>3, <3>4, <3>5 DEF Judged
    <3> QED
      BY <1>0, <2>2, <3>1, <3>2, <3>5, <3>6, DoneCallFrame
  <2> QED
    BY <2>1, <2>3, <2>4
<1>4. CASE ListItems(a)
  <2> DEFINE locals == [c EXCEPT !.row.items = rows[c.receipt].items, !.row.writer = rows[c.receipt].writer]
  <2>1. Continue(a, "d_items", locals, "d_judge") /\ runs' = runs
    BY <1>4 DEF ListItems, db
  <2>2. /\ locals.receipt = c.receipt /\ locals.row.baseline = c.row.baseline
        /\ locals.row.captured = c.row.captured /\ locals.row.declared = c.row.declared
        /\ locals.files = c.files /\ locals.ok = c.ok /\ locals.head = c.head /\ locals.tree = c.tree
    BY <1>t DEF Calls, Rows
  <2> HIDE DEF locals
  <2>3. pc[a] = "d_items" /\ call'[a] = locals /\ pc'[a] = "d_judge"
    BY <2>1 DEF Continue, TypeOK
  <2>4. Judged(c, c.ok) /\ c.row.baseline = c.receipt.baseline
    BY <2>3 DEF DoneInv, Judging
  <2>5. Judged(locals, locals.ok)
    BY <2>2, <2>4 DEF Judged
  <2> QED
    BY <1>0, <2>1, <2>2, <2>3, <2>4, <2>5, DoneCallFrame
<1>5. CASE Judge(a)
  <2> DEFINE gates == \A k \in RequiredKeys(c.receipt.opening, c.files) : c.row.items[k] = "complete"
             run == [receipt |-> c.receipt, row |-> c.row, files |-> c.files,
                     status |-> IF c.ok /\ gates THEN "accepted" ELSE "accepted_with_warnings",
                     head |-> c.head, tree |-> c.tree]
  <2>1. End(a, "d_judge") /\ runs' \subseteq runs \cup {run}
    BY <1>5 DEF Judge
  <2>2. pc[a] = "d_judge" /\ pc'[a] = "idle"
    BY <2>1, EndFacts
  <2>3. Judged(c, c.ok)
    BY <2>2 DEF DoneInv
  <2>4. run.status = "accepted" => c.ok /\ gates
    OBVIOUS
  <2>5. Judged(run, run.status = "accepted")
    <3> HIDE DEF gates
    <3> QED
      BY <2>3, <2>4 DEF Judged
  <2>6. run.status = "accepted" => GatesMet(run)
    BY <2>4 DEF GatesMet
  <2> HIDE DEF run
  <2>7. \A e \in runs \cup {run} : (GatesMet(e)' <=> GatesMet(e)) /\ Judged(e, e.status = "accepted")
                                    /\ (e.status = "accepted" => GatesMet(e))
    BY <1>0, <2>5, <2>6 DEF GatesMet, RequiredKeys, DoneInv
  <2> QED
    BY <1>0, <2>1, <2>2, <2>7 DEF DoneInv, Judging, Judged
<1> QED
  BY <1>1, <1>2, <1>3, <1>4, <1>5

(* What the calls that do not judge do. *)
LEMMA OtherFrame ==
    ASSUME TypeInv, NEW a \in Agents,
           \/ Open(a) \/ Persist(a) \/ Declare(a) \/ SetItem(a) \/ StartVerify(a)
           \/ SelectByName(a) \/ SelectByDelta(a) \/ SaveBatch(a) \/ UpdateItem(a) \/ Crash(a)
    PROVE  /\ runs' = runs /\ project' = project /\ pc'[a] \notin Judging
           /\ \A b \in Agents \ {a} : call'[b] = call[b] /\ pc'[b] = pc[b]
<1> USE DEF TypeInv, Judging
<1>1. CASE Open(a)
  BY <1>1 DEF Open, Start, TypeOK, db
<1>2. CASE Persist(a) \/ Declare(a) \/ SetItem(a)
  BY <1>2 DEF Persist, Declare, SetItem, AtOnce, Start, End, Continue, TypeOK
<1>3. CASE StartVerify(a)
  BY <1>3 DEF StartVerify, Start, TypeOK, db
<1>4. CASE SelectByName(a) \/ SelectByDelta(a)
  BY <1>4 DEF SelectByName, SelectByDelta, End, Continue, TypeOK, db
<1>5. CASE SaveBatch(a) \/ UpdateItem(a)
  BY <1>5 DEF SaveBatch, UpdateItem, End, Continue, TypeOK
<1>6. CASE Crash(a)
  BY <1>6 DEF Crash, End, Continue, TypeOK, db
<1> QED
  BY <1>1, <1>2, <1>3, <1>4, <1>5, <1>6

LEMMA DoneStep == TypeInv /\ BaselineInv /\ DoneInv /\ [Next]_vars => DoneInv'
<1> SUFFICES ASSUME TypeInv, BaselineInv, DoneInv, [Next]_vars PROVE DoneInv'
  OBVIOUS
<1>1. CASE UNCHANGED vars
  BY <1>1 DEF vars, db, project, DoneInv, Judged, GatesMet, RequiredKeys
<1>2. CASE Commit \/ \E p \in Paths, c \in Contents \cup {Absent} : Edit(p, c)
  BY <1>2 DEF Commit, Edit, db, DoneInv, Judged, GatesMet, RequiredKeys
<1>3. ASSUME NEW a \in Agents,
             \/ Open(a) \/ Persist(a) \/ Declare(a) \/ SetItem(a) \/ StartVerify(a)
             \/ SelectByName(a) \/ SelectByDelta(a) \/ SaveBatch(a) \/ UpdateItem(a) \/ Crash(a)
      PROVE  DoneInv'
  BY <1>3, OtherFrame, DoneFrame
<1>4. ASSUME NEW a \in Agents, StartDone(a) \/ LoadPlan(a) \/ Detect(a) \/ ListItems(a) \/ Judge(a)
      PROVE  DoneInv'
  BY <1>4, DoneJudging
<1> QED
  BY <1>1, <1>2, <1>3, <1>4 DEF Next

THEOREM DoneHolds == Spec => [](TypeInv /\ BaselineInv /\ DoneInv)
<1>1. Init => TypeInv /\ BaselineInv /\ DoneInv
  BY InitTypes, BaselineInit, DoneInit
<1>2. TypeInv /\ BaselineInv /\ DoneInv /\ [Next]_vars => (TypeInv /\ BaselineInv /\ DoneInv)'
  BY StepTypes, BaselineStep, DoneStep
<1> QED
  BY <1>1, <1>2, PTL DEF Spec

(* What an accepted run of a receipt with a baseline has judged is what had really changed. *)
LEMMA RunFiles ==
    ASSUME TypeInv, BaselineInv, DoneInv, NEW run \in runs, NEW o \in opened,
           run.status = "accepted", run.row.captured, o.receipt = run.receipt, SameHead(o, run.head)
    PROVE  /\ run.files = Changed(o, run.tree)
           /\ run.files \subseteq InScope(run.receipt.opening, run.row.declared)
           /\ GatesMet(run)
<1>1. run \in Runs
  BY DEF TypeInv, TypeOK
<1>2. Delta(o.receipt.baseline, Capture(run.head, run.tree)) = Changed(o, run.tree)
  BY <1>1, DeltaOfReceipt DEF Runs
<1> QED
  BY <1>2 DEF DoneInv, Judged

(* A task that `done` accepts plainly has changed nothing outside its scope since its receipt was  *)
(* opened, unless something was committed meanwhile.                                               *)
THEOREM AcceptedScope == Spec => []AcceptedStaysInScope
<1>1. TypeInv /\ BaselineInv /\ DoneInv => AcceptedStaysInScope
  BY RunFiles DEF AcceptedStaysInScope
<1> QED
  BY <1>1, DoneHolds, PTL

(* A task that `done` accepts plainly had completed every gate that its real changes call for. *)
THEOREM AcceptedGates == Spec => []AcceptedMetGates
<1>1. TypeInv /\ BaselineInv /\ DoneInv => AcceptedMetGates
  <2> SUFFICES ASSUME TypeInv, BaselineInv, DoneInv, NEW run \in runs, NEW o \in opened,
                      run.status = "accepted", run.row.captured,
                      o.receipt = run.receipt, SameHead(o, run.head)
               PROVE  /\ workflow = {} /\ Changed(o, run.tree) # {} => run.row.items[VerifyTests] = "complete"
                      /\ \A d \in workflow : d.phases \cup d.tags = {} /\ d.paths \cap Changed(o, run.tree) # {}
                                             => run.row.items[d.key] = "complete"
    BY DEF AcceptedMetGates
  <2>1. run.files = Changed(o, run.tree) /\ GatesMet(run)
    BY RunFiles
  <2>2. ASSUME workflow = {}, Changed(o, run.tree) # {}
        PROVE  run.row.items[VerifyTests] = "complete"
    BY <2>1, <2>2 DEF GatesMet, RequiredKeys
  <2>3. ASSUME NEW d \in workflow, d.phases \cup d.tags = {}, d.paths \cap Changed(o, run.tree) # {}
        PROVE  run.row.items[d.key] = "complete"
    <3>1. d.phases = {} /\ d.tags = {}
      BY <2>3
    <3>2. Selects(d, PhaseOf[run.receipt.opening], run.receipt.opening, run.files)
      BY <2>1, <2>3, <3>1 DEF Selects
    <3>3. d.key \in RequiredKeys(run.receipt.opening, run.files)
      BY <2>3, <3>2 DEF RequiredKeys
    <3> QED
      BY <2>1, <3>3 DEF GatesMet
  <2> QED
    BY <2>2, <2>3
<1> QED
  BY <1>1, DoneHolds, PTL

-------------------------------------------------------------------------------
(* `verify`: a verdict in an item, or read from it, is that of a batch of the same receipt; and the *)
(* tests of a batch that was selected by the delta are those that the delta asks for.              *)

Backed(receipt, row) ==
    row.writer # 0 =>
        /\ row.writer \in DOMAIN batches
        /\ batches[row.writer].receipt = receipt
        /\ batches[row.writer].passed <=> row.items[VerifyTests] = "complete"

(* A call or a batch whose tests were selected by the delta of a baseline. *)
AsksFor(c) ==
    c.selected =>
        \A d \in tests : d.phases \cup d.tags = {}
                         /\ d.paths \cap Delta(c.receipt.baseline, Capture(c.head, c.tree)) # {}
                         => d \in c.tests

VerifyInv ==
    /\ \A r \in DOMAIN rows : Backed(r, rows[r])
    /\ \A run \in runs : Backed(run.receipt, run.row)
    /\ \A n \in DOMAIN batches : AsksFor(batches[n])
    /\ \A a \in Agents :
          /\ pc[a] = "d_judge" => Backed(call[a].receipt, call[a].row)
          /\ pc[a] = "v_select" =>
                /\ ~call[a].selected
                /\ call[a].receipt # NoId => call[a].row.baseline = call[a].receipt.baseline
          /\ pc[a] = "v_save" => AsksFor(call[a])
          /\ pc[a] = "v_item" =>
                /\ call[a].batch \in DOMAIN batches
                /\ batches[call[a].batch].receipt = call[a].receipt
                /\ batches[call[a].batch].passed <=> call[a].ok

LEMMA VerifyInit == Init => VerifyInv
BY DEF Init, VerifyInv

(* A step that stores no batch, and stores only verdicts that have one. *)
LEMMA VerifyFrame ==
    ASSUME TypeInv, VerifyInv, NEW a \in Agents, project' = project, batches' = batches,
           \A run \in runs' : Backed(run.receipt, run.row),
           \A r \in DOMAIN rows' : Backed(r, rows'[r]),
           \A b \in Agents \ {a} : call'[b] = call[b] /\ pc'[b] = pc[b],
           pc'[a] = "d_judge" => Backed(call'[a].receipt, call'[a].row),
           pc'[a] = "v_select" =>
                /\ ~call'[a].selected
                /\ call'[a].receipt # NoId => call'[a].row.baseline = call'[a].receipt.baseline,
           pc'[a] = "v_save" => AsksFor(call'[a]),
           pc'[a] # "v_item"
    PROVE  VerifyInv'
<1>1. tests' = tests
  BY DEF project
<1> QED
  BY <1>1 DEF VerifyInv, Backed, AsksFor

(* A row that is stored with the verdict it had. *)
LEMMA VerifyStored ==
    ASSUME TypeInv, VerifyInv, NEW a \in Agents, NEW from, End(a, from) \/ AtOnce(a),
           batches' = batches, runs' = runs,
           NEW r, NEW row, Store(r, row), Backed(r, row)
    PROVE  VerifyInv'
<1>1. /\ project' = project /\ pc'[a] = "idle"
      /\ \A b \in Agents \ {a} : call'[b] = call[b] /\ pc'[b] = pc[b]
  BY EndFacts, AtOnceFacts DEF TypeInv
<1>2. DOMAIN rows' = DOMAIN rows \cup {r} /\ rows'[r] = row /\ \A s \in DOMAIN rows \ {r} : rows'[s] = rows[s]
  BY StoreFacts
<1>3. \A s \in DOMAIN rows' : Backed(s, rows'[s])
  BY <1>2 DEF VerifyInv
<1>4. \A run \in runs' : Backed(run.receipt, run.row)
  BY DEF VerifyInv
<1> QED
  BY <1>1, <1>3, <1>4, VerifyFrame

LEMMA VerifyContext ==
    ASSUME TypeInv, VerifyInv, NEW a \in Agents, Open(a) \/ Persist(a) \/ Declare(a) \/ SetItem(a)
    PROVE  VerifyInv'
<1> USE DEF TypeInv
<1>1. CASE Open(a)
  <2>1. /\ rows' = rows /\ batches' = batches /\ runs' = runs /\ project' = project /\ pc'[a] = "persist"
        /\ \A b \in Agents \ {a} : call'[b] = call[b] /\ pc'[b] = pc[b]
    BY <1>1 DEF Open, Start, db, TypeOK
  <2>2. (\A r \in DOMAIN rows' : Backed(r, rows'[r])) /\ \A run \in runs' : Backed(run.receipt, run.row)
    BY <2>1 DEF VerifyInv
  <2> QED
    BY <2>1, <2>2, VerifyFrame
<1>2. CASE Persist(a)
  <2> DEFINE c == call[a]
             row == [RowOf(c.receipt) EXCEPT !.captured = c.row.captured, !.baseline = c.row.baseline]
  <2>1. End(a, "persist") /\ Store(c.receipt, row) /\ batches' = batches /\ runs' = runs
    BY <1>2 DEF Persist
  <2>2. row.writer = RowOf(c.receipt).writer /\ row.items = RowOf(c.receipt).items
    <3>1. RowOf(c.receipt) \in Rows
      BY EmptyTypes DEF RowOf, TypeOK
    <3> QED
      BY <3>1 DEF Rows
  <2>3. Backed(c.receipt, RowOf(c.receipt))
    BY DEF VerifyInv, RowOf, NoRow, Backed
  <2> HIDE DEF row
  <2>4. Backed(c.receipt, row)
    BY <2>2, <2>3 DEF Backed
  <2> QED
    BY <2>1, <2>4, VerifyStored
<1>3. CASE Declare(a)
  <2>1. PICK r \in DOMAIN rows, declared \in SUBSET ScopePaths :
          /\ AtOnce(a) /\ Store(r, [rows[r] EXCEPT !.declared = declared])
          /\ batches' = batches /\ runs' = runs
    BY <1>3 DEF Declare
  <2> DEFINE row == [rows[r] EXCEPT !.declared = declared]
  <2>2. row.writer = rows[r].writer /\ row.items = rows[r].items
    BY DEF TypeOK, Rows
  <2>3. Store(r, row)
    BY <2>1
  <2> HIDE DEF row
  <2>4. Backed(r, row)
    BY <2>2 DEF Backed, VerifyInv
  <2> QED
    BY <2>1, <2>3, <2>4, VerifyStored
<1>4. CASE SetItem(a)
  <2>1. PICK r \in DOMAIN rows, k \in ItemKeys, s \in HandStatuses :
          /\ AtOnce(a) /\ batches' = batches /\ runs' = runs
          /\ Store(r, [rows[r] EXCEPT !.items[k] = s, !.writer = IF k = VerifyTests THEN 0 ELSE @])
    BY <1>4 DEF SetItem
  <2> DEFINE row == [rows[r] EXCEPT !.items[k] = s, !.writer = IF k = VerifyTests THEN 0 ELSE @]
  <2>2. \/ row.writer = 0
        \/ row.writer = rows[r].writer /\ row.items[VerifyTests] = rows[r].items[VerifyTests]
    BY DEF TypeOK, Rows
  <2>3. Store(r, row)
    BY <2>1
  <2> HIDE DEF row
  <2>4. Backed(r, row)
    BY <2>2 DEF Backed, VerifyInv
  <2> QED
    BY <2>1, <2>3, <2>4, VerifyStored
<1> QED
  BY <1>1, <1>2, <1>3, <1>4

LEMMA VerifyDone ==
    ASSUME TypeInv, VerifyInv, NEW a \in Agents,
           StartDone(a) \/ LoadPlan(a) \/ Detect(a) \/ ListItems(a) \/ Judge(a) \/ Crash(a)
    PROVE  VerifyInv'
<1> USE DEF TypeInv
<1> DEFINE c == call[a]
<1>0. /\ rows' = rows /\ project' = project
      /\ \A b \in Agents \ {a} : call'[b] = call[b] /\ pc'[b] = pc[b]
      /\ \A r \in DOMAIN rows' : Backed(r, rows'[r])
  BY JudgingFrame DEF VerifyInv
<1>1. CASE StartDone(a) \/ LoadPlan(a) \/ Detect(a) \/ Crash(a)
  <2>1. batches' = batches /\ runs' = runs /\ pc'[a] \in {"idle", "d_plan", "d_detect", "d_items"}
    <3>1. CASE StartDone(a)
      BY <3>1 DEF StartDone, Start, TypeOK, db
    <3>2. CASE LoadPlan(a)
      BY <3>2 DEF LoadPlan, Continue, TypeOK, db
    <3>3. CASE Detect(a)
      BY <3>3 DEF Detect, End, Continue, TypeOK, db
    <3>4. CASE Crash(a)
      BY <3>4 DEF Crash, End, Continue, TypeOK, db
    <3> QED
      BY <1>1, <3>1, <3>2, <3>3, <3>4
  <2>2. \A run \in runs' : Backed(run.receipt, run.row)
    BY <2>1 DEF VerifyInv
  <2> QED
    BY <1>0, <2>1, <2>2, VerifyFrame
<1>2. CASE ListItems(a)
  <2> DEFINE locals == [c EXCEPT !.row.items = rows[c.receipt].items, !.row.writer = rows[c.receipt].writer]
  <2>1. Continue(a, "d_items", locals, "d_judge") /\ runs' = runs /\ batches' = batches
    BY <1>2 DEF ListItems, db
  <2>2. c.receipt \in DOMAIN rows
    BY <2>1 DEF Continue, CallsOpen, Judging
  <2>3. /\ locals.receipt = c.receipt /\ locals.row.items = rows[c.receipt].items
        /\ locals.row.writer = rows[c.receipt].writer
    BY ZenonT(60) DEF TypeOK, Calls, Rows
  <2> HIDE DEF locals
  <2>4. Backed(locals.receipt, locals.row)
    BY <2>2, <2>3 DEF Backed, VerifyInv
  <2>5. call'[a] = locals /\ pc'[a] = "d_judge"
    BY <2>1 DEF Continue, TypeOK
  <2>6. \A run \in runs' : Backed(run.receipt, run.row)
    BY <2>1 DEF VerifyInv
  <2> QED
    BY <1>0, <2>1, <2>4, <2>5, <2>6, VerifyFrame
<1>3. CASE Judge(a)
  <2> DEFINE gates == \A k \in RequiredKeys(c.receipt.opening, c.files) : c.row.items[k] = "complete"
             run == [receipt |-> c.receipt, row |-> c.row, files |-> c.files,
                     status |-> IF c.ok /\ gates THEN "accepted" ELSE "accepted_with_warnings",
                     head |-> c.head, tree |-> c.tree]
  <2>1. End(a, "d_judge") /\ runs' \subseteq runs \cup {run} /\ batches' = batches
    BY <1>3 DEF Judge
  <2>2. pc[a] = "d_judge" /\ pc'[a] = "idle"
    BY <2>1, EndFacts
  <2>3. Backed(run.receipt, run.row)
    BY <2>2 DEF VerifyInv
  <2> HIDE DEF run
  <2>4. \A e \in runs' : Backed(e.receipt, e.row)
    BY <2>1, <2>3 DEF VerifyInv
  <2> QED
    BY <1>0, <2>1, <2>2, <2>4, VerifyFrame
<1> QED
  BY <1>1, <1>2, <1>3

LEMMA VerifySelect ==
    ASSUME TypeInv, BaselineInv, VerifyInv, NEW a \in Agents,
           StartVerify(a) \/ SelectByName(a) \/ SelectByDelta(a)
    PROVE  VerifyInv'
<1> USE DEF TypeInv
<1> DEFINE c == call[a]
<1>0. /\ project' = project
      /\ \A b \in Agents \ {a} : call'[b] = call[b] /\ pc'[b] = pc[b]
      /\ \A r \in DOMAIN rows' : Backed(r, rows'[r])
  BY JudgingFrame DEF VerifyInv
<1>t. c \in Calls
  BY DEF TypeOK
<1>r. batches' = batches /\ \A run \in runs' : Backed(run.receipt, run.row)
  <2>1. batches' = batches /\ runs' = runs
    BY DEF StartVerify, SelectByName, SelectByDelta, db
  <2> QED
    BY <2>1 DEF VerifyInv
<1>1. CASE StartVerify(a)
  <2>1. PICK r \in DOMAIN rows \cup {NoId} : Start(a, WithScope(r), "v_select")
    BY <1>1 DEF StartVerify
  <2>2. call'[a] = WithScope(r) /\ pc'[a] = "v_select"
    BY <2>1 DEF Start, TypeOK
  <2>3. /\ ~WithScope(r).selected /\ WithScope(r).receipt = r
        /\ r # NoId => WithScope(r).row.baseline = r.baseline
    BY WithScopeFacts DEF BaselineInv
  <2> QED
    BY <1>0, <1>r, <2>2, <2>3, VerifyFrame
<1>2. CASE SelectByName(a)
  <2>1. PICK chosen \in SUBSET tests : Continue(a, "v_select", [c EXCEPT !.tests = chosen], "v_save")
    BY <1>2 DEF SelectByName
  <2>2. pc[a] = "v_select" /\ pc'[a] = "v_save" /\ call'[a] = [c EXCEPT !.tests = chosen]
    BY <2>1 DEF Continue, TypeOK
  <2>3. ~[c EXCEPT !.tests = chosen].selected
    BY <1>t, <2>2 DEF VerifyInv, Calls
  <2>4. AsksFor(call'[a])
    BY <2>2, <2>3 DEF AsksFor
  <2> QED
    BY <1>0, <1>r, <2>2, <2>4, VerifyFrame
<1>3. CASE SelectByDelta(a)
  <2>1. PICK supplied \in DoneFiles, phase \in Phases :
          LET files == FilesChanged(c.row, Capture(head, tree), supplied)
              chosen == SelectedTests(phase, c.receipt.opening, files)
          IN  IF chosen = {} THEN End(a, "v_select")
              ELSE Continue(a, "v_select", [c EXCEPT !.tests = chosen, !.selected = c.row.captured,
                                                     !.head = head, !.tree = tree], "v_save")
    BY <1>3 DEF SelectByDelta
  <2> DEFINE files == FilesChanged(c.row, Capture(head, tree), supplied)
             chosen == SelectedTests(phase, c.receipt.opening, files)
             locals == [c EXCEPT !.tests = chosen, !.selected = c.row.captured, !.head = head, !.tree = tree]
  <2>2. CASE End(a, "v_select")
    <3>1. pc'[a] = "idle"
      BY <2>2, EndFacts
    <3> QED
      BY <1>0, <1>r, <3>1, VerifyFrame
  <2>3. CASE Continue(a, "v_select", locals, "v_save")
    <3>1. pc[a] = "v_select" /\ pc'[a] = "v_save" /\ call'[a] = locals
      BY <2>3 DEF Continue, TypeOK
    <3>2. c.row.baseline = c.receipt.baseline
      BY <1>3, <3>1 DEF SelectByDelta, VerifyInv
    <3>3. c.row.captured => files = Delta(c.receipt.baseline, Capture(head, tree))
      BY <3>2 DEF FilesChanged
    <3>4. ASSUME NEW d \in tests, d.phases \cup d.tags = {}, d.paths \cap files # {}
          PROVE  d \in chosen
      <4>1. d.phases = {} /\ d.tags = {} /\ d.paths # {}
        BY <3>4
      <4>2. HasSelector(d) /\ Selects(d, phase, c.receipt.opening, files)
        BY <3>4, <4>1 DEF HasSelector, Selects
      <4> QED
        BY <4>2 DEF SelectedTests
    <3> HIDE DEF files, chosen
    <3>5. /\ locals.tests = chosen /\ locals.selected = c.row.captured /\ locals.receipt = c.receipt
          /\ locals.head = head /\ locals.tree = tree
      BY <1>t DEF Calls
    <3> HIDE DEF locals
    <3>6. AsksFor(locals)
      BY <3>3, <3>4, <3>5 DEF AsksFor
    <3> QED
      BY <1>0, <1>r, <3>1, <3>6, VerifyFrame
  <2> QED
    BY <2>1, <2>2, <2>3
<1> QED
  BY <1>1, <1>2, <1>3

LEMMA VerifySave ==
    ASSUME TypeInv, VerifyInv, NEW a \in Agents, SaveBatch(a)
    PROVE  VerifyInv'
<1> USE DEF TypeInv
<1> DEFINE c == call[a]
<1>1. PICK failed \in SUBSET c.tests :
        /\ batches' = Append(batches, [receipt |-> c.receipt, tests |-> c.tests, passed |-> failed = {},
                                       selected |-> c.selected, head |-> c.head, tree |-> c.tree])
        /\ IF c.receipt = NoId THEN End(a, "v_save")
           ELSE Continue(a, "v_save", [c EXCEPT !.batch = Len(batches) + 1, !.ok = failed = {}], "v_item")
        /\ UNCHANGED <<rows, runs, opened>>
  BY DEF SaveBatch
<1> DEFINE batch == [receipt |-> c.receipt, tests |-> c.tests, passed |-> failed = {},
                     selected |-> c.selected, head |-> c.head, tree |-> c.tree]
           locals == [c EXCEPT !.batch = Len(batches) + 1, !.ok = failed = {}]
           n == Len(batches) + 1
<1>2. pc[a] = "v_save" /\ tests' = tests /\ rows' = rows /\ runs' = runs
  BY <1>1, JudgingFrame DEF End, Continue, project
<1>3. /\ DOMAIN batches' = DOMAIN batches \cup {n} /\ n \notin DOMAIN batches
      /\ batches'[n] = batch /\ \A m \in DOMAIN batches : batches'[m] = batches[m]
  <2> HIDE DEF batch
  <2>1. batches' = Append(batches, batch) /\ batches \in Seq(Batches)
    BY <1>1 DEF batch, TypeOK
  <2> QED
    BY <2>1
<1>4. AsksFor(batch)
  BY <1>2 DEF VerifyInv, AsksFor
<1>5. \A e \in DOMAIN batches' : AsksFor(batches'[e])
  <2> HIDE DEF batch
  <2> QED
    BY <1>3, <1>4 DEF VerifyInv
<1>7. pc'[a] = "idle" \/ (pc'[a] = "v_item" /\ call'[a] = locals)
  BY <1>1 DEF End, Continue, TypeOK
<1>8. locals.batch = n /\ locals.receipt = c.receipt /\ locals.ok = (failed = {})
  BY DEF TypeOK, Calls
<1>9. batch.receipt = c.receipt /\ batch.passed = (failed = {})
  OBVIOUS
<1> HIDE DEF batch, locals, n
<1>10. pc'[a] = "v_item" =>
          /\ call'[a].batch \in DOMAIN batches'
          /\ batches'[call'[a].batch].receipt = call'[a].receipt
          /\ batches'[call'[a].batch].passed <=> call'[a].ok
  BY <1>3, <1>7, <1>8, <1>9
<1>11. \A b \in Agents \ {a} : call'[b] = call[b] /\ pc'[b] = pc[b]
  BY JudgingFrame
<1>12. (\A r \in DOMAIN rows : Backed(r, rows[r]))'
  BY <1>2, <1>3 DEF VerifyInv, Backed
<1>13. (\A run \in runs : Backed(run.receipt, run.row))'
  BY <1>2, <1>3 DEF VerifyInv, Backed
<1>14. (\A e \in DOMAIN batches : AsksFor(batches[e]))'
  BY <1>2, <1>5 DEF AsksFor
<1>15. ASSUME NEW b \in Agents \ {a}
       PROVE  (/\ pc[b] = "d_judge" => Backed(call[b].receipt, call[b].row)
               /\ pc[b] = "v_select" =>
                     /\ ~call[b].selected
                     /\ call[b].receipt # NoId => call[b].row.baseline = call[b].receipt.baseline
               /\ pc[b] = "v_save" => AsksFor(call[b])
               /\ pc[b] = "v_item" =>
                     /\ call[b].batch \in DOMAIN batches
                     /\ batches[call[b].batch].receipt = call[b].receipt
                     /\ batches[call[b].batch].passed <=> call[b].ok)'
  <2>1. pc'[b] = pc[b] /\ call'[b] = call[b]
    BY <1>11
  <2>2. (pc[b] = "d_judge" => Backed(call[b].receipt, call[b].row))'
    <3> SUFFICES ASSUME pc[b] = "d_judge", call'[b].row.writer # 0
                 PROVE  /\ call'[b].row.writer \in DOMAIN batches'
                        /\ batches'[call'[b].row.writer].receipt = call'[b].receipt
                        /\ batches'[call'[b].row.writer].passed <=> call'[b].row.items[VerifyTests] = "complete"
      BY <2>1 DEF Backed
    <3>1. Backed(call[b].receipt, call[b].row)
      BY DEF VerifyInv
    <3>2. call[b].row.writer \in DOMAIN batches
      BY <2>1, <3>1 DEF Backed
    <3> QED
      BY <1>3, <2>1, <3>1, <3>2 DEF Backed
  <2>3. (pc[b] = "v_save" => AsksFor(call[b]))'
    BY <1>2, <2>1 DEF VerifyInv, AsksFor
  <2>4. (pc[b] = "v_item" =>
           /\ call[b].batch \in DOMAIN batches
           /\ batches[call[b].batch].receipt = call[b].receipt
           /\ batches[call[b].batch].passed <=> call[b].ok)'
    BY <1>3, <2>1 DEF VerifyInv
  <2> QED
    BY <2>1, <2>2, <2>3, <2>4 DEF VerifyInv
<1> QED
  BY <1>7, <1>10, <1>12, <1>13, <1>14, <1>15 DEF VerifyInv

LEMMA VerifyUpdate ==
    ASSUME TypeInv, VerifyInv, NEW a \in Agents, UpdateItem(a)
    PROVE  VerifyInv'
<1> DEFINE c == call[a]
<1>1. PICK row \in Rows : /\ Store(c.receipt, row)
                          /\ row.items[VerifyTests] = IF c.ok THEN "complete" ELSE "blocked"
                          /\ row.writer = c.batch
  BY UpdateItemFacts
<1>2. End(a, "v_item") /\ batches' = batches /\ runs' = runs /\ pc[a] = "v_item"
  BY UpdateItemFacts
<1>3. c.batch \in DOMAIN batches /\ batches[c.batch].receipt = c.receipt /\ (batches[c.batch].passed <=> c.ok)
  BY <1>2 DEF VerifyInv
<1>4. Backed(c.receipt, row)
  BY <1>1, <1>3 DEF Backed
<1> QED
  BY <1>1, <1>2, <1>4, VerifyStored

LEMMA VerifyStep == TypeInv /\ BaselineInv /\ VerifyInv /\ [Next]_vars => VerifyInv'
<1> SUFFICES ASSUME TypeInv, BaselineInv, VerifyInv, [Next]_vars PROVE VerifyInv'
  OBVIOUS
<1>1. CASE UNCHANGED vars
  BY <1>1 DEF vars, db, project, VerifyInv, Backed, AsksFor
<1>2. CASE Commit \/ \E p \in Paths, c \in Contents \cup {Absent} : Edit(p, c)
  BY <1>2 DEF Commit, Edit, db, VerifyInv, Backed, AsksFor
<1>3. ASSUME NEW a \in Agents,
             \/ Open(a) \/ Persist(a) \/ Declare(a) \/ SetItem(a)
             \/ StartVerify(a) \/ SelectByName(a) \/ SelectByDelta(a) \/ SaveBatch(a) \/ UpdateItem(a)
             \/ StartDone(a) \/ LoadPlan(a) \/ Detect(a) \/ ListItems(a) \/ Judge(a) \/ Crash(a)
      PROVE  VerifyInv'
  BY <1>3, VerifyContext, VerifySelect, VerifySave, VerifyUpdate, VerifyDone
<1> QED
  BY <1>1, <1>2, <1>3 DEF Next

THEOREM VerifyHolds == Spec => [](TypeInv /\ BaselineInv /\ VerifyInv)
<1>1. Init => TypeInv /\ BaselineInv /\ VerifyInv
  BY InitTypes, BaselineInit, VerifyInit
<1>2. TypeInv /\ BaselineInv /\ VerifyInv /\ [Next]_vars => (TypeInv /\ BaselineInv /\ VerifyInv)'
  BY StepTypes, BaselineStep, VerifyStep
<1> QED
  BY <1>1, <1>2, PTL DEF Spec

(* Wherever verify:tests shows a verdict of `verify`, a batch of that receipt with that verdict is  *)
(* stored, whatever call fails or overlaps.                                                        *)
THEOREM VerdictBacked == Spec => []VerdictHasBatch
<1>1. VerifyInv => VerdictHasBatch
  BY DEF VerifyInv, VerdictHasBatch, Backed
<1> QED
  BY <1>1, VerifyHolds, PTL

(* A batch that was selected by the delta holds every test that asks for a file that has really     *)
(* changed, unless something was committed meanwhile.                                              *)
THEOREM ChangesSelect == Spec => []ChangesSelectTests
<1>1. TypeInv /\ BaselineInv /\ VerifyInv => ChangesSelectTests
  <2> SUFFICES ASSUME TypeInv, BaselineInv, VerifyInv, NEW n \in DOMAIN batches, NEW o \in opened,
                      batches[n].selected, batches[n].receipt = o.receipt, SameHead(o, batches[n].head),
                      NEW d \in tests, d.phases \cup d.tags = {},
                      d.paths \cap Changed(o, batches[n].tree) # {}
               PROVE  d \in batches[n].tests
    BY DEF ChangesSelectTests
  <2>1. batches[n].head \in Trees /\ batches[n].tree \in Trees
    <3>1. batches \in Seq(Batches)
      BY DEF TypeInv, TypeOK
    <3>2. batches[n] \in Batches
      BY <3>1
    <3> QED
      BY <3>2 DEF Batches
  <2>2. Delta(o.receipt.baseline, Capture(batches[n].head, batches[n].tree)) = Changed(o, batches[n].tree)
    BY <2>1, DeltaOfReceipt
  <2> QED
    BY <2>2 DEF VerifyInv, AsksFor
<1> QED
  BY <1>1, VerifyHolds, PTL

===============================================================================
