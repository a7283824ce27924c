-------------------------- MODULE PointerIndex_proofs --------------------------
(***************************************************************************)
(* Proofs about PointerIndex, for any number of processes, files, ruleset  *)
(* files, rules, calls and edits, and any lists of fixers.                 *)
(***************************************************************************)
EXTENDS PointerIndex, TLAPS

-------------------------------------------------------------------------------
(* The parts a call is made of.                                            *)

StepsOf(part) ==
    CASE part = "sync"   -> {"list", "hash", "apply"}
      [] part = "rules"  -> {"discover", "parse", "put"}
      [] part = "tree"   -> {"tree"}
      [] part = "cached" -> {"cached", "seed"}
      [] part = "index"  -> {"inventory", "stubs"}

FixParts == {"sync", "rules", "tree", "index"}

(* In the parts of a health fix, the files that were listed are indexed next. *)
IndexFollows(parts) == \A i \in 1..Len(parts) :
    parts[i] = "tree" => i < Len(parts) /\ parts[i + 1] = "index"

Program(kind, insert, parts) ==
    \/ kind = "sync" /\ parts = SyncParts(insert)
    \/ kind = "init" /\ parts = InitParts
    \/ kind = "health" /\ parts \in Seq(FixParts) /\ parts # << >> /\ IndexFollows(parts)

LEMMA FixerPartsFacts ==
    ASSUME NEW fixer \in Fixers
    PROVE  FixerParts(fixer) \in Seq(FixParts) /\ FixerParts(fixer) # << >> /\ IndexFollows(FixerParts(fixer))
<1>1. CASE fixer = "sync_working_tree"
  <2>1. FixerParts(fixer) = <<"sync", "rules", "index">>
    BY <1>1 DEF FixerParts, SyncParts
  <2> QED
    BY <2>1 DEF FixParts, IndexFollows
<1>2. CASE fixer = "index_unindexed_files"
  <2>1. FixerParts(fixer) = <<"tree", "index">>
    BY <1>2 DEF FixerParts
  <2> QED
    BY <2>1 DEF FixParts, IndexFollows
<1>3. CASE fixer = "sync_ruleset"
  <2>1. FixerParts(fixer) = <<"rules">>
    BY <1>3 DEF FixerParts
  <2> QED
    BY <2>1 DEF FixParts, IndexFollows
<1> QED
  BY <1>1, <1>2, <1>3 DEF Fixers

LEMMA IndexFollowsConcat ==
    ASSUME NEW p \in Seq(FixParts), NEW q \in Seq(FixParts), IndexFollows(p), IndexFollows(q)
    PROVE  p \o q \in Seq(FixParts) /\ IndexFollows(p \o q)
<1>1. p \o q \in Seq(FixParts) /\ Len(p \o q) = Len(p) + Len(q)
  OBVIOUS
<1>2. ASSUME NEW i \in 1..Len(p \o q), (p \o q)[i] = "tree"
      PROVE  i < Len(p \o q) /\ (p \o q)[i + 1] = "index"
  <2>1. CASE i <= Len(p)
    <3>1. p[i] = "tree"
      BY <1>2, <2>1
    <3>2. i < Len(p) /\ p[i + 1] = "index"
      BY <3>1, <2>1, <1>2 DEF IndexFollows
    <3> QED
      BY <3>2, <1>1, <1>2
  <2>2. CASE i > Len(p)
    <3>1. i - Len(p) \in 1..Len(q) /\ q[i - Len(p)] = "tree"
      BY <1>2, <2>2, <1>1
    <3>2. i - Len(p) < Len(q) /\ q[i - Len(p) + 1] = "index"
      BY <3>1 DEF IndexFollows
    <3>3. i + 1 \in Len(p) + 1 .. Len(p) + Len(q)
      BY <3>1, <3>2
    <3>4. (p \o q)[i + 1] = q[i + 1 - Len(p)]
      BY <3>3, <1>1
    <3>5. i + 1 - Len(p) = i - Len(p) + 1
      BY <1>2, <1>1
    <3> QED
      BY <3>2, <3>3, <3>4, <3>5, <1>1, <1>2
  <2> QED
    BY <2>1, <2>2, <1>2
<1> QED
  BY <1>1, <1>2 DEF IndexFollows

LEMMA HealthProgram ==
    ASSUME NEW fixers \in FixerLists
    PROVE  Program("health", TRUE, HealthParts(fixers))
<1> DEFINE Nth(n) == IF n <= Len(fixers) THEN FixerParts(fixers[n]) ELSE << >>
<1>1. PICK n \in 1..3 : fixers \in [1..n -> Fixers]
  BY IndexAssumption DEF IndexAssumption
<1>2. Len(fixers) = n
  BY <1>1
<1>3. \A m \in 1..3 : Nth(m) \in Seq(FixParts) /\ IndexFollows(Nth(m))
  <2> TAKE m \in 1..3
  <2>1. CASE m <= n
    BY <2>1, <1>1, <1>2, FixerPartsFacts
  <2>2. CASE ~(m <= n)
    BY <2>2, <1>2 DEF IndexFollows
  <2> QED
    BY <2>1, <2>2
<1>4. Nth(1) # << >> /\ Len(Nth(1)) > 0
  <2>1. Nth(1) = FixerParts(fixers[1]) /\ fixers[1] \in Fixers
    BY <1>1, <1>2
  <2> QED
    BY <2>1, FixerPartsFacts
<1> DEFINE Two == Nth(1) \o Nth(2)
           All == Two \o Nth(3)
<1>5. Two \in Seq(FixParts) /\ IndexFollows(Two) /\ Len(Two) > 0
  <2> HIDE DEF Nth
  <2>1. Nth(1) \in Seq(FixParts) /\ IndexFollows(Nth(1)) /\ Nth(2) \in Seq(FixParts) /\ IndexFollows(Nth(2))
    BY <1>3
  <2>2. Len(Nth(1) \o Nth(2)) = Len(Nth(1)) + Len(Nth(2)) /\ Len(Nth(2)) \in Nat /\ Len(Nth(1)) \in Nat
    BY <2>1
  <2> QED
    BY <2>1, <2>2, <1>4, IndexFollowsConcat
<1>6. All \in Seq(FixParts) /\ IndexFollows(All) /\ All # << >>
  <2>1. Nth(3) \in Seq(FixParts) /\ IndexFollows(Nth(3))
    BY <1>3
  <2> HIDE DEF Nth, Two
  <2>2. All \in Seq(FixParts) /\ IndexFollows(All)
    BY <2>1, <1>5, IndexFollowsConcat
  <2>3. Len(All) = Len(Two) + Len(Nth(3)) /\ Len(Nth(3)) \in Nat /\ Len(Two) \in Nat
    BY <2>1, <1>5
  <2> QED
    BY <2>2, <2>3, <1>5
<1>7. HealthParts(fixers) = All
  BY DEF HealthParts
<1> QED
  BY <1>6, <1>7 DEF Program

-------------------------------------------------------------------------------
(* Type correctness.                                                       *)

(* Where a call is in its program, by the step it has reached. *)
OnProgram(step, c) == step # "idle" =>
    /\ Program(c.kind, c.insert, c.parts)
    /\ c.at \in 1..Len(c.parts) + 1
    /\ IF c.at > Len(c.parts) THEN step = "done" ELSE step \in StepsOf(c.parts[c.at])
    /\ step \in {"parse", "put"} => c.sources \in SourceLists /\ c.nth \in 1..Len(c.sources)
    /\ step \in {"hash", "apply"} /\ c.mode # "working_tree" => c.kind = "sync"

TypeInv == TypeOK /\ \A a \in Agents : OnProgram(pc[a], call[a])

(* A call that somebody else has written under. *)
Quiet(c) == [c EXCEPT !.calm = FALSE, !.before = NoRows]

LEMMA BasicTypes ==
    /\ NoRow \in Rows /\ NoRows \in [Files -> Rows] /\ NoHash \in [Files -> Hashes \cup {Null}]
    /\ NoCall \in Calls /\ NoCall.nth = 0
<1>1. NoRow \in Rows
  BY DEF NoRow, Rows
<1>2. NoRows \in [Files -> Rows] /\ NoHash \in [Files -> Hashes \cup {Null}]
  BY <1>1 DEF NoRows, NoHash
<1>3. << >> \in Seq(Parts)
  OBVIOUS
<1>4. NoCall \in Calls
  BY <1>2, <1>3 DEF NoCall, Calls, Modes
<1> QED
  BY <1>1, <1>2, <1>4 DEF NoCall

(* Of a source list, the length and the members. *)
LEMMA SourceListFacts ==
    ASSUME NEW l \in SourceLists
    PROVE  /\ Len(l) \in 1..2 /\ \A n \in 1..Len(l) : l[n] \in Sources
           /\ l # << >>
BY DEF SourceLists, Sources

LEMMA ProgramFacts ==
    ASSUME NEW kind, NEW insert \in BOOLEAN, NEW parts, Program(kind, insert, parts)
    PROVE  /\ parts \in Seq(Parts) /\ Len(parts) > 0 /\ kind \in {"sync", "health", "init"}
           /\ kind = "sync" => /\ Len(parts) = IF insert THEN 3 ELSE 2
                               /\ parts[1] = "sync" /\ parts[2] = "rules"
                               /\ insert => parts[3] = "index"
           /\ kind = "init" => /\ Len(parts) = 3
                               /\ parts[1] = "cached" /\ parts[2] = "rules" /\ parts[3] = "index"
           /\ kind = "health" => IndexFollows(parts) /\ \A i \in 1..Len(parts) : parts[i] # "cached"
<1>1. CASE kind = "sync"
  <2>1. CASE insert
    <3>1. parts = <<"sync", "rules", "index">>
      BY <1>1, <2>1 DEF Program, SyncParts
    <3> QED
      BY <1>1, <2>1, <3>1 DEF Parts
  <2>2. CASE ~insert
    <3>1. parts = <<"sync", "rules">>
      BY <1>1, <2>2 DEF Program, SyncParts
    <3> QED
      BY <1>1, <2>2, <3>1 DEF Parts
  <2> QED
    BY <2>1, <2>2
<1>2. CASE kind = "init"
  BY <1>2, SMTT(30) DEF Program, InitParts, Parts
<1>3. CASE kind = "health"
  <2>1. parts \in Seq(FixParts) /\ parts # << >> /\ IndexFollows(parts)
    BY <1>3 DEF Program
  <2>2. FixParts \subseteq Parts /\ "cached" \notin FixParts
    BY DEF FixParts, Parts
  <2>3. parts \in Seq(Parts) /\ Len(parts) > 0
    BY <2>1, <2>2
  <2>4. \A i \in 1..Len(parts) : parts[i] # "cached"
    BY <2>1, <2>2
  <2> QED
    BY <1>3, <2>1, <2>3, <2>4
<1> QED
  BY <1>1, <1>2, <1>3 DEF Program

LEMMA StepsOfFacts ==
    ASSUME NEW part \in Parts
    PROVE  /\ FirstStep(part) \in StepsOf(part) /\ StepsOf(part) \subseteq Steps \ {"idle", "done"}
           /\ FirstStep(part) \in {"list", "discover", "tree", "cached", "inventory"}
BY DEF Parts, FirstStep, StepsOf, Steps

(* A call that has done all its parts. *)
LEMMA DoneIsLast ==
    ASSUME TypeInv, NEW a \in Agents, pc[a] = "done"
    PROVE  call[a].at = Len(call[a].parts) + 1 /\ \A i \in 1..Len(call[a].parts) : i < call[a].at
<1> DEFINE c == call[a]
<1>1. c \in Calls /\ OnProgram("done", c)
  BY DEF TypeInv, TypeOK
<1>2. /\ Program(c.kind, c.insert, c.parts) /\ c.insert \in BOOLEAN /\ c.at \in 1..Len(c.parts) + 1
      /\ (c.at <= Len(c.parts) => "done" \in StepsOf(c.parts[c.at]))
  BY <1>1 DEF OnProgram, Calls
<1>3. c.parts \in Seq(Parts)
  BY <1>2, ProgramFacts
<1>4. c.at \in 1..Len(c.parts) => c.parts[c.at] \in Parts
  BY <1>3
<1>5. c.at \notin 1..Len(c.parts)
  BY <1>2, <1>3, <1>4, StepsOfFacts
<1> HIDE DEF c
<1>6. Len(c.parts) \in Nat /\ c.at = Len(c.parts) + 1
  BY <1>2, <1>3, <1>5
<1> QED
  BY <1>6 DEF c

(* The frames: what a step does to the calls of the others. *)
LEMMA QuietFacts ==
    ASSUME NEW c \in Calls
    PROVE  /\ Quiet(c) \in Calls /\ ~Quiet(c).calm /\ Quiet(c).nth = c.nth /\ Quiet(c).sources = c.sources
           /\ Quiet(c).parsed = c.parsed
           /\ \A step : OnProgram(step, c) => OnProgram(step, Quiet(c))
<1>1. Quiet(c) \in Calls
  BY BasicTypes DEF Quiet, Calls
<1>2. /\ ~Quiet(c).calm /\ Quiet(c).nth = c.nth /\ Quiet(c).sources = c.sources /\ Quiet(c).parsed = c.parsed
      /\ Quiet(c).kind = c.kind /\ Quiet(c).insert = c.insert /\ Quiet(c).parts = c.parts
      /\ Quiet(c).at = c.at /\ Quiet(c).mode = c.mode
  BY DEF Quiet, Calls
<1> QED
  BY <1>1, <1>2 DEF OnProgram

LEMMA GoOnFacts ==
    ASSUME TypeOK, NEW a \in Agents, NEW step \in Steps, NEW locals \in Calls, GoOn(a, step, locals)
    PROVE  /\ pc' \in [Agents -> Steps] /\ call' \in [Agents -> Calls]
           /\ pc'[a] = step /\ call'[a] = locals
           /\ \A b \in Agents \ {a} : pc'[b] = pc[b] /\ call'[b] = call[b]
BY DEF GoOn, TypeOK

LEMMA CommittedFacts ==
    ASSUME TypeOK, NEW a \in Agents, NEW step \in Steps, NEW locals \in Calls, Committed(a, step, locals)
    PROVE  /\ pc' \in [Agents -> Steps] /\ call' \in [Agents -> Calls]
           /\ pc'[a] = step /\ call'[a] = locals
           /\ \A b \in Agents \ {a} : pc'[b] = pc[b] /\ call'[b] = Quiet(call[b])
<1>1. call' = [b \in Agents |-> IF b = a THEN locals ELSE Quiet(call[b])]
  BY DEF Committed, Disturbed, Quiet
<1>2. \A b \in Agents : Quiet(call[b]) \in Calls
  BY QuietFacts DEF TypeOK
<1>3. pc' \in [Agents -> Steps] /\ pc'[a] = step /\ \A b \in Agents \ {a} : pc'[b] = pc[b]
  BY DEF Committed, TypeOK
<1> QED
  BY <1>1, <1>2, <1>3

LEMMA DisturbedFacts ==
    ASSUME TypeOK, call' = Disturbed({})
    PROVE  call' \in [Agents -> Calls] /\ \A a \in Agents : call'[a] = Quiet(call[a])
<1>1. call' = [a \in Agents |-> Quiet(call[a])]
  BY DEF Disturbed, Quiet
<1> QED
  BY <1>1, QuietFacts DEF TypeOK

(* A step of one agent keeps the calls typed and on their programs if its own call is. *)
LEMMA OwnCall ==
    ASSUME TypeInv, NEW a \in Agents, NEW step \in Steps, NEW locals \in Calls,
           GoOn(a, step, locals) \/ Committed(a, step, locals),
           OnProgram(step, locals), locals.nth <= Len(locals.sources)
    PROVE  /\ pc' \in [Agents -> Steps] /\ call' \in [Agents -> Calls]
           /\ \A b \in Agents : call'[b].nth <= Len(call'[b].sources) /\ OnProgram(pc'[b], call'[b])
<1> USE DEF TypeInv
<1>1. \A b \in Agents : /\ call[b] \in Calls /\ call[b].nth <= Len(call[b].sources)
                        /\ OnProgram(pc[b], call[b])
  BY DEF TypeOK
<1>2. CASE GoOn(a, step, locals)
  BY <1>1, <1>2, GoOnFacts
<1>3. CASE Committed(a, step, locals)
  <2>1. \A b \in Agents : /\ OnProgram(pc[b], Quiet(call[b]))
                          /\ Quiet(call[b]).nth <= Len(Quiet(call[b]).sources)
    BY <1>1, QuietFacts
  <2> QED
    BY <2>1, <1>3, CommittedFacts
<1> QED
  BY <1>2, <1>3

(* The type of a call follows its fields. *)
LEMMA CallTypes ==
    ASSUME NEW c \in Calls
    PROVE  /\ \A at \in Nat, present \in SUBSET Files, deleted \in SUBSET Files :
                [c EXCEPT !.at = at, !.present = present, !.deleted = deleted] \in Calls
           /\ \A nth \in 0..2, found \in SUBSET Sources, parsed \in SUBSET Rules :
                [c EXCEPT !.nth = nth, !.found = found, !.parsed = parsed] \in Calls
           /\ \A hash \in [Files -> Hashes \cup {Null}], missing \in SUBSET Files :
                [c EXCEPT !.hash = hash, !.missing = missing] \in Calls
BY DEF Calls

(* The end of a part. *)
LEMMA EndPartFacts ==
    ASSUME NEW step \in Steps \ {"idle", "done"}, NEW c \in Calls, OnProgram(step, c)
    PROVE  /\ EndPart(c) \in Calls /\ AfterPart(c) \in Steps \ {"idle"}
           /\ OnProgram(AfterPart(c), EndPart(c))
           /\ EndPart(c).nth = 0 /\ EndPart(c).at = c.at + 1 /\ c.at \in 1..Len(c.parts)
           /\ EndPart(c).kind = c.kind /\ EndPart(c).insert = c.insert /\ EndPart(c).parts = c.parts
           /\ EndPart(c).mode = c.mode /\ EndPart(c).sources = c.sources /\ EndPart(c).live = c.live
           /\ EndPart(c).before = c.before /\ EndPart(c).calm = c.calm
           /\ AfterPart(c) \in {"list", "discover", "tree", "cached", "inventory", "done"}
           /\ AfterPart(c) = "done" => c.at = Len(c.parts)
<1>1. /\ EndPart(c).nth = 0 /\ EndPart(c).at = c.at + 1
      /\ EndPart(c).kind = c.kind /\ EndPart(c).insert = c.insert /\ EndPart(c).parts = c.parts
      /\ EndPart(c).mode = c.mode /\ EndPart(c).sources = c.sources /\ EndPart(c).live = c.live
      /\ EndPart(c).before = c.before /\ EndPart(c).calm = c.calm
  BY DEF EndPart, Calls
<1>2. EndPart(c) \in Calls
  <2>1. NoHash \in [Files -> Hashes \cup {Null}] /\ 0 \in 0..2
    BY BasicTypes
  <2>2. c.at + 1 \in Nat
    BY DEF Calls
  <2> DEFINE one == [c EXCEPT !.at = c.at + 1, !.present = {}, !.deleted = {}]
             two == [one EXCEPT !.nth = 0, !.found = {}, !.parsed = {}]
             three == [two EXCEPT !.hash = NoHash, !.missing = {}]
  <2>3. one \in Calls
    BY <2>2, CallTypes
  <2>4. two \in Calls
    <3> HIDE DEF one
    <3> QED
      BY <2>1, <2>3, CallTypes
  <2>5. three \in Calls
    <3> HIDE DEF two
    <3> QED
      BY <2>1, <2>4, CallTypes
  <2>6. EndPart(c) = three
    BY DEF EndPart, Calls
  <2> QED
    BY <2>5, <2>6
<1>3. Program(c.kind, c.insert, c.parts) /\ c.insert \in BOOLEAN /\ c.at \in Nat
  BY DEF OnProgram, Calls
<1>4. c.parts \in Seq(Parts) /\ Len(c.parts) \in Nat /\ c.at \in 1..Len(c.parts)
  BY <1>3, ProgramFacts DEF OnProgram
<1>5. CASE c.at < Len(c.parts)
  <2>1. c.parts[c.at + 1] \in Parts /\ c.at + 1 \in 1..Len(c.parts)
    BY <1>4, <1>5
  <2>2. AfterPart(c) = FirstStep(c.parts[c.at + 1])
    BY <1>5 DEF AfterPart
  <2>3. /\ AfterPart(c) \in StepsOf(c.parts[c.at + 1]) /\ AfterPart(c) \in Steps \ {"idle", "done"}
        /\ AfterPart(c) \in {"list", "discover", "tree", "cached", "inventory"}
    BY <2>1, <2>2, StepsOfFacts
  <2> QED
    BY <1>1, <1>2, <1>3, <1>4, <2>1, <2>3 DEF OnProgram
<1>6. CASE ~(c.at < Len(c.parts))
  <2>1. AfterPart(c) = "done" /\ c.at = Len(c.parts)
    BY <1>4, <1>6 DEF AfterPart
  <2> QED
    BY <1>1, <1>2, <1>3, <1>4, <2>1 DEF OnProgram, Steps
<1> QED
  BY <1>5, <1>6

LEMMA InitTypes == Init => TypeInv
<1> SUFFICES ASSUME Init PROVE TypeInv
  OBVIOUS
<1>1. parent \in Trees /\ head \in Trees /\ tree \in Trees /\ ruleFiles \in [Sources -> RuleFiles]
  BY IndexAssumption DEF Init, IndexAssumption
<1>2. \A s \in Sources : ruleFiles[s].rules \in SUBSET Rules
  BY <1>1 DEF RuleFiles, Missing, Broken, Ruleset
<1>3. seen \in [Sources -> SUBSET SUBSET Rules]
  <2>1. \A s \in Sources : {{}, ruleFiles[s].rules} \in SUBSET SUBSET Rules
    BY <1>2
  <2>2. seen = [s \in Sources |-> {{}, ruleFiles[s].rules}]
    BY DEF Init
  <2> HIDE DEF Init
  <2> QED
    BY <2>1, <2>2
<1>4. /\ rows \in [Files -> Rows] /\ rules \in [Sources -> [Rules -> {"none", "live", "stale"}]]
      /\ candidates \subseteq Files
  BY BasicTypes DEF Init
<1>5. calls \in 0..MaxCalls /\ edits \in 0..MaxEdits
  BY IndexAssumption DEF Init, IndexAssumption
<1>6. pc \in [Agents -> Steps] /\ call \in [Agents -> Calls]
  <2>1. NoCall \in Calls /\ "idle" \in Steps
    BY BasicTypes DEF Steps
  <2>2. pc = [a \in Agents |-> "idle"] /\ call = [a \in Agents |-> NoCall]
    BY DEF Init
  <2> QED
    BY <2>1, <2>2
<1>7. \A a \in Agents : call[a].nth <= Len(call[a].sources)
  <2>1. NoCall.nth <= Len(NoCall.sources)
    BY DEF NoCall
  <2>2. \A a \in Agents : call[a] = NoCall
    BY DEF Init
  <2> QED
    BY <2>1, <2>2
<1>8. \A a \in Agents : OnProgram(pc[a], call[a])
  BY DEF Init, OnProgram
<1> QED
  BY <1>1, <1>3, <1>4, <1>5, <1>6, <1>7, <1>8 DEF TypeInv, TypeOK

(* A step that only reads. *)
LEMMA ReadTypes ==
    ASSUME TypeInv, NEW a \in Agents, NEW step \in Steps, NEW locals \in Calls, GoOn(a, step, locals),
           OnProgram(step, locals), locals.nth <= Len(locals.sources),
           UNCHANGED <<commits, tree, ruleFiles, index, seen, calls, edits>>
    PROVE  TypeInv'
<1>1. /\ pc' \in [Agents -> Steps] /\ call' \in [Agents -> Calls]
      /\ \A b \in Agents : call'[b].nth <= Len(call'[b].sources) /\ OnProgram(pc'[b], call'[b])
  BY OwnCall
<1> QED
  BY <1>1 DEF TypeInv, TypeOK, commits, index

(* A step that writes the index or the ruleset files. *)
LEMMA WriteTypes ==
    ASSUME TypeInv, NEW a \in Agents, NEW step \in Steps, NEW locals \in Calls, Committed(a, step, locals),
           OnProgram(step, locals), locals.nth <= Len(locals.sources),
           UNCHANGED <<commits, tree, calls, edits>>,
           ruleFiles' \in [Sources -> RuleFiles], rows' \in [Files -> Rows],
           rules' \in [Sources -> [Rules -> {"none", "live", "stale"}]],
           candidates' \subseteq Files, seen' \in [Sources -> SUBSET SUBSET Rules]
    PROVE  TypeInv'
<1>1. /\ pc' \in [Agents -> Steps] /\ call' \in [Agents -> Calls]
      /\ \A b \in Agents : call'[b].nth <= Len(call'[b].sources) /\ OnProgram(pc'[b], call'[b])
  BY OwnCall
<1> QED
  BY <1>1 DEF TypeInv, TypeOK, commits

LEMMA RuleFileTypes ==
    ASSUME TypeOK, NEW s \in Sources, NEW file \in RuleFiles, WriteRuleFile(s, file)
    PROVE  ruleFiles' \in [Sources -> RuleFiles] /\ seen' \in [Sources -> SUBSET SUBSET Rules]
<1>1. file.rules \in SUBSET Rules
  BY DEF RuleFiles, Missing, Broken, Ruleset
<1> QED
  BY <1>1 DEF WriteRuleFile, TypeOK

LEMMA EditTypes == TypeInv /\ EditProject => TypeInv'
<1> SUFFICES ASSUME TypeInv, EditProject PROVE TypeInv'
  OBVIOUS
<1> USE DEF TypeInv
<1>1. /\ parent' \in Trees /\ head' \in Trees /\ tree' \in Trees
      /\ ruleFiles' \in [Sources -> RuleFiles] /\ seen' \in [Sources -> SUBSET SUBSET Rules]
      /\ UNCHANGED <<index, pc, calls>> /\ edits' \in 0..MaxEdits /\ call' = Disturbed({})
  <2>1. MayEdit => edits' \in 0..MaxEdits
    BY IndexAssumption DEF MayEdit, IndexAssumption, TypeOK
  <2>2. CASE \E f \in Files, content \in Contents \cup {Absent} : Edit(f, content)
    BY <2>1, <2>2 DEF Edit, commits, TypeOK, Trees
  <2>3. CASE \E changed \in SUBSET Files : Commit(changed)
    BY <2>1, <2>3 DEF Commit, TypeOK, Trees
  <2>4. CASE \E s \in Sources : \E file \in RuleVersions[s] : EditRules(s, file)
    <3>1. PICK s \in Sources, file \in RuleFiles : EditRules(s, file)
      BY <2>4, IndexAssumption DEF IndexAssumption
    <3> QED
      BY <2>1, <3>1, RuleFileTypes DEF EditRules, commits, TypeOK
  <2> QED
    BY <2>2, <2>3, <2>4 DEF EditProject
<1>2. \A a \in Agents : /\ call'[a] = Quiet(call[a]) /\ call[a] \in Calls
                        /\ call[a].nth <= Len(call[a].sources) /\ OnProgram(pc[a], call[a])
  BY <1>1, DisturbedFacts DEF TypeOK
<1>3. call' \in [Agents -> Calls]
  BY <1>1, DisturbedFacts
<1>4. \A a \in Agents : call'[a].nth <= Len(call'[a].sources) /\ OnProgram(pc'[a], call'[a])
  BY <1>1, <1>2, QuietFacts
<1> QED
  BY <1>1, <1>3, <1>4 DEF TypeOK, index

LEMMA StartTypes ==
    ASSUME TypeInv, NEW a \in Agents, NEW kind \in {"sync", "health", "init"}, NEW insert \in BOOLEAN, NEW parts,
           Program(kind, insert, parts), Start(a, kind, parts, insert)
    PROVE  TypeInv'
<1> DEFINE locals == [NoCall EXCEPT !.kind = kind, !.parts = parts, !.at = 1, !.insert = insert,
                                    !.before = rows, !.calm = TRUE]
           step == FirstStep(Head(parts))
<1>1. parts \in Seq(Parts) /\ Len(parts) \in Nat \ {0} /\ Head(parts) = parts[1] /\ parts[1] \in Parts
  BY ProgramFacts
<1>2. locals \in Calls
  <2>1. NoCall \in Calls /\ rows \in [Files -> Rows]
    BY BasicTypes DEF TypeInv, TypeOK
  <2> HIDE DEF NoCall
  <2> QED
    BY <1>1, <2>1 DEF Calls
<1>3. /\ locals.kind = kind /\ locals.parts = parts /\ locals.at = 1 /\ locals.insert = insert
      /\ locals.nth = 0 /\ locals.sources = << >>
  BY DEF NoCall
<1>4. step \in StepsOf(parts[1]) /\ step \in {"list", "discover", "tree", "cached", "inventory"} /\ step \in Steps
  BY <1>1, StepsOfFacts
<1>5. OnProgram(step, locals)
  BY <1>1, <1>3, <1>4 DEF OnProgram
<1>6. GoOn(a, step, locals) /\ UNCHANGED <<commits, tree, ruleFiles, index, seen, edits>>
  BY DEF Start, GoOn
<1>7. /\ pc' \in [Agents -> Steps] /\ call' \in [Agents -> Calls]
      /\ \A b \in Agents : call'[b].nth <= Len(call'[b].sources) /\ OnProgram(pc'[b], call'[b])
  <2> HIDE DEF locals, step
  <2>1. locals.nth <= Len(locals.sources)
    BY <1>3
  <2> QED
    BY <1>2, <1>4, <1>5, <1>6, <2>1, OwnCall
<1>8. calls' \in 0..MaxCalls
  BY IndexAssumption DEF Start, TypeInv, TypeOK, IndexAssumption
<1> QED
  BY <1>6, <1>7, <1>8 DEF TypeInv, TypeOK, commits, index

LEMMA StartCallTypes ==
    ASSUME TypeInv, NEW a \in Agents, StartCall(a)
    PROVE  TypeInv'
<1>1. CASE StartSync(a)
  BY <1>1, StartTypes DEF StartSync, Program
<1>2. CASE StartHealthFix(a)
  BY <1>2, StartTypes, HealthProgram DEF StartHealthFix
<1>3. CASE StartInit(a)
  BY <1>3, StartTypes DEF StartInit, Program
<1> QED
  BY <1>1, <1>2, <1>3 DEF StartCall

(* The steps, by the part of a call they belong to. *)
LEMMA PartOfStep ==
    ASSUME NEW step, NEW c \in Calls, OnProgram(step, c), step \notin {"idle", "done"}
    PROVE  /\ c.at \in 1..Len(c.parts) /\ c.parts[c.at] \in Parts
           /\ step \in {"list", "hash", "apply"} <=> c.parts[c.at] = "sync"
           /\ step \in {"discover", "parse", "put"} <=> c.parts[c.at] = "rules"
           /\ step = "tree" <=> c.parts[c.at] = "tree"
           /\ step \in {"cached", "seed"} <=> c.parts[c.at] = "cached"
           /\ step \in {"inventory", "stubs"} <=> c.parts[c.at] = "index"
<1>1. Program(c.kind, c.insert, c.parts) /\ c.insert \in BOOLEAN /\ c.at \in 1..Len(c.parts) + 1
  BY DEF OnProgram, Calls
<1>2. c.parts \in Seq(Parts) /\ Len(c.parts) \in Nat
  BY <1>1, ProgramFacts
<1>3. c.at \in 1..Len(c.parts) /\ step \in StepsOf(c.parts[c.at])
  BY <1>1, <1>2 DEF OnProgram
<1>4. c.parts[c.at] \in Parts
  BY <1>2, <1>3
<1> QED
  BY <1>3, <1>4 DEF Parts, StepsOf

(* Another step of the same part. *)
LEMMA SamePart ==
    ASSUME NEW step, NEW next, step \notin {"idle", "done"}, next \notin {"idle", "done"},
           NEW c \in Calls, NEW d \in Calls, OnProgram(step, c),
           d.kind = c.kind, d.insert = c.insert, d.parts = c.parts, d.at = c.at,
           next \in StepsOf(c.parts[c.at]),
           next \in {"parse", "put"} => d.sources \in SourceLists /\ d.nth \in 1..Len(d.sources),
           next \in {"hash", "apply"} /\ d.mode # "working_tree" => d.kind = "sync"
    PROVE  OnProgram(next, d)
BY PartOfStep DEF OnProgram

LEMMA ListedFacts ==
    ASSUME NEW c \in Calls, NEW mode \in Modes, NEW present \in SUBSET Files, NEW deleted \in SUBSET Files
    PROVE  LET d == Listed(c, mode, present, deleted)
           IN  /\ d \in Calls /\ d.mode = mode /\ d.present = present /\ d.deleted = deleted /\ d.live = present
               /\ d.kind = c.kind /\ d.insert = c.insert /\ d.parts = c.parts /\ d.at = c.at /\ d.nth = c.nth
               /\ d.sources = c.sources /\ d.before = c.before /\ d.calm = c.calm /\ d.hash = c.hash
BY DEF Listed, Calls

LEMMA HashedFacts ==
    ASSUME NEW c \in Calls, NEW hash \in [Files -> Hashes \cup {Null}]
    PROVE  LET d == [c EXCEPT !.hash = hash]
           IN  /\ d \in Calls /\ d.mode = c.mode /\ d.present = c.present /\ d.deleted = c.deleted /\ d.live = c.live
               /\ d.kind = c.kind /\ d.insert = c.insert /\ d.parts = c.parts /\ d.at = c.at /\ d.nth = c.nth
               /\ d.sources = c.sources /\ d.before = c.before /\ d.calm = c.calm /\ d.hash = hash
BY DEF Calls

(* The locals after the ruleset files have been looked for. *)
Discovered(c, sources, found) == [c EXCEPT !.sources = sources, !.nth = 1, !.found = found]

LEMMA DiscoveredFacts ==
    ASSUME NEW c \in Calls, NEW sources \in SourceLists, NEW found \in SUBSET Sources
    PROVE  LET d == Discovered(c, sources, found)
           IN  /\ d \in Calls /\ d.mode = c.mode /\ d.live = c.live /\ d.sources = sources /\ d.nth = 1
               /\ d.kind = c.kind /\ d.insert = c.insert /\ d.parts = c.parts /\ d.at = c.at
               /\ d.before = c.before /\ d.calm = c.calm /\ d.found = found
               /\ d.nth \in 1..Len(d.sources) /\ d.nth <= Len(d.sources)
<1> DEFINE d == Discovered(c, sources, found)
<1>1. d \in Calls
  <2>1. 1 \in 0..2
    OBVIOUS
  <2> QED
    BY <2>1 DEF Calls, Discovered
<1>2. /\ d.mode = c.mode /\ d.live = c.live /\ d.sources = sources /\ d.nth = 1
      /\ d.kind = c.kind /\ d.insert = c.insert /\ d.parts = c.parts /\ d.at = c.at
      /\ d.before = c.before /\ d.calm = c.calm /\ d.found = found
  BY DEF Calls, Discovered
<1>3. 1 \in 1..Len(sources) /\ 1 <= Len(sources)
  BY SourceListFacts
<1> QED
  BY <1>1, <1>2, <1>3

(* The next ruleset file of a list. *)
LEMMA NextSource ==
    ASSUME NEW l \in SourceLists, NEW n \in 1..Len(l), n < Len(l)
    PROVE  n + 1 \in 1..Len(l) /\ n + 1 \in 0..2 /\ n + 1 <= Len(l)
<1>1. Len(l) \in 1..2
  BY SourceListFacts
<1> QED
  BY <1>1

LEMMA RuleFileFacts ==
    ASSUME NEW file \in RuleFiles
    PROVE  file.rules \in SUBSET Rules /\ (file.state = "missing" => file.rules = {})
BY DEF RuleFiles, Missing, Broken, Ruleset

LEMMA ListFullTypes ==
    ASSUME TypeInv, NEW a \in Agents, ListFull(a)
    PROVE  TypeInv'
<1> DEFINE c == call[a]
           present == {f \in Files : head[f] # Absent}
           listed == Listed(c, "full", present, {})
           hash == [f \in Files |-> IF f \in present THEN Hash("git", head[f]) ELSE Null]
           d == [listed EXCEPT !.hash = hash]
<1>1. c \in Calls /\ OnProgram("list", c) /\ c.kind = "sync" /\ c.nth <= Len(c.sources)
  BY DEF ListFull, TypeInv, TypeOK
<1>2. hash \in [Files -> Hashes \cup {Null}]
  BY DEF TypeInv, TypeOK, Trees, Hash, Hashes
<1>3. GoOn(a, "apply", d) /\ UNCHANGED <<commits, tree, ruleFiles, index, seen, calls, edits>>
  BY DEF ListFull
<1>4. listed \in Calls /\ d \in Calls /\ d.kind = c.kind /\ d.insert = c.insert /\ d.parts = c.parts /\ d.at = c.at
      /\ d.nth = c.nth /\ d.sources = c.sources
  <2> HIDE DEF c, present, hash
  <2>1. present \in SUBSET Files /\ "full" \in Modes
    BY DEF present, Modes
  <2> QED
    BY <1>1, <1>2, <2>1, ListedFacts, HashedFacts
<1> HIDE DEF d, c
<1>5. "apply" \in StepsOf(c.parts[c.at])
  BY <1>1, PartOfStep DEF StepsOf
<1>6. OnProgram("apply", d)
  BY <1>1, <1>4, <1>5, SamePart
<1> QED
  BY <1>1, <1>3, <1>4, <1>6, ReadTypes DEF Steps

LEMMA ListDiffTypes ==
    ASSUME TypeInv, NEW a \in Agents, NEW mode \in Modes, NEW from, NEW to, ListDiff(a, mode, from, to),
           mode # "working_tree" => call[a].kind = "sync"
    PROVE  TypeInv'
<1> DEFINE c == call[a]
           d == Listed(c, mode, Present(from, to), Deleted(from, to))
<1>1. c \in Calls /\ OnProgram("list", c) /\ c.nth <= Len(c.sources)
  BY DEF ListDiff, TypeInv, TypeOK
<1>2. d \in Calls /\ d.kind = c.kind /\ d.insert = c.insert /\ d.parts = c.parts /\ d.at = c.at
      /\ d.nth = c.nth /\ d.sources = c.sources /\ d.mode = mode
  <2>1. Present(from, to) \in SUBSET Files /\ Deleted(from, to) \in SUBSET Files
    BY DEF Present, Deleted
  <2> HIDE DEF c
  <2> QED
    BY <1>1, <2>1, ListedFacts
<1>3. GoOn(a, "hash", d) /\ UNCHANGED <<commits, tree, ruleFiles, index, seen, calls, edits>>
  BY DEF ListDiff
<1>4. mode # "working_tree" => c.kind = "sync"
  OBVIOUS
<1> HIDE DEF d, c
<1>5. "hash" \in StepsOf(c.parts[c.at])
  BY <1>1, PartOfStep DEF StepsOf
<1>6. OnProgram("hash", d)
  BY <1>1, <1>2, <1>4, <1>5, SamePart
<1> QED
  BY <1>1, <1>2, <1>3, <1>6, ReadTypes DEF Steps

LEMMA HashFilesTypes ==
    ASSUME TypeInv, NEW a \in Agents, HashFiles(a)
    PROVE  TypeInv'
<1> DEFINE c == call[a]
           from == HashSource(c)
           kind == IF c.mode = "changed" THEN "git" ELSE "sha256"
           hash == [f \in Files |-> IF f \in c.present THEN Hash(kind, from[f]) ELSE Null]
           d == [c EXCEPT !.hash = hash]
<1>1. c \in Calls /\ OnProgram("hash", c) /\ c.nth <= Len(c.sources)
  BY DEF HashFiles, TypeInv, TypeOK
<1>2. hash \in [Files -> Hashes \cup {Null}]
  <2>1. from \in Trees
    BY DEF HashSource, TypeInv, TypeOK
  <2> QED
    BY <2>1 DEF Trees, Hash, Hashes
<1>3. GoOn(a, "apply", d) /\ UNCHANGED <<commits, tree, ruleFiles, index, seen, calls, edits>>
  BY DEF HashFiles
<1>4. d \in Calls /\ d.kind = c.kind /\ d.insert = c.insert /\ d.parts = c.parts /\ d.at = c.at
      /\ d.nth = c.nth /\ d.sources = c.sources /\ d.mode = c.mode
  <2> HIDE DEF c, hash
  <2> QED
    BY <1>1, <1>2, HashedFacts
<1> HIDE DEF d, c
<1>5. "apply" \in StepsOf(c.parts[c.at])
  BY <1>1, PartOfStep DEF StepsOf
<1>6. c.mode # "working_tree" => c.kind = "sync"
  BY <1>1 DEF OnProgram
<1>7. OnProgram("apply", d)
  BY <1>1, <1>4, <1>5, <1>6, SamePart
<1> QED
  BY <1>1, <1>3, <1>4, <1>7, ReadTypes DEF Steps

(* A step that ends its part. *)
LEMMA EndTypes ==
    ASSUME TypeInv, NEW a \in Agents, pc[a] \notin {"idle", "done"}
    PROVE  /\ EndPart(call[a]) \in Calls /\ AfterPart(call[a]) \in Steps
           /\ OnProgram(AfterPart(call[a]), EndPart(call[a]))
           /\ EndPart(call[a]).nth <= Len(EndPart(call[a]).sources)
<1>1. call[a] \in Calls /\ OnProgram(pc[a], call[a]) /\ pc[a] \in Steps \ {"idle", "done"}
  BY DEF TypeInv, TypeOK
<1>2. Len(call[a].sources) \in Nat
  BY <1>1, SourceListFacts DEF Calls
<1> QED
  BY <1>1, <1>2, EndPartFacts

LEMMA ApplyTypes ==
    ASSUME TypeInv, NEW a \in Agents, Apply(a)
    PROVE  TypeInv'
<1> DEFINE c == call[a]
<1>1. c \in Calls /\ pc[a] = "apply"
  BY DEF Apply, TypeInv, TypeOK
<1>2. \A f \in Files : SyncedRow(c, f) \in Rows
  BY <1>1 DEF SyncedRow, MarkStale, Rows, Calls, TypeInv, TypeOK
<1>3. rows' \in [Files -> Rows]
  BY <1>2 DEF Apply
<1>4. rules' \in [Sources -> [Rules -> {"none", "live", "stale"}]]
  BY DEF Apply, TypeInv, TypeOK
<1>5. candidates' \subseteq Files
  <2>1. c.present \subseteq Files
    BY <1>1 DEF Calls
  <2> QED
    BY <2>1 DEF Apply, TypeInv, TypeOK
<1>6. /\ Committed(a, AfterPart(c), EndPart(c))
      /\ UNCHANGED <<commits, tree, calls, edits>>
      /\ ruleFiles' \in [Sources -> RuleFiles] /\ seen' \in [Sources -> SUBSET SUBSET Rules]
  BY DEF Apply, TypeInv, TypeOK
<1> QED
  BY <1>1, <1>3, <1>4, <1>5, <1>6, EndTypes, WriteTypes

LEMMA DiscoverTypes ==
    ASSUME TypeInv, NEW a \in Agents, Discover(a)
    PROVE  TypeInv'
<1>1. PICK sources \in SourcesOf(call[a]) :
        GoOn(a, "parse", [call[a] EXCEPT !.sources = sources, !.nth = 1,
                            !.found = {s \in Sources : ruleFiles[s].state # "missing"}])
  BY DEF Discover
<1> DEFINE c == call[a]
           found == {s \in Sources : ruleFiles[s].state # "missing"}
           d == Discovered(c, sources, found)
<1>2. c \in Calls /\ OnProgram("discover", c)
  BY DEF Discover, TypeInv, TypeOK
<1>3. sources \in SourceLists
  BY <1>2 DEF SourcesOf, Calls
<1>4. GoOn(a, "parse", d) /\ UNCHANGED <<commits, tree, ruleFiles, index, seen, calls, edits>>
  BY <1>1 DEF Discover, Discovered
<1>5. d \in Calls /\ d.kind = c.kind /\ d.insert = c.insert /\ d.parts = c.parts /\ d.at = c.at
      /\ d.sources = sources /\ d.nth \in 1..Len(d.sources) /\ d.nth <= Len(d.sources)
  <2>1. found \in SUBSET Sources
    OBVIOUS
  <2> HIDE DEF c, found
  <2> QED
    BY <1>2, <1>3, <2>1, DiscoveredFacts
<1> HIDE DEF d, c
<1>6. "parse" \in StepsOf(c.parts[c.at])
  BY <1>2, PartOfStep DEF StepsOf
<1>7. OnProgram("parse", d)
  BY <1>2, <1>3, <1>5, <1>6, SamePart
<1> QED
  BY <1>4, <1>5, <1>7, ReadTypes DEF Steps

LEMMA ParseTypes ==
    ASSUME TypeInv, NEW a \in Agents, Parse(a)
    PROVE  TypeInv'
<1> DEFINE c == call[a]
           s == Source(c)
           parsed == IF s \in c.found THEN ruleFiles[s].rules ELSE {}
           d == [c EXCEPT !.parsed = parsed]
<1>1. c \in Calls /\ OnProgram("parse", c) /\ c.nth <= Len(c.sources)
  BY DEF Parse, TypeInv, TypeOK
<1>2. GoOn(a, "put", d) /\ UNCHANGED <<commits, tree, ruleFiles, index, seen, calls, edits>>
  BY DEF Parse
<1>3. parsed \in SUBSET Rules
  <2>1. s \in c.found => ruleFiles[s] \in RuleFiles
    BY <1>1 DEF Calls, TypeInv, TypeOK
  <2>2. ruleFiles[s] \in RuleFiles => ruleFiles[s].rules \in SUBSET Rules
    BY RuleFileFacts
  <2>3. CASE s \in c.found
    BY <2>1, <2>2, <2>3
  <2>4. CASE s \notin c.found
    BY <2>4
  <2> QED
    BY <2>3, <2>4
<1>4. d \in Calls /\ d.kind = c.kind /\ d.insert = c.insert /\ d.parts = c.parts /\ d.at = c.at
      /\ d.nth = c.nth /\ d.sources = c.sources
  <2> HIDE DEF c, parsed
  <2> QED
    BY <1>1, <1>3 DEF Calls
<1> HIDE DEF d, c
<1>5. "put" \in StepsOf(c.parts[c.at])
  BY <1>1, PartOfStep DEF StepsOf
<1>6. c.sources \in SourceLists /\ c.nth \in 1..Len(c.sources)
  BY <1>1 DEF OnProgram
<1>7. OnProgram("put", d)
  BY <1>1, <1>4, <1>5, <1>6, SamePart
<1> QED
  BY <1>1, <1>2, <1>4, <1>7, ReadTypes DEF Steps

LEMMA PutTypes ==
    ASSUME TypeInv, NEW a \in Agents, Put(a)
    PROVE  TypeInv'
<1> DEFINE c == call[a]
<1>1. c \in Calls /\ OnProgram("put", c) /\ c.nth <= Len(c.sources) /\ pc[a] = "put"
  BY DEF Put, TypeInv, TypeOK
<1>2. rules' \in [Sources -> [Rules -> {"none", "live", "stale"}]]
  BY DEF Put, PutRules, Upserted, TypeInv, TypeOK
<1>3. /\ UNCHANGED <<commits, tree, calls, edits>>
      /\ ruleFiles' \in [Sources -> RuleFiles] /\ seen' \in [Sources -> SUBSET SUBSET Rules]
      /\ rows' \in [Files -> Rows] /\ candidates' \subseteq Files
  BY DEF Put, TypeInv, TypeOK
<1>4. CASE MoreSources(c)
  <2> DEFINE d == [c EXCEPT !.nth = c.nth + 1]
  <2>1. Committed(a, "parse", d)
    BY <1>4 DEF Put
  <2>2. c.sources \in SourceLists /\ c.nth \in 1..Len(c.sources)
    BY <1>1 DEF OnProgram
  <2>3. c.nth + 1 \in 1..Len(c.sources) /\ c.nth + 1 \in 0..2 /\ c.nth + 1 <= Len(c.sources)
    BY <1>4, <2>2, NextSource DEF MoreSources
  <2>4. d \in Calls /\ d.kind = c.kind /\ d.insert = c.insert /\ d.parts = c.parts /\ d.at = c.at
        /\ d.nth = c.nth + 1 /\ d.sources = c.sources
    <3> HIDE DEF c
    <3> QED
      BY <1>1, <2>3 DEF Calls
  <2> HIDE DEF d, c
  <2>5. "parse" \in StepsOf(c.parts[c.at])
    BY <1>1, PartOfStep DEF StepsOf
  <2>6. OnProgram("parse", d)
    BY <1>1, <2>2, <2>3, <2>4, <2>5, SamePart
  <2>7. d.nth <= Len(d.sources)
    BY <2>3, <2>4
  <2> QED
    BY <1>2, <1>3, <2>1, <2>4, <2>6, <2>7, WriteTypes DEF Steps
<1>5. CASE ~MoreSources(c)
  <2>1. Committed(a, AfterPart(c), EndPart(c))
    BY <1>5 DEF Put
  <2> QED
    BY <1>1, <1>2, <1>3, <2>1, EndTypes, WriteTypes
<1> QED
  BY <1>4, <1>5

(* The locals after files have been listed, after those without a row have been, and after the seed. *)
WithLive(c, live) == [c EXCEPT !.live = live]
WithMissing(c, missing) == [c EXCEPT !.missing = missing]
WithSources(c, sources) == [c EXCEPT !.sources = sources]

LEMMA WithLiveFacts ==
    ASSUME NEW c \in Calls, NEW live \in SUBSET Files
    PROVE  LET d == WithLive(c, live)
           IN  /\ d \in Calls /\ d.mode = c.mode /\ d.live = live /\ d.sources = c.sources /\ d.nth = c.nth
               /\ d.kind = c.kind /\ d.insert = c.insert /\ d.parts = c.parts /\ d.at = c.at
               /\ d.before = c.before /\ d.calm = c.calm
BY DEF WithLive, Calls

LEMMA WithMissingFacts ==
    ASSUME NEW c \in Calls, NEW missing \in SUBSET Files
    PROVE  LET d == WithMissing(c, missing)
           IN  /\ d \in Calls /\ d.mode = c.mode /\ d.live = c.live /\ d.sources = c.sources /\ d.nth = c.nth
               /\ d.kind = c.kind /\ d.insert = c.insert /\ d.parts = c.parts /\ d.at = c.at
               /\ d.before = c.before /\ d.calm = c.calm /\ d.missing = missing
BY DEF WithMissing, Calls

LEMMA WithSourcesFacts ==
    ASSUME NEW c \in Calls, NEW sources \in SourceLists
    PROVE  LET d == WithSources(c, sources)
           IN  /\ d \in Calls /\ d.mode = c.mode /\ d.live = c.live /\ d.sources = sources /\ d.nth = c.nth
               /\ d.kind = c.kind /\ d.insert = c.insert /\ d.parts = c.parts /\ d.at = c.at
               /\ d.before = c.before /\ d.calm = c.calm
BY DEF WithSources, Calls

LEMMA ListTreeTypes ==
    ASSUME TypeInv, NEW a \in Agents, ListTree(a)
    PROVE  TypeInv'
<1> DEFINE c == call[a]
           e == EndPart(c)
           d == WithLive(e, InventoryPaths(c))
<1>1. /\ GoOn(a, AfterPart(c), d) /\ pc[a] = "tree"
      /\ UNCHANGED <<commits, tree, ruleFiles, index, seen, calls, edits>>
  BY DEF ListTree, WithLive
<1>2. e \in Calls /\ AfterPart(c) \in Steps /\ OnProgram(AfterPart(c), e) /\ e.nth <= Len(e.sources)
  BY <1>1, EndTypes
<1>3. InventoryPaths(c) \in SUBSET Files
  BY DEF InventoryPaths
<1> HIDE DEF e
<1>4. d \in Calls /\ d.mode = e.mode /\ d.sources = e.sources /\ d.nth = e.nth
      /\ d.kind = e.kind /\ d.insert = e.insert /\ d.parts = e.parts /\ d.at = e.at
  BY <1>2, <1>3, WithLiveFacts
<1> HIDE DEF d
<1>5. OnProgram(AfterPart(c), d) /\ d.nth <= Len(d.sources)
  BY <1>2, <1>4 DEF OnProgram
<1> QED
  BY <1>1, <1>2, <1>4, <1>5, ReadTypes

LEMMA ListCachedTypes ==
    ASSUME TypeInv, NEW a \in Agents, ListCached(a)
    PROVE  TypeInv'
<1> DEFINE c == call[a]
           d == WithLive(c, InventoryPaths(c))
<1>1. GoOn(a, "seed", d) /\ UNCHANGED <<commits, tree, ruleFiles, index, seen, calls, edits>>
  BY DEF ListCached, WithLive
<1>2. c \in Calls /\ OnProgram("cached", c) /\ c.nth <= Len(c.sources)
  BY DEF ListCached, TypeInv, TypeOK
<1>3. InventoryPaths(c) \in SUBSET Files
  BY DEF InventoryPaths
<1> HIDE DEF c
<1>4. d \in Calls /\ d.mode = c.mode /\ d.sources = c.sources /\ d.nth = c.nth
      /\ d.kind = c.kind /\ d.insert = c.insert /\ d.parts = c.parts /\ d.at = c.at
  BY <1>2, <1>3, WithLiveFacts
<1> HIDE DEF d
<1>5. "seed" \in StepsOf(c.parts[c.at])
  BY <1>2, PartOfStep DEF StepsOf
<1>6. OnProgram("seed", d)
  BY <1>2, <1>4, <1>5, SamePart
<1> QED
  BY <1>1, <1>2, <1>4, <1>6, ReadTypes DEF Steps

LEMMA SeedTypes ==
    ASSUME TypeInv, NEW a \in Agents, Seed(a)
    PROVE  TypeInv'
<1> DEFINE c == call[a]
           e == EndPart(c)
<1>1. PICK sources \in SourceLists :
        /\ IF Len(sources) = 2 /\ \A s \in {Primary, Secondary} : ruleFiles[s].state = "missing"
           THEN WriteRuleFile(Primary, Ruleset({}))
           ELSE UNCHANGED <<ruleFiles, seen>>
        /\ Committed(a, AfterPart(c), WithSources(e, sources))
  BY DEF Seed, WithSources
<1> DEFINE d == WithSources(e, sources)
<1>2. e \in Calls /\ AfterPart(c) \in Steps /\ OnProgram(AfterPart(c), e)
  BY EndTypes DEF Seed
<1>3. e.nth = 0 /\ AfterPart(c) \in {"list", "discover", "tree", "cached", "inventory", "done"}
  <2>1. pc[a] \in Steps \ {"idle", "done"} /\ c \in Calls /\ OnProgram(pc[a], c)
    BY DEF Seed, TypeInv, TypeOK
  <2> QED
    BY <2>1, EndPartFacts
<1>4. ruleFiles' \in [Sources -> RuleFiles] /\ seen' \in [Sources -> SUBSET SUBSET Rules]
  <2>1. Primary \in Sources /\ Ruleset({}) \in RuleFiles
    BY DEF Sources, RuleFiles
  <2> QED
    BY <1>1, <2>1, RuleFileTypes DEF TypeInv, TypeOK
<1>5. /\ UNCHANGED <<commits, tree, calls, edits>> /\ rows' \in [Files -> Rows]
      /\ rules' \in [Sources -> [Rules -> {"none", "live", "stale"}]] /\ candidates' \subseteq Files
  BY DEF Seed, index, TypeInv, TypeOK
<1> HIDE DEF e
<1>6. d \in Calls /\ d.mode = e.mode /\ d.sources = sources /\ d.nth = e.nth
      /\ d.kind = e.kind /\ d.insert = e.insert /\ d.parts = e.parts /\ d.at = e.at
  BY <1>2, WithSourcesFacts
<1> HIDE DEF d
<1>7. OnProgram(AfterPart(c), d)
  BY <1>2, <1>3, <1>6 DEF OnProgram
<1>8. d.nth <= Len(d.sources)
  <2>1. 0 <= Len(sources)
    BY SourceListFacts
  <2> QED
    BY <1>3, <1>6, <2>1
<1>9. Committed(a, AfterPart(c), d)
  BY <1>1 DEF d
<1> QED
  BY <1>2, <1>4, <1>5, <1>6, <1>7, <1>8, <1>9, WriteTypes

LEMMA InventoryTypes ==
    ASSUME TypeInv, NEW a \in Agents, Inventory(a)
    PROVE  TypeInv'
<1> DEFINE c == call[a]
           missing == {f \in c.live : rows[f].state = "none"}
           d == WithMissing(c, missing)
<1>1. GoOn(a, "stubs", d) /\ UNCHANGED <<commits, tree, ruleFiles, index, seen, calls, edits>>
  BY DEF Inventory, WithMissing
<1>2. c \in Calls /\ OnProgram("inventory", c) /\ c.nth <= Len(c.sources)
  BY DEF Inventory, TypeInv, TypeOK
<1>3. missing \in SUBSET Files
  BY <1>2 DEF Calls
<1> HIDE DEF c, missing
<1>4. d \in Calls /\ d.mode = c.mode /\ d.sources = c.sources /\ d.nth = c.nth
      /\ d.kind = c.kind /\ d.insert = c.insert /\ d.parts = c.parts /\ d.at = c.at
  BY <1>2, <1>3, WithMissingFacts
<1> HIDE DEF d
<1>5. "stubs" \in StepsOf(c.parts[c.at])
  BY <1>2, PartOfStep DEF StepsOf
<1>6. OnProgram("stubs", d)
  BY <1>2, <1>4, <1>5, SamePart
<1> QED
  BY <1>1, <1>2, <1>4, <1>6, ReadTypes DEF Steps

LEMMA StubsTypes ==
    ASSUME TypeInv, NEW a \in Agents, Stubs(a)
    PROVE  TypeInv'
<1> DEFINE c == call[a]
<1>1. pc[a] = "stubs" /\ Committed(a, AfterPart(c), EndPart(c))
  BY DEF Stubs
<1>2. rows' \in [Files -> Rows]
  BY DEF Stubs, Rows, TypeInv, TypeOK
<1>3. /\ UNCHANGED <<commits, tree, calls, edits>>
      /\ ruleFiles' \in [Sources -> RuleFiles] /\ seen' \in [Sources -> SUBSET SUBSET Rules]
      /\ rules' \in [Sources -> [Rules -> {"none", "live", "stale"}]] /\ candidates' \subseteq Files
  BY DEF Stubs, TypeInv, TypeOK
<1> QED
  BY <1>1, <1>2, <1>3, EndTypes, WriteTypes

LEMMA ReturnTypes ==
    ASSUME TypeInv, NEW a \in Agents, Return(a)
    PROVE  TypeInv'
<1>1. NoCall \in Calls /\ "idle" \in Steps /\ NoCall.nth <= Len(NoCall.sources)
  BY BasicTypes DEF Steps, NoCall
<1>2. OnProgram("idle", NoCall)
  BY DEF OnProgram
<1> QED
  BY <1>1, <1>2, ReadTypes DEF Return

LEMMA StepTypes ==
    ASSUME TypeInv, NEW a \in Agents, Step(a)
    PROVE  TypeInv'
<1>1. CASE ListFull(a) \/ ListChanged(a) \/ ListWorkingTree(a)
  BY <1>1, ListFullTypes, ListDiffTypes DEF ListChanged, ListWorkingTree, Modes
<1>2. CASE HashFiles(a) \/ Apply(a)
  BY <1>2, HashFilesTypes, ApplyTypes
<1>3. CASE Discover(a) \/ Parse(a) \/ Put(a)
  BY <1>3, DiscoverTypes, ParseTypes, PutTypes
<1>4. CASE ListTree(a) \/ ListCached(a) \/ Seed(a)
  BY <1>4, ListTreeTypes, ListCachedTypes, SeedTypes
<1>5. CASE Inventory(a) \/ Stubs(a)
  BY <1>5, InventoryTypes, StubsTypes
<1> QED
  BY <1>1, <1>2, <1>3, <1>4, <1>5 DEF Step

LEMMA NextTypes == TypeInv /\ [Next]_vars => TypeInv'
<1> SUFFICES ASSUME TypeInv, [Next]_vars PROVE TypeInv'
  OBVIOUS
<1>1. CASE UNCHANGED vars
  BY <1>1 DEF TypeInv, TypeOK, vars, commits, index
<1>2. CASE EditProject
  BY <1>2, EditTypes
<1>3. CASE \E a \in Agents : StartCall(a) \/ Step(a) \/ Return(a)
  BY <1>3, StartCallTypes, StepTypes, ReturnTypes
<1> QED
  BY <1>1, <1>2, <1>3 DEF Next

(* The variables have their types, and a call is always at a step of its program (Sync, healthFix, Init). *)
THEOREM TypeCorrect == Spec => []TypeInv
BY InitTypes, NextTypes, PTL DEF Spec

(* The same, without the programs. *)
THEOREM TypesHold == Spec => []TypeOK
<1>1. TypeInv => TypeOK
  BY DEF TypeInv
<1> QED
  BY <1>1, TypeCorrect, PTL

-------------------------------------------------------------------------------
(* What the steps of one agent do to the others.                           *)

(* The calls of the others are as they were, and so is all they read; or they are no longer calm. *)
OthersCalm(a) == \A b \in Agents \ {a} :
    /\ pc'[b] = pc[b]
    /\ \/ call'[b] = call[b] /\ UNCHANGED <<parent, head, tree, ruleFiles, rows, rules>>
       \/ call'[b] = Quiet(call[b])

LEMMA ReadFrame ==
    ASSUME TypeOK, NEW a \in Agents, NEW step, NEW locals, GoOn(a, step, locals)
    PROVE  /\ pc'[a] = step /\ call'[a] = locals
           /\ UNCHANGED <<parent, head, tree, ruleFiles, rows, rules>> => OthersCalm(a)
BY DEF GoOn, TypeOK, OthersCalm

LEMMA WriteFrame ==
    ASSUME TypeOK, NEW a \in Agents, NEW step, NEW locals, Committed(a, step, locals)
    PROVE  pc'[a] = step /\ call'[a] = locals /\ OthersCalm(a)
<1>1. \A b \in Agents \ {a} : call'[b] = Quiet(call[b])
  BY DEF Committed, Disturbed, Quiet, TypeOK
<1>2. pc'[a] = step /\ call'[a] = locals /\ \A b \in Agents \ {a} : pc'[b] = pc[b]
  BY DEF Committed, Disturbed, TypeOK
<1> QED
  BY <1>1, <1>2 DEF OthersCalm

(* What a step that only lists or reads leaves alone. *)
LEMMA ReadSteps ==
    ASSUME NEW a \in Agents,
           \/ ListFull(a) \/ ListChanged(a) \/ ListWorkingTree(a) \/ HashFiles(a) \/ Discover(a) \/ Parse(a)
           \/ ListTree(a) \/ ListCached(a) \/ Inventory(a) \/ Return(a) \/ StartCall(a)
    PROVE  UNCHANGED <<parent, head, tree, ruleFiles, rows, rules, seen>>
<1>1. CASE StartCall(a)
  BY <1>1 DEF StartCall, StartSync, StartHealthFix, StartInit, Start, commits, index
<1>2. CASE ListFull(a) \/ ListChanged(a) \/ ListWorkingTree(a) \/ HashFiles(a)
  BY <1>2 DEF ListFull, ListChanged, ListWorkingTree, ListDiff, HashFiles, commits, index
<1>3. CASE Discover(a) \/ Parse(a) \/ ListTree(a) \/ ListCached(a) \/ Inventory(a) \/ Return(a)
  BY <1>3 DEF Discover, Parse, ListTree, ListCached, Inventory, Return, commits, index
<1> QED
  BY <1>1, <1>2, <1>3

LEMMA StepFrame ==
    ASSUME TypeInv, NEW a \in Agents, StartCall(a) \/ Step(a) \/ Return(a)
    PROVE  OthersCalm(a)
<1>1. TypeOK
  BY DEF TypeInv
<1>2. CASE ListFull(a) \/ ListChanged(a) \/ ListWorkingTree(a) \/ HashFiles(a)
  <2>1. PICK step, locals : GoOn(a, step, locals)
    BY <1>2 DEF ListFull, ListChanged, ListWorkingTree, ListDiff, HashFiles
  <2> QED
    BY <1>1, <1>2, <2>1, ReadSteps, ReadFrame
<1>3. CASE Discover(a) \/ Parse(a) \/ ListTree(a) \/ ListCached(a) \/ Inventory(a) \/ Return(a)
  <2>1. PICK step, locals : GoOn(a, step, locals)
    BY <1>3 DEF Discover, Parse, ListTree, ListCached, Inventory, Return
  <2> QED
    BY <1>1, <1>3, <2>1, ReadSteps, ReadFrame
<1>4. CASE StartCall(a)
  <2>1. PICK step, locals : GoOn(a, step, locals)
    BY <1>4 DEF StartCall, StartSync, StartHealthFix, StartInit, Start, GoOn
  <2> QED
    BY <1>1, <1>4, <2>1, ReadSteps, ReadFrame
<1>5. CASE Apply(a) \/ Put(a) \/ Seed(a) \/ Stubs(a)
  <2>1. PICK step, locals : Committed(a, step, locals)
    BY <1>5 DEF Apply, Put, Seed, Stubs
  <2> QED
    BY <1>1, <2>1, WriteFrame
<1> QED
  BY <1>2, <1>3, <1>4, <1>5 DEF Step

-------------------------------------------------------------------------------
(* What each step does to the locals that tell where a call is.            *)

LEMMA ListFields ==
    ASSUME TypeInv, NEW a \in Agents, ListFull(a) \/ ListChanged(a) \/ ListWorkingTree(a) \/ HashFiles(a)
    PROVE  /\ call'[a].kind = call[a].kind /\ call'[a].parts = call[a].parts /\ call'[a].calm = call[a].calm
           /\ call'[a].at = call[a].at /\ call'[a].sources = call[a].sources
           /\ pc'[a] \in {"hash", "apply"} /\ pc[a] \in {"list", "hash"}
<1> DEFINE c == call[a]
<1>1. TypeOK /\ c \in Calls
  BY DEF TypeInv, TypeOK
<1>2. CASE ListFull(a)
  <2> DEFINE present == {f \in Files : head[f] # Absent}
             hash == [f \in Files |-> IF f \in present THEN Hash("git", head[f]) ELSE Null]
             listed == Listed(c, "full", present, {})
  <2>1. call'[a] = [listed EXCEPT !.hash = hash] /\ pc'[a] = "apply" /\ pc[a] = "list"
    BY <1>1, <1>2, ReadFrame DEF ListFull
  <2> HIDE DEF hash, present
  <2> QED
    BY <1>1, <2>1 DEF Listed, Calls
<1>3. CASE ListChanged(a) \/ ListWorkingTree(a)
  <2>1. PICK mode, from, to : ListDiff(a, mode, from, to)
    BY <1>3 DEF ListChanged, ListWorkingTree
  <2> DEFINE present == Present(from, to)
             deleted == Deleted(from, to)
  <2>2. call'[a] = Listed(c, mode, present, deleted) /\ pc'[a] = "hash" /\ pc[a] = "list"
    BY <1>1, <2>1, ReadFrame DEF ListDiff
  <2> HIDE DEF present, deleted
  <2> QED
    BY <1>1, <2>2 DEF Listed, Calls
<1>4. CASE HashFiles(a)
  <2> DEFINE hash == [f \in Files |-> IF f \in c.present
                        THEN Hash(IF c.mode = "changed" THEN "git" ELSE "sha256", HashSource(c)[f]) ELSE Null]
  <2>1. call'[a] = [c EXCEPT !.hash = hash] /\ pc'[a] = "apply" /\ pc[a] = "hash"
    BY <1>1, <1>4, ReadFrame DEF HashFiles
  <2> HIDE DEF hash
  <2> QED
    BY <1>1, <2>1 DEF Calls
<1> QED
  BY <1>2, <1>3, <1>4

LEMMA DiscoverFields ==
    ASSUME TypeInv, NEW a \in Agents, Discover(a)
    PROVE  /\ call'[a].mode = call[a].mode /\ call'[a].before = call[a].before
           /\ call'[a].kind = call[a].kind /\ call'[a].parts = call[a].parts /\ call'[a].calm = call[a].calm
           /\ call'[a].at = call[a].at /\ call'[a].live = call[a].live
           /\ call'[a].sources \in SourcesOf(call[a]) /\ call'[a].sources \in SourceLists /\ call'[a].nth = 1
           /\ call'[a].found = {s \in Sources : ruleFiles[s].state # "missing"}
           /\ pc'[a] = "parse" /\ pc[a] = "discover"
<1> DEFINE c == call[a]
           found == {s \in Sources : ruleFiles[s].state # "missing"}
<1>1. TypeOK /\ c \in Calls /\ pc[a] = "discover"
  BY DEF Discover, TypeInv, TypeOK
<1>2. PICK sources \in SourcesOf(c) : GoOn(a, "parse", Discovered(c, sources, found))
  BY DEF Discover, Discovered
<1>3. call'[a] = Discovered(c, sources, found) /\ pc'[a] = "parse"
  BY <1>1, <1>2, ReadFrame
<1>4. sources \in SourceLists /\ found \in SUBSET Sources
  BY <1>1 DEF SourcesOf, Calls
<1> HIDE DEF found
<1>5. LET d == Discovered(c, sources, found)
      IN  /\ d.mode = c.mode /\ d.before = c.before
          /\ d.kind = c.kind /\ d.parts = c.parts /\ d.calm = c.calm /\ d.at = c.at /\ d.live = c.live
          /\ d.sources = sources /\ d.nth = 1 /\ d.found = found
  BY <1>1, <1>4, DiscoveredFacts
<1> QED
  BY <1>1, <1>2, <1>3, <1>4, <1>5 DEF found

LEMMA ParseFields ==
    ASSUME TypeInv, NEW a \in Agents, Parse(a)
    PROVE  /\ call'[a].mode = call[a].mode /\ call'[a].before = call[a].before
           /\ call'[a].kind = call[a].kind /\ call'[a].parts = call[a].parts /\ call'[a].calm = call[a].calm
           /\ call'[a].at = call[a].at /\ call'[a].live = call[a].live
           /\ call'[a].sources = call[a].sources /\ call'[a].nth = call[a].nth /\ call'[a].found = call[a].found
           /\ call'[a].parsed = IF Source(call[a]) \in call[a].found THEN ruleFiles[Source(call[a])].rules ELSE {}
           /\ pc'[a] = "put" /\ pc[a] = "parse"
<1> DEFINE c == call[a]
           parsed == IF Source(c) \in c.found THEN ruleFiles[Source(c)].rules ELSE {}
<1>1. TypeOK /\ c \in Calls
  BY DEF TypeInv, TypeOK
<1>2. call'[a] = [c EXCEPT !.parsed = parsed] /\ pc'[a] = "put" /\ pc[a] = "parse"
  BY <1>1, ReadFrame DEF Parse
<1> HIDE DEF parsed
<1>3. /\ call'[a].mode = c.mode /\ call'[a].before = c.before
      /\ call'[a].kind = c.kind /\ call'[a].parts = c.parts /\ call'[a].calm = c.calm /\ call'[a].at = c.at
      /\ call'[a].live = c.live /\ call'[a].sources = c.sources /\ call'[a].nth = c.nth
      /\ call'[a].found = c.found /\ call'[a].parsed = parsed
  BY <1>1, <1>2 DEF Calls
<1> QED
  BY <1>2, <1>3 DEF parsed

LEMMA PutFields ==
    ASSUME TypeInv, NEW a \in Agents, Put(a)
    PROVE  /\ call'[a].mode = call[a].mode /\ call'[a].before = call[a].before
           /\ call'[a].kind = call[a].kind /\ call'[a].parts = call[a].parts /\ call'[a].calm = call[a].calm
           /\ call'[a].live = call[a].live /\ call'[a].sources = call[a].sources /\ pc[a] = "put"
           /\ MoreSources(call[a]) => /\ call'[a].at = call[a].at /\ call'[a].nth = call[a].nth + 1
                                      /\ call'[a].found = call[a].found /\ pc'[a] = "parse"
           /\ ~MoreSources(call[a]) => /\ call'[a].at = call[a].at + 1
                                       /\ pc'[a] \notin {"idle", "parse", "put", "seed", "stubs"}
<1> DEFINE c == call[a]
<1>1. TypeOK /\ c \in Calls /\ OnProgram("put", c) /\ pc[a] = "put"
  BY DEF Put, TypeInv, TypeOK
<1>2. CASE MoreSources(c)
  <2>1. call'[a] = [c EXCEPT !.nth = c.nth + 1] /\ pc'[a] = "parse"
    BY <1>1, <1>2, WriteFrame DEF Put
  <2> QED
    BY <1>1, <1>2, <2>1 DEF Calls
<1>3. CASE ~MoreSources(c)
  <2>1. call'[a] = EndPart(c) /\ pc'[a] = AfterPart(c)
    BY <1>1, <1>3, WriteFrame DEF Put
  <2> QED
    BY <1>1, <1>3, <2>1, EndPartFacts DEF Steps
<1> QED
  BY <1>2, <1>3

LEMMA EndFields ==
    ASSUME TypeInv, NEW a \in Agents, Apply(a) \/ Stubs(a)
    PROVE  /\ call'[a].kind = call[a].kind /\ call'[a].parts = call[a].parts /\ call'[a].calm = call[a].calm
           /\ call'[a].live = call[a].live /\ call'[a].sources = call[a].sources /\ call'[a].at = call[a].at + 1
           /\ pc'[a] \notin {"idle", "parse", "put", "seed", "stubs"} /\ pc[a] \in {"apply", "stubs"}
<1> DEFINE c == call[a]
<1>1. TypeOK /\ c \in Calls /\ OnProgram(pc[a], c) /\ pc[a] \in {"apply", "stubs"} /\ pc[a] \in Steps \ {"idle", "done"}
  BY DEF Apply, Stubs, TypeInv, TypeOK
<1>2. call'[a] = EndPart(c) /\ pc'[a] = AfterPart(c)
  BY <1>1, WriteFrame DEF Apply, Stubs
<1> QED
  BY <1>1, <1>2, EndPartFacts

LEMMA ListingFields ==
    ASSUME TypeInv, NEW a \in Agents, ListTree(a) \/ ListCached(a)
    PROVE  /\ call'[a].kind = call[a].kind /\ call'[a].parts = call[a].parts /\ call'[a].calm = call[a].calm
           /\ call'[a].live = InventoryPaths(call[a]) /\ call'[a].sources = call[a].sources
           /\ ListTree(a) => /\ call'[a].at = call[a].at + 1 /\ pc[a] = "tree"
                             /\ pc'[a] \notin {"idle", "parse", "put", "seed", "stubs"}
           /\ ListCached(a) => call'[a].at = call[a].at /\ pc[a] = "cached" /\ pc'[a] = "seed"
<1> DEFINE c == call[a]
<1>1. TypeOK /\ c \in Calls /\ OnProgram(pc[a], c) /\ pc[a] \in {"tree", "cached"} /\ pc[a] \in Steps \ {"idle", "done"}
  BY DEF ListTree, ListCached, TypeInv, TypeOK
<1>2. InventoryPaths(c) \in SUBSET Files
  BY DEF InventoryPaths
<1>3. CASE ListTree(a)
  <2>1. /\ call'[a] = WithLive(EndPart(c), InventoryPaths(c)) /\ pc'[a] = AfterPart(c) /\ pc[a] = "tree"
    BY <1>1, <1>3, ReadFrame DEF ListTree, WithLive
  <2>2. EndPart(c) \in Calls
    BY <1>1, EndPartFacts
  <2>3. ~ListCached(a)
    BY <2>1 DEF ListCached
  <2> QED
    BY <1>1, <1>2, <1>3, <2>1, <2>2, <2>3, WithLiveFacts, EndPartFacts
<1>4. CASE ListCached(a)
  <2>1. call'[a] = WithLive(c, InventoryPaths(c)) /\ pc'[a] = "seed" /\ pc[a] = "cached"
    BY <1>1, <1>4, ReadFrame DEF ListCached, WithLive
  <2>2. ~ListTree(a)
    BY <2>1 DEF ListTree
  <2> HIDE DEF c
  <2> QED
    BY <1>1, <1>2, <1>4, <2>1, <2>2, WithLiveFacts DEF c
<1> QED
  BY <1>3, <1>4

LEMMA SeedFields ==
    ASSUME TypeInv, NEW a \in Agents, Seed(a)
    PROVE  /\ call'[a].kind = call[a].kind /\ call'[a].parts = call[a].parts /\ call'[a].calm = call[a].calm
           /\ call'[a].live = call[a].live /\ call'[a].at = call[a].at + 1
           /\ pc'[a] \notin {"idle", "parse", "put", "seed", "stubs"} /\ pc[a] = "seed"
<1> DEFINE c == call[a]
<1>1. TypeOK /\ c \in Calls /\ OnProgram(pc[a], c) /\ pc[a] = "seed" /\ pc[a] \in Steps \ {"idle", "done"}
  BY DEF Seed, TypeInv, TypeOK
<1>2. PICK sources \in SourceLists : Committed(a, AfterPart(c), WithSources(EndPart(c), sources))
  BY DEF Seed, WithSources
<1>3. call'[a] = WithSources(EndPart(c), sources) /\ pc'[a] = AfterPart(c)
  BY <1>1, <1>2, WriteFrame
<1>4. EndPart(c) \in Calls
  BY <1>1, EndPartFacts
<1> QED
  BY <1>1, <1>3, <1>4, WithSourcesFacts, EndPartFacts

LEMMA InventoryFields ==
    ASSUME TypeInv, NEW a \in Agents, Inventory(a)
    PROVE  /\ call'[a].mode = call[a].mode /\ call'[a].before = call[a].before
           /\ call'[a].kind = call[a].kind /\ call'[a].parts = call[a].parts /\ call'[a].calm = call[a].calm
           /\ call'[a].live = call[a].live /\ call'[a].sources = call[a].sources /\ call'[a].at = call[a].at
           /\ call'[a].missing = {f \in call[a].live : rows[f].state = "none"}
           /\ pc'[a] = "stubs" /\ pc[a] = "inventory"
<1> DEFINE c == call[a]
           missing == {f \in c.live : rows[f].state = "none"}
<1>1. TypeOK /\ c \in Calls /\ pc[a] = "inventory"
  BY DEF Inventory, TypeInv, TypeOK
<1>2. call'[a] = WithMissing(c, missing) /\ pc'[a] = "stubs"
  BY <1>1, ReadFrame DEF Inventory, WithMissing
<1>3. missing \in SUBSET Files
  BY <1>1 DEF Calls
<1> HIDE DEF missing
<1>4. LET d == WithMissing(c, missing)
      IN  /\ d.mode = c.mode /\ d.before = c.before
          /\ d.kind = c.kind /\ d.parts = c.parts /\ d.calm = c.calm /\ d.at = c.at /\ d.live = c.live
          /\ d.sources = c.sources /\ d.missing = missing
  BY <1>1, <1>3, WithMissingFacts
<1> QED
  BY <1>1, <1>2, <1>4 DEF missing

-------------------------------------------------------------------------------
(* The rules of a file are those of one version of it.                     *)

Stored(s) == {r \in Rules : rules[s][r] # "none"}

(* What a file holds, or a call has read of it, is one of the versions it has had. *)
ReadVersions ==
    /\ \A s \in Sources : {} \in seen[s] /\ ruleFiles[s].rules \in seen[s]
    /\ \A a \in Agents : pc[a] = "put" => call[a].parsed \in seen[Source(call[a])]

WholeInv == TypeInv /\ ReadVersions /\ RulesComeWhole

LEMMA WholeInit == Init => WholeInv
<1> SUFFICES ASSUME Init PROVE WholeInv
  OBVIOUS
<1>1. TypeInv
  BY InitTypes
<1>2. ReadVersions
  BY DEF Init, ReadVersions
<1>3. RulesComeWhole
  <2> SUFFICES ASSUME NEW s \in Sources
               PROVE  Stored(s) \in seen[s] /\ \A r, q \in Stored(s) : rules[s][r] = rules[s][q]
    BY DEF RulesComeWhole, Stored
  <2>1. Stored(s) = {}
    BY DEF Init, Stored
  <2> QED
    BY <1>2, <2>1 DEF ReadVersions
<1> QED
  BY <1>1, <1>2, <1>3 DEF WholeInv

(* Versions are only added to the history of a file. *)
LEMMA SeenGrows ==
    ASSUME WholeInv, NEW s \in Sources, NEW file \in RuleFiles, WriteRuleFile(s, file)
    PROVE  /\ \A t \in Sources : {} \in seen'[t] /\ ruleFiles'[t].rules \in seen'[t]
           /\ \A t \in Sources : seen[t] \subseteq seen'[t]
BY DEF WholeInv, ReadVersions, TypeInv, TypeOK, WriteRuleFile

(* A step that leaves the rules and the ruleset files alone, and does not end in put. *)
LEMMA WholeFrame ==
    ASSUME WholeInv, rules' = rules,
           \A t \in Sources : /\ {} \in seen'[t] /\ ruleFiles'[t].rules \in seen'[t]
                              /\ seen[t] \subseteq seen'[t],
           \A b \in Agents : pc'[b] = "put" =>
              call'[b].parsed \in seen'[Source(call'[b])]
    PROVE  ReadVersions' /\ RulesComeWhole'
<1>1. ReadVersions'
  BY DEF ReadVersions, Source
<1>2. RulesComeWhole'
  BY DEF WholeInv, RulesComeWhole
<1> QED
  BY <1>1, <1>2

(* Only Parse leads to put. *)
LEMMA PutIsNext ==
    ASSUME TypeInv, NEW a \in Agents, StartCall(a) \/ Step(a) \/ Return(a), ~Parse(a)
    PROVE  pc'[a] # "put"
<1>1. TypeOK
  BY DEF TypeInv
<1>2. ASSUME pc[a] \notin {"idle", "done"} PROVE AfterPart(call[a]) # "put"
  <2>1. call[a] \in Calls /\ OnProgram(pc[a], call[a]) /\ pc[a] \in Steps \ {"idle", "done"}
    BY <1>2 DEF TypeInv, TypeOK
  <2> QED
    BY <2>1, EndPartFacts
<1>3. CASE StartCall(a)
  <2>1. PICK kind, insert, parts :
          /\ kind \in {"sync", "health", "init"} /\ insert \in BOOLEAN
          /\ Program(kind, insert, parts) /\ Start(a, kind, parts, insert)
    BY <1>3, HealthProgram DEF StartCall, StartSync, StartHealthFix, StartInit, Program
  <2>2. FirstStep(Head(parts)) # "put"
    <3>1. Len(parts) > 0 /\ parts \in Seq(Parts)
      BY <2>1, ProgramFacts
    <3>2. Head(parts) \in Parts
      BY <3>1
    <3> QED
      BY <3>2, StepsOfFacts
  <2> QED
    BY <1>1, <2>1, <2>2 DEF Start, TypeOK
<1>4. CASE Return(a)
  BY <1>1, <1>4, ReadFrame DEF Return
<1>5. CASE ListFull(a) \/ ListChanged(a) \/ ListWorkingTree(a) \/ HashFiles(a)
  <2>1. \E step, locals : step \in {"hash", "apply"} /\ GoOn(a, step, locals)
    BY <1>5 DEF ListFull, ListChanged, ListWorkingTree, ListDiff, HashFiles
  <2> QED
    BY <1>1, <2>1, ReadFrame
<1>6. CASE Discover(a) \/ ListTree(a) \/ ListCached(a) \/ Inventory(a)
  <2>1. CASE Discover(a)
    <3>1. \E locals : GoOn(a, "parse", locals)
      BY <2>1 DEF Discover
    <3> QED
      BY <1>1, <3>1, ReadFrame
  <2>2. CASE ListTree(a)
    <3>1. pc[a] \notin {"idle", "done"} /\ \E locals : GoOn(a, AfterPart(call[a]), locals)
      BY <2>2 DEF ListTree
    <3> QED
      BY <1>1, <1>2, <3>1, ReadFrame
  <2>3. CASE ListCached(a)
    <3>1. \E locals : GoOn(a, "seed", locals)
      BY <2>3 DEF ListCached
    <3> QED
      BY <1>1, <3>1, ReadFrame
  <2>4. CASE Inventory(a)
    <3>1. \E locals : GoOn(a, "stubs", locals)
      BY <2>4 DEF Inventory
    <3> QED
      BY <1>1, <3>1, ReadFrame
  <2> QED
    BY <1>6, <2>1, <2>2, <2>3, <2>4
<1>7. CASE Apply(a) \/ Seed(a) \/ Stubs(a)
  <2>1. pc[a] \notin {"idle", "done"} /\ \E locals : Committed(a, AfterPart(call[a]), locals)
    BY <1>7 DEF Apply, Seed, Stubs
  <2> QED
    BY <1>1, <1>2, <2>1, WriteFrame
<1>8. CASE Put(a)
  <2>1. pc[a] \notin {"idle", "done"}
    BY <1>8 DEF Put
  <2>2. CASE MoreSources(call[a])
    <3>1. \E locals : Committed(a, "parse", locals)
      BY <1>8, <2>2 DEF Put
    <3> QED
      BY <1>1, <3>1, WriteFrame
  <2>3. CASE ~MoreSources(call[a])
    <3>1. \E locals : Committed(a, AfterPart(call[a]), locals)
      BY <1>8, <2>3 DEF Put
    <3> QED
      BY <1>1, <1>2, <2>1, <3>1, WriteFrame
  <2> QED
    BY <2>2, <2>3
<1> QED
  BY <1>3, <1>4, <1>5, <1>6, <1>7, <1>8 DEF Step

(* The versions that were read, after a step of an agent. *)
LEMMA VersionsStep ==
    ASSUME WholeInv, NEW a \in Agents, StartCall(a) \/ Step(a) \/ Return(a),
           \A t \in Sources : /\ {} \in seen'[t] /\ ruleFiles'[t].rules \in seen'[t]
                              /\ seen[t] \subseteq seen'[t],
           pc'[a] = "put" => call'[a].parsed \in seen'[Source(call'[a])]
    PROVE  ReadVersions'
<1>1. TypeInv /\ TypeOK /\ TypeInv'
  BY StartCallTypes, StepTypes, ReturnTypes DEF WholeInv, TypeInv
<1>2. OthersCalm(a)
  BY <1>1, StepFrame
<1>3. ASSUME NEW b \in Agents \ {a}, pc'[b] = "put"
      PROVE  call'[b].parsed \in seen'[Source(call'[b])]
  <2>1. pc[b] = "put" /\ (call'[b] = call[b] \/ call'[b] = Quiet(call[b]))
    BY <1>2, <1>3 DEF OthersCalm
  <2>2. call[b] \in Calls /\ OnProgram("put", call[b])
    BY <1>1, <2>1 DEF TypeInv, TypeOK
  <2>3. call'[b].parsed = call[b].parsed /\ Source(call'[b]) = Source(call[b])
    BY <2>1, <2>2, QuietFacts DEF Source
  <2>4. Source(call[b]) \in Sources
    BY <2>2, SourceListFacts DEF OnProgram, Source
  <2>5. call[b].parsed \in seen[Source(call[b])]
    BY <2>1 DEF WholeInv, ReadVersions
  <2> QED
    BY <2>3, <2>4, <2>5
<1> QED
  BY <1>3 DEF ReadVersions, Source

LEMMA WholeRead ==
    ASSUME WholeInv, NEW a \in Agents,
           \/ ListFull(a) \/ ListChanged(a) \/ ListWorkingTree(a) \/ HashFiles(a) \/ Discover(a) \/ Parse(a)
           \/ ListTree(a) \/ ListCached(a) \/ Inventory(a) \/ Return(a) \/ StartCall(a)
    PROVE  ReadVersions' /\ RulesComeWhole'
<1>1. UNCHANGED <<ruleFiles, rules, seen>>
  BY ReadSteps
<1>2. TypeInv /\ TypeOK
  BY DEF WholeInv, TypeInv
<1>3. RulesComeWhole'
  BY <1>1 DEF WholeInv, RulesComeWhole
<1>4. ASSUME pc'[a] = "put" PROVE call'[a].parsed \in seen'[Source(call'[a])]
  <2>1. Parse(a)
    BY <1>2, <1>4, PutIsNext DEF Step
  <2> DEFINE c == call[a]
             t == Source(c)
             d == [c EXCEPT !.parsed = IF t \in c.found THEN ruleFiles[t].rules ELSE {}]
  <2>2. call'[a] = d
    BY <1>2, <2>1, ReadFrame DEF Parse
  <2>3. c \in Calls /\ OnProgram("parse", c)
    BY <1>2, <2>1 DEF Parse, TypeInv, TypeOK
  <2>4. t \in Sources
    BY <2>3, SourceListFacts DEF OnProgram, Source
  <2>5. d.parsed \in {ruleFiles[t].rules, {}} /\ d.sources = c.sources /\ d.nth = c.nth
    BY <2>3 DEF Calls
  <2>6. Source(d) = t
    BY <2>5 DEF Source
  <2>7. {} \in seen[t] /\ ruleFiles[t].rules \in seen[t]
    BY <2>4 DEF WholeInv, ReadVersions
  <2> QED
    BY <1>1, <2>2, <2>5, <2>6, <2>7
<1>5. ReadVersions'
  BY <1>1, <1>4, VersionsStep DEF WholeInv, ReadVersions, Step
<1> QED
  BY <1>3, <1>5

LEMMA WholeApply ==
    ASSUME WholeInv, NEW a \in Agents, Apply(a)
    PROVE  ReadVersions' /\ RulesComeWhole'
<1>1. /\ UNCHANGED <<ruleFiles, seen>>
      /\ rules' = [s \in Sources |-> [r \in Rules |->
            IF call[a].mode = "full" /\ rules[s][r] = "live" THEN "stale" ELSE rules[s][r]]]
  BY DEF Apply
<1>2. ReadVersions'
  <2>1. pc'[a] # "put"
    BY PutIsNext DEF Apply, Parse, Step, WholeInv
  <2> QED
    BY <1>1, <2>1, VersionsStep DEF Step, WholeInv, ReadVersions
<1>3. ASSUME NEW s \in Sources
      PROVE  Stored(s)' \in seen'[s] /\ \A r, q \in Stored(s)' : rules'[s][r] = rules'[s][q]
  <2>1. Stored(s) \in seen[s] /\ \A r, q \in Stored(s) : rules[s][r] = rules[s][q]
    BY DEF WholeInv, RulesComeWhole, Stored
  <2>2. \A r \in Rules : rules'[s][r] =
          IF call[a].mode = "full" /\ rules[s][r] = "live" THEN "stale" ELSE rules[s][r]
    BY <1>1
  <2>3. Stored(s)' = Stored(s)
    BY <2>2 DEF Stored
  <2>4. \A r \in Stored(s) : r \in Rules
    BY DEF Stored
  <2> QED
    BY <1>1, <2>1, <2>2, <2>3, <2>4
<1> QED
  BY <1>2, <1>3 DEF RulesComeWhole, Stored

LEMMA WholePut ==
    ASSUME WholeInv, NEW a \in Agents, Put(a)
    PROVE  ReadVersions' /\ RulesComeWhole'
<1> DEFINE c == call[a]
           t == Source(c)
<1>1. UNCHANGED <<ruleFiles, seen>> /\ rules' = [rules EXCEPT ![t] = PutRules(t, c.parsed)] /\ pc[a] = "put"
  BY DEF Put
<1>2. TypeInv /\ TypeOK
  BY DEF WholeInv, TypeInv
<1>3. ReadVersions'
  <2>1. pc'[a] # "put"
    BY <1>1, <1>2, PutIsNext DEF Put, Parse, Step
  <2> QED
    BY <1>1, <2>1, VersionsStep DEF Step, WholeInv, ReadVersions
<1>4. c.parsed \in SUBSET Rules /\ c.parsed \in seen[t]
  BY <1>1, <1>2 DEF WholeInv, ReadVersions, TypeOK, Calls
<1>5. ASSUME NEW s \in Sources
      PROVE  Stored(s)' \in seen'[s] /\ \A r, q \in Stored(s)' : rules'[s][r] = rules'[s][q]
  <2>1. CASE s = t
    <3>1. \A r \in Rules : rules'[s][r] = IF r \in c.parsed THEN "live" ELSE "none"
      BY <1>1, <1>2, <2>1 DEF PutRules, Upserted, TypeOK
    <3>2. Stored(s)' = c.parsed
      BY <1>4, <3>1 DEF Stored
    <3> QED
      BY <1>1, <1>4, <2>1, <3>1, <3>2
  <2>2. CASE s # t
    <3>1. rules'[s] = rules[s]
      BY <1>1, <1>2, <2>2 DEF TypeOK
    <3>2. Stored(s) \in seen[s] /\ \A r, q \in Stored(s) : rules[s][r] = rules[s][q]
      BY DEF WholeInv, RulesComeWhole, Stored
    <3> QED
      BY <1>1, <3>1, <3>2 DEF Stored
  <2> QED
    BY <2>1, <2>2
<1> QED
  BY <1>3, <1>5 DEF RulesComeWhole, Stored

LEMMA WholeSeedOrStubs ==
    ASSUME WholeInv, NEW a \in Agents, Seed(a) \/ Stubs(a)
    PROVE  ReadVersions' /\ RulesComeWhole'
<1>1. \A t \in Sources : /\ {} \in seen'[t] /\ ruleFiles'[t].rules \in seen'[t]
                         /\ seen[t] \subseteq seen'[t]
  <2>1. CASE \E s \in Sources, file \in RuleFiles : WriteRuleFile(s, file)
    BY <2>1, SeenGrows
  <2>2. CASE UNCHANGED <<ruleFiles, seen>>
    BY <2>2 DEF WholeInv, ReadVersions
  <2>3. Primary \in Sources /\ Ruleset({}) \in RuleFiles
    BY DEF Sources, RuleFiles
  <2> QED
    BY <2>1, <2>2, <2>3 DEF Seed, Stubs
<1>2. pc'[a] # "put"
  BY PutIsNext DEF Seed, Stubs, Parse, Step, WholeInv
<1>3. rules' = rules
  BY DEF Seed, Stubs, index
<1>4. RulesComeWhole'
  BY <1>1, <1>3 DEF WholeInv, RulesComeWhole
<1>5. ReadVersions'
  BY <1>1, <1>2, VersionsStep DEF Step
<1> QED
  BY <1>4, <1>5

LEMMA WholeEdit ==
    ASSUME WholeInv, EditProject
    PROVE  ReadVersions' /\ RulesComeWhole'
<1>1. TypeInv /\ TypeOK
  BY DEF WholeInv, TypeInv
<1>2. \A t \in Sources : /\ {} \in seen'[t] /\ ruleFiles'[t].rules \in seen'[t]
                         /\ seen[t] \subseteq seen'[t]
  <2>1. CASE \E s \in Sources, file \in RuleFiles : WriteRuleFile(s, file)
    BY <2>1, SeenGrows
  <2>2. CASE UNCHANGED <<ruleFiles, seen>>
    BY <2>2 DEF WholeInv, ReadVersions
  <2> QED
    BY <2>1, <2>2, IndexAssumption DEF EditProject, Edit, Commit, EditRules, IndexAssumption
<1>3. rules' = rules /\ pc' = pc /\ call' = Disturbed({})
  BY DEF EditProject, Edit, Commit, EditRules, index
<1>4. ASSUME NEW b \in Agents, pc'[b] = "put"
      PROVE  call'[b].parsed \in seen'[Source(call'[b])]
  <2>1. call[b] \in Calls /\ OnProgram("put", call[b]) /\ call'[b] = Quiet(call[b]) /\ pc[b] = "put"
    BY <1>1, <1>3, <1>4, DisturbedFacts DEF TypeInv, TypeOK
  <2>2. call'[b].parsed = call[b].parsed /\ Source(call'[b]) = Source(call[b])
    BY <2>1, QuietFacts DEF Source
  <2>3. Source(call[b]) \in Sources
    BY <2>1, SourceListFacts DEF OnProgram, Source
  <2> QED
    BY <1>2, <2>1, <2>2, <2>3 DEF WholeInv, ReadVersions
<1> QED
  BY <1>2, <1>3, <1>4, WholeFrame

LEMMA WholeNext == WholeInv /\ [Next]_vars => WholeInv'
<1> SUFFICES ASSUME WholeInv, [Next]_vars PROVE WholeInv'
  OBVIOUS
<1>1. TypeInv'
  BY NextTypes DEF WholeInv
<1>2. CASE UNCHANGED vars
  BY <1>1, <1>2 DEF WholeInv, ReadVersions, RulesComeWhole, Source, vars, index
<1>3. CASE EditProject
  BY <1>1, <1>3, WholeEdit DEF WholeInv
<1>4. CASE \E a \in Agents : StartCall(a) \/ Step(a) \/ Return(a)
  BY <1>1, <1>4, WholeRead, WholeApply, WholePut, WholeSeedOrStubs DEF WholeInv, Step
<1> QED
  BY <1>2, <1>3, <1>4 DEF Next

(* The rules stored for a file are those of one version of it, all fetchable or none, however calls    *)
(* overlap and wherever they are cut short (SyncRulePointers, ApplySync).                              *)
THEOREM RulesAreWhole == Spec => []RulesComeWhole
<1>1. WholeInv => RulesComeWhole
  BY DEF WholeInv
<1> QED
  BY <1>1, WholeInit, WholeNext, PTL DEF Spec

-------------------------------------------------------------------------------
(* What an undisturbed sync does to the rows.                              *)

(* The trees a sync goes from and to, the files it lists and those it marks, by its mode. *)
Origin(c) == IF c.mode = "changed" THEN parent ELSE head
Target(c) == IF c.mode = "working_tree" THEN tree ELSE head
ToList(c) == IF c.mode = "full" THEN {f \in Files : head[f] # Absent} ELSE Present(Origin(c), Target(c))
ToMark(c) == IF c.mode = "full" THEN {} ELSE Deleted(Origin(c), Target(c))

(* Before the rows are written: what has been listed and hashed is still so. *)
Listing(c, step) ==
    /\ rows = c.before
    /\ step \in {"hash", "apply"} => c.present = ToList(c) /\ c.deleted = ToMark(c) /\ c.live = c.present
    /\ step = "hash" => c.mode # "full"
    /\ step = "apply" => \A f \in c.present : c.hash[f].of = Target(c)[f]

(* After: each row, where a listed file may still be without one. *)
RowSynced(c, f) ==
    IF f \in ToList(c)
    THEN \/ rows[f].state = "live" /\ (rows[f].hash = Null \/ rows[f].hash.of = Target(c)[f])
         \/ rows[f] = NoRow /\ c.at < 4
    ELSE IF c.mode = "full" \/ f \in ToMark(c)
         THEN rows[f].state # "live"
         ELSE rows[f] = c.before[f]

SyncCalm(a) == call[a].kind = "sync" /\ call[a].calm /\ pc[a] # "idle" =>
    /\ call[a].at = 1 => Listing(call[a], pc[a])
    /\ call[a].at > 1 => /\ call[a].live = ToList(call[a])
                         /\ \A f \in Files : RowSynced(call[a], f)
                         /\ pc[a] = "stubs" =>
                               call[a].missing = {f \in call[a].live : rows[f].state = "none"}

NoRowIsEmpty == \A f \in Files : rows[f].state = "none" => rows[f] = NoRow

SyncInv == TypeInv /\ NoRowIsEmpty /\ \A a \in Agents : SyncCalm(a)

(* The parts of a sync, by number. *)
LEMMA SyncParts123 ==
    ASSUME NEW step, NEW c \in Calls, OnProgram(step, c), step \notin {"idle", "done"}, c.kind = "sync"
    PROVE  /\ c.at \in 1..3 /\ (c.at = 3 => c.insert)
           /\ step \in {"list", "hash", "apply"} <=> c.at = 1
           /\ step \in {"discover", "parse", "put"} <=> c.at = 2
           /\ step \in {"inventory", "stubs"} <=> c.at = 3
           /\ step \notin {"tree", "cached", "seed"}
<1>1. Program(c.kind, c.insert, c.parts) /\ c.insert \in BOOLEAN
  BY DEF OnProgram, Calls
<1>2. /\ Len(c.parts) = IF c.insert THEN 3 ELSE 2
      /\ c.parts[1] = "sync" /\ c.parts[2] = "rules" /\ (c.insert => c.parts[3] = "index")
  BY <1>1, ProgramFacts, ZenonT(60)
<1>3. c.at \in 1..Len(c.parts)
  BY PartOfStep
<1>4. c.at \in 1..3 /\ (c.at = 3 => c.insert)
  BY <1>2, <1>3
<1>5. c.parts[c.at] = IF c.at = 1 THEN "sync" ELSE IF c.at = 2 THEN "rules" ELSE "index"
  BY <1>2, <1>4
<1> QED
  BY <1>4, <1>5, PartOfStep

LEMMA SyncOthers ==
    ASSUME SyncInv, NEW a \in Agents, OthersCalm(a), NEW b \in Agents \ {a}
    PROVE  SyncCalm(b)'
<1>1. pc'[b] = pc[b] /\ call[b] \in Calls
  BY DEF OthersCalm, SyncInv, TypeInv, TypeOK
<1>2. CASE call'[b] = call[b] /\ UNCHANGED <<parent, head, tree, rows>>
  BY <1>1, <1>2 DEF SyncInv, SyncCalm, Listing, RowSynced, ToList, ToMark, Origin, Target
<1>3. CASE call'[b] = Quiet(call[b])
  BY <1>1, <1>3, QuietFacts DEF SyncCalm
<1> QED
  BY <1>2, <1>3 DEF OthersCalm

LEMMA SyncInit == Init => SyncInv
<1> SUFFICES ASSUME Init PROVE SyncInv
  OBVIOUS
<1>1. TypeInv
  BY InitTypes
<1>2. NoRowIsEmpty
  BY DEF Init, NoRowIsEmpty, NoRows
<1>3. \A a \in Agents : SyncCalm(a)
  BY DEF Init, SyncCalm
<1> QED
  BY <1>1, <1>2, <1>3 DEF SyncInv

LEMMA SyncEdit == ASSUME SyncInv, EditProject PROVE NoRowIsEmpty' /\ \A a \in Agents : SyncCalm(a)'
<1>1. UNCHANGED <<rows, pc>> /\ call' = Disturbed({})
  BY DEF EditProject, Edit, Commit, EditRules, index
<1>2. \A a \in Agents : ~call'[a].calm
  BY <1>1, DisturbedFacts, QuietFacts DEF SyncInv, TypeInv, TypeOK
<1> QED
  BY <1>1, <1>2 DEF SyncInv, NoRowIsEmpty, SyncCalm

LEMMA SyncStart == ASSUME SyncInv, NEW a \in Agents, StartCall(a) PROVE SyncCalm(a)'
<1>1. PICK kind, insert, parts :
        /\ kind \in {"sync", "health", "init"} /\ insert \in BOOLEAN
        /\ Program(kind, insert, parts) /\ Start(a, kind, parts, insert)
  BY HealthProgram DEF StartCall, StartSync, StartHealthFix, StartInit, Program
<1> DEFINE d == [NoCall EXCEPT !.kind = kind, !.parts = parts, !.at = 1, !.insert = insert,
                               !.before = rows, !.calm = TRUE]
<1>2. pc'[a] = FirstStep(Head(parts)) /\ call'[a] = d /\ UNCHANGED rows
  BY <1>1 DEF Start, SyncInv, TypeInv, TypeOK, index
<1>3. d.kind = kind /\ d.at = 1 /\ d.before = rows /\ d.parts = parts
  BY DEF NoCall
<1>4. kind = "sync" => FirstStep(Head(parts)) = "list"
  <2> SUFFICES ASSUME kind = "sync" PROVE FirstStep(Head(parts)) = "list"
    OBVIOUS
  <2>1. parts \in Seq(Parts) /\ Len(parts) > 0 /\ parts[1] = "sync"
    BY <1>1, ProgramFacts
  <2>2. Head(parts) = "sync"
    BY <2>1
  <2> QED
    BY <2>2 DEF FirstStep
<1> HIDE DEF d
<1> QED
  BY <1>2, <1>3, <1>4 DEF SyncCalm, Listing

LEMMA SyncListFull == ASSUME SyncInv, NEW a \in Agents, ListFull(a) PROVE SyncCalm(a)'
<1> DEFINE c == call[a]
           present == {f \in Files : head[f] # Absent}
           listed == Listed(c, "full", present, {})
           hash == [f \in Files |-> IF f \in present THEN Hash("git", head[f]) ELSE Null]
           d == [listed EXCEPT !.hash = hash]
<1>1. TypeOK /\ c \in Calls /\ OnProgram("list", c) /\ c.kind = "sync" /\ pc[a] = "list"
  BY DEF ListFull, SyncInv, TypeInv, TypeOK
<1>2. GoOn(a, "apply", d) /\ UNCHANGED <<parent, head, tree, rows>>
  BY DEF ListFull, commits, index
<1>3. pc'[a] = "apply" /\ call'[a] = d
  BY <1>1, <1>2, ReadFrame
<1>4. hash \in [Files -> Hashes \cup {Null}] /\ \A f \in present : hash[f].of = head[f]
  BY <1>1 DEF TypeOK, Trees, Hash, Hashes
<1>5. present \in SUBSET Files /\ "full" \in Modes
  BY DEF Modes
<1>6. SyncCalm(a) /\ c.at = 1
  BY <1>1, SyncParts123 DEF SyncInv
<1>7. present' = present
  BY <1>2
<1> HIDE DEF c, present, hash
<1>8. listed \in Calls /\ listed.at = c.at /\ listed.before = c.before /\ listed.calm = c.calm /\ listed.kind = c.kind
      /\ listed.mode = "full" /\ listed.present = present /\ listed.deleted = {} /\ listed.live = present
  BY <1>1, <1>5, ListedFacts
<1> HIDE DEF listed
<1>9. d.at = c.at /\ d.before = c.before /\ d.calm = c.calm /\ d.kind = c.kind /\ d.hash = hash
      /\ d.mode = "full" /\ d.present = present /\ d.deleted = {} /\ d.live = present
  BY <1>4, <1>8, HashedFacts
<1> HIDE DEF d
<1>10. /\ call'[a].at = c.at /\ call'[a].before = c.before /\ call'[a].calm = c.calm /\ call'[a].kind = c.kind
       /\ call'[a].hash = hash /\ call'[a].mode = "full" /\ call'[a].present = present /\ call'[a].deleted = {}
       /\ call'[a].live = present
  BY <1>3, <1>9
<1>11. ToList(call[a])' = present /\ ToMark(call[a])' = {} /\ Target(call[a])' = head
  BY <1>2, <1>7, <1>10 DEF ToList, ToMark, Target, present
<1>12. ASSUME c.calm PROVE Listing(call[a], pc[a])'
  <2>1. rows = c.before
    BY <1>1, <1>6, <1>12 DEF SyncCalm, Listing, c
  <2> QED
    BY <1>2, <1>3, <1>4, <1>10, <1>11, <2>1 DEF Listing
<1> QED
  BY <1>6, <1>10, <1>12 DEF SyncCalm

LEMMA SyncListDiff ==
    ASSUME SyncInv, NEW a \in Agents, NEW mode, NEW from, NEW to, ListDiff(a, mode, from, to),
           \/ mode = "changed" /\ from = parent /\ to = head
           \/ mode = "working_tree" /\ from = head /\ to = tree
    PROVE  SyncCalm(a)'
<1> DEFINE c == call[a]
           present == Present(from, to)
           deleted == Deleted(from, to)
           d == Listed(c, mode, present, deleted)
<1>1. TypeOK /\ c \in Calls /\ OnProgram("list", c) /\ pc[a] = "list"
  BY DEF ListDiff, SyncInv, TypeInv, TypeOK
<1>2. GoOn(a, "hash", d) /\ UNCHANGED <<parent, head, tree, rows>>
  BY DEF ListDiff, commits, index
<1>3. pc'[a] = "hash" /\ call'[a] = d
  BY <1>1, <1>2, ReadFrame
<1>4. present \in SUBSET Files /\ deleted \in SUBSET Files /\ mode \in Modes
  BY DEF Present, Deleted, Modes
<1>5. SyncCalm(a) /\ (c.kind = "sync" => c.at = 1)
  BY <1>1, SyncParts123 DEF SyncInv
<1> HIDE DEF c, present, deleted
<1>6. /\ d.at = c.at /\ d.before = c.before /\ d.calm = c.calm /\ d.kind = c.kind
      /\ d.mode = mode /\ d.present = present /\ d.deleted = deleted /\ d.live = present
  BY <1>1, <1>4, ListedFacts
<1> HIDE DEF d
<1>7. /\ call'[a].at = c.at /\ call'[a].before = c.before /\ call'[a].calm = c.calm /\ call'[a].kind = c.kind
      /\ call'[a].mode = mode /\ call'[a].present = present /\ call'[a].deleted = deleted
      /\ call'[a].live = present
  BY <1>3, <1>6
<1>8. ToList(call[a])' = present /\ ToMark(call[a])' = deleted
  <2>1. Origin(call[a])' = from /\ Target(call[a])' = to /\ call'[a].mode # "full"
    BY <1>2, <1>7 DEF Origin, Target
  <2> QED
    BY <2>1 DEF ToList, ToMark, Present, Deleted, present, deleted
<1>9. ASSUME c.calm, c.kind = "sync" PROVE Listing(call[a], pc[a])'
  <2>1. rows = c.before
    BY <1>1, <1>5, <1>9 DEF SyncCalm, Listing, c
  <2> QED
    BY <1>2, <1>3, <1>7, <1>8, <2>1 DEF Listing
<1> QED
  BY <1>5, <1>7, <1>9 DEF SyncCalm

LEMMA SyncHash == ASSUME SyncInv, NEW a \in Agents, HashFiles(a) PROVE SyncCalm(a)'
<1> DEFINE c == call[a]
           from == HashSource(c)
           kind == IF c.mode = "changed" THEN "git" ELSE "sha256"
           hash == [f \in Files |-> IF f \in c.present THEN Hash(kind, from[f]) ELSE Null]
           d == [c EXCEPT !.hash = hash]
<1>1. TypeOK /\ c \in Calls /\ OnProgram("hash", c) /\ pc[a] = "hash"
  BY DEF HashFiles, SyncInv, TypeInv, TypeOK
<1>2. GoOn(a, "apply", d) /\ UNCHANGED <<parent, head, tree, rows>>
  BY DEF HashFiles, commits, index
<1>3. pc'[a] = "apply" /\ call'[a] = d
  BY <1>1, <1>2, ReadFrame
<1>4. hash \in [Files -> Hashes \cup {Null}] /\ \A f \in c.present : hash[f].of = from[f]
  <2>1. from \in Trees /\ c.present \subseteq Files
    BY <1>1 DEF HashSource, TypeOK, Calls
  <2> QED
    BY <2>1 DEF Trees, Hash, Hashes
<1>5. SyncCalm(a) /\ (c.kind = "sync" => c.at = 1)
  BY <1>1, SyncParts123 DEF SyncInv
<1>6. c.mode # "full" => from = Target(c)
  BY <1>1 DEF HashSource, Target, Calls, Modes
<1> HIDE DEF c, from, hash
<1>7. /\ d.at = c.at /\ d.before = c.before /\ d.calm = c.calm /\ d.kind = c.kind /\ d.hash = hash
      /\ d.mode = c.mode /\ d.present = c.present /\ d.deleted = c.deleted /\ d.live = c.live
  BY <1>1, <1>4, HashedFacts
<1> HIDE DEF d
<1>8. /\ call'[a].at = c.at /\ call'[a].before = c.before /\ call'[a].calm = c.calm /\ call'[a].kind = c.kind
      /\ call'[a].mode = c.mode /\ call'[a].present = c.present /\ call'[a].deleted = c.deleted
      /\ call'[a].live = c.live /\ call'[a].hash = hash
  BY <1>3, <1>7
<1>9. ToList(call[a])' = ToList(c) /\ ToMark(call[a])' = ToMark(c) /\ Target(call[a])' = Target(c)
  BY <1>2, <1>8 DEF Origin, Target, ToList, ToMark
<1>10. ASSUME c.calm, c.kind = "sync" PROVE Listing(call[a], pc[a])'
  <2>1. Listing(c, "hash")
    BY <1>1, <1>5, <1>10 DEF SyncCalm, c
  <2> QED
    BY <1>2, <1>3, <1>4, <1>6, <1>8, <1>9, <2>1 DEF Listing
<1> QED
  BY <1>5, <1>8, <1>10 DEF SyncCalm

LEMMA SyncApply == ASSUME SyncInv, NEW a \in Agents, Apply(a) PROVE NoRowIsEmpty' /\ SyncCalm(a)'
<1> DEFINE c == call[a]
           d == EndPart(c)
<1>1. TypeOK /\ c \in Calls /\ OnProgram("apply", c) /\ pc[a] = "apply"
  BY DEF Apply, SyncInv, TypeInv, TypeOK
<1>2. /\ Committed(a, AfterPart(c), d) /\ UNCHANGED <<parent, head, tree>>
      /\ \A f \in Files : rows'[f] = SyncedRow(c, f)
  BY DEF Apply, commits
<1>3. pc'[a] = AfterPart(c) /\ call'[a] = d
  BY <1>1, <1>2, WriteFrame
<1>4. NoRowIsEmpty'
  <2> SUFFICES ASSUME NEW f \in Files, rows'[f].state = "none" PROVE rows'[f] = NoRow
    BY DEF NoRowIsEmpty
  <2>1. rows'[f] = SyncedRow(c, f) /\ rows[f] \in Rows
    BY <1>1, <1>2 DEF TypeOK
  <2>2. SyncedRow(c, f).state = "none" => rows[f].state = "none"
    BY <2>1 DEF SyncedRow, MarkStale, Rows
  <2>3. rows[f].state = "none" => SyncedRow(c, f) = rows[f] /\ rows[f] = NoRow
    BY DEF SyncedRow, SyncInv, NoRowIsEmpty
  <2> QED
    BY <2>1, <2>2, <2>3
<1>5. SyncCalm(a) /\ (c.kind = "sync" => c.at = 1)
  BY <1>1, SyncParts123 DEF SyncInv
<1>6. /\ d.at = c.at + 1 /\ d.before = c.before /\ d.calm = c.calm /\ d.kind = c.kind
      /\ d.mode = c.mode /\ d.live = c.live /\ AfterPart(c) # "stubs"
  BY <1>1, EndPartFacts DEF Steps
<1>7. \A f \in Files : rows[f] \in Rows
  BY <1>1 DEF TypeOK
<1> HIDE DEF c, d
<1>8. /\ call'[a].at = c.at + 1 /\ call'[a].before = c.before /\ call'[a].calm = c.calm /\ call'[a].kind = c.kind
      /\ call'[a].mode = c.mode /\ call'[a].live = c.live
  BY <1>3, <1>6
<1>9. ToList(call[a])' = ToList(c) /\ ToMark(call[a])' = ToMark(c) /\ Target(call[a])' = Target(c)
  BY <1>2, <1>8 DEF Origin, Target, ToList, ToMark
<1>10. ASSUME c.calm, c.kind = "sync", NEW f \in Files PROVE RowSynced(call[a], f)'
  <2>1. Listing(c, "apply") /\ call'[a].at = 2
    BY <1>1, <1>5, <1>8, <1>10 DEF SyncCalm, c
  <2>2. rows'[f] = SyncedRow(c, f) /\ rows = c.before /\ c.present = ToList(c) /\ c.deleted = ToMark(c)
    BY <1>2, <2>1 DEF Listing
  <2>3. CASE rows[f].state = "none"
    <3>1. rows'[f] = rows[f] /\ rows[f] = NoRow /\ rows[f].state # "live"
      BY <2>2, <2>3 DEF SyncedRow, SyncInv, NoRowIsEmpty
    <3> QED
      BY <1>8, <2>1, <2>2, <3>1 DEF RowSynced
  <2>4. CASE rows[f].state # "none" /\ f \in ToList(c)
    <3>1. rows'[f].state = "live" /\ rows'[f].hash = c.hash[f]
      BY <2>2, <2>4 DEF SyncedRow
    <3>2. c.hash[f].of = Target(c)[f]
      BY <2>1, <2>2, <2>4 DEF Listing
    <3> QED
      BY <1>9, <2>4, <3>1, <3>2 DEF RowSynced
  <2>5. CASE rows[f].state # "none" /\ f \notin ToList(c)
    <3>1. CASE c.mode = "full" \/ f \in ToMark(c)
      <4>1. rows'[f].state # "live"
        BY <1>7, <2>2, <2>5, <3>1 DEF SyncedRow, MarkStale, Rows
      <4> QED
        BY <1>8, <1>9, <2>5, <3>1, <4>1 DEF RowSynced
    <3>2. CASE ~(c.mode = "full" \/ f \in ToMark(c))
      <4>1. rows'[f] = rows[f]
        BY <2>2, <2>5, <3>2 DEF SyncedRow
      <4> QED
        BY <1>8, <1>9, <2>2, <2>5, <3>2, <4>1 DEF RowSynced
    <3> QED
      BY <3>1, <3>2
  <2> QED
    BY <2>3, <2>4, <2>5
<1>11. ASSUME c.calm, c.kind = "sync" PROVE call'[a].live = ToList(call[a])' /\ call'[a].at = 2
  BY <1>1, <1>5, <1>8, <1>9, <1>11 DEF SyncCalm, Listing, c
<1>12. pc'[a] # "stubs"
  BY <1>3, <1>6
<1>13. SyncCalm(a)'
  BY <1>8, <1>10, <1>11, <1>12 DEF SyncCalm
<1> QED
  BY <1>4, <1>13

(* A step after the rows have been written that leaves them alone. *)
LEMMA SyncLater ==
    ASSUME SyncInv, NEW a \in Agents, pc[a] \notin {"idle", "done"}, UNCHANGED <<parent, head, tree, rows>>,
           call'[a].kind = call[a].kind, call'[a].mode = call[a].mode, call'[a].live = call[a].live,
           call'[a].before = call[a].before, call'[a].calm = call[a].calm,
           call[a].kind = "sync" => /\ call[a].at \in 2..3 /\ call'[a].at \in 2..3 /\ call'[a].at >= call[a].at
                                    /\ pc'[a] = "stubs" =>
                                         call'[a].missing = {f \in call[a].live : rows[f].state = "none"}
    PROVE  SyncCalm(a)'
<1> SUFFICES ASSUME call[a].kind = "sync", call[a].calm
             PROVE  SyncCalm(a)'
  BY DEF SyncCalm
<1>1. call[a].live = ToList(call[a]) /\ \A f \in Files : RowSynced(call[a], f)
  BY DEF SyncInv, SyncCalm
<1>2. ToList(call[a])' = ToList(call[a]) /\ ToMark(call[a])' = ToMark(call[a]) /\ Target(call[a])' = Target(call[a])
  BY DEF Origin, Target, ToList, ToMark
<1>3. ASSUME NEW f \in Files PROVE RowSynced(call[a], f)'
  <2>1. RowSynced(call[a], f) /\ call[a].at < 4 /\ call'[a].at < 4
    BY <1>1
  <2> QED
    BY <1>2, <2>1 DEF RowSynced
<1> QED
  BY <1>1, <1>2, <1>3 DEF SyncCalm

LEMMA SyncRules ==
    ASSUME SyncInv, NEW a \in Agents, Discover(a) \/ Parse(a) \/ Put(a)
    PROVE  SyncCalm(a)'
<1> DEFINE c == call[a]
<1>1. TypeOK /\ c \in Calls /\ OnProgram(pc[a], c) /\ pc[a] \in {"discover", "parse", "put"}
  BY DEF Discover, Parse, Put, SyncInv, TypeInv, TypeOK
<1>2. c.kind = "sync" => c.at = 2
  BY <1>1, SyncParts123
<1>3. UNCHANGED <<parent, head, tree, rows>>
  BY DEF Discover, Parse, Put, commits, index
<1>4. /\ call'[a].kind = c.kind /\ call'[a].mode = c.mode /\ call'[a].live = c.live
      /\ call'[a].before = c.before /\ call'[a].calm = c.calm
      /\ call'[a].at \in {c.at, c.at + 1} /\ pc'[a] # "stubs"
  BY <1>1, DiscoverFields, ParseFields, PutFields DEF SyncInv
<1>5. c.kind = "sync" => call[a].at \in 2..3 /\ call'[a].at \in 2..3 /\ call'[a].at >= call[a].at
  BY <1>2, <1>4
<1> HIDE DEF c
<1> QED
  BY <1>1, <1>3, <1>4, <1>5, SyncLater DEF c

LEMMA SyncInventory == ASSUME SyncInv, NEW a \in Agents, Inventory(a) PROVE SyncCalm(a)'
<1>1. call[a] \in Calls /\ OnProgram("inventory", call[a]) /\ pc[a] = "inventory"
  BY DEF Inventory, SyncInv, TypeInv, TypeOK
<1>2. call[a].kind = "sync" => call[a].at = 3
  BY <1>1, SyncParts123
<1>3. UNCHANGED <<parent, head, tree, rows>>
  BY DEF Inventory, commits, index
<1> QED
  BY <1>1, <1>2, <1>3, InventoryFields, SyncLater DEF SyncInv

LEMMA SyncStubs == ASSUME SyncInv, NEW a \in Agents, Stubs(a) PROVE NoRowIsEmpty' /\ SyncCalm(a)'
<1> DEFINE c == call[a]
           d == EndPart(c)
<1>1. TypeOK /\ c \in Calls /\ OnProgram("stubs", c) /\ pc[a] = "stubs"
  BY DEF Stubs, SyncInv, TypeInv, TypeOK
<1>2. /\ Committed(a, AfterPart(c), d) /\ UNCHANGED <<parent, head, tree>>
      /\ \A f \in Files : rows'[f] = IF f \in c.missing THEN [rows[f] EXCEPT !.state = "live"] ELSE rows[f]
  BY DEF Stubs, commits
<1>3. pc'[a] = AfterPart(c) /\ call'[a] = d
  BY <1>1, <1>2, WriteFrame
<1>4. \A f \in Files : rows[f] \in Rows
  BY <1>1 DEF TypeOK
<1>5. NoRowIsEmpty'
  BY <1>2, <1>4 DEF Rows, SyncInv, NoRowIsEmpty
<1>6. SyncCalm(a) /\ (c.kind = "sync" => c.at = 3)
  BY <1>1, SyncParts123 DEF SyncInv
<1>7. /\ d.at = c.at + 1 /\ d.before = c.before /\ d.calm = c.calm /\ d.kind = c.kind
      /\ d.mode = c.mode /\ d.live = c.live /\ AfterPart(c) # "stubs"
  BY <1>1, EndPartFacts DEF Steps
<1> HIDE DEF c, d
<1>8. /\ call'[a].at = c.at + 1 /\ call'[a].before = c.before /\ call'[a].calm = c.calm /\ call'[a].kind = c.kind
      /\ call'[a].mode = c.mode /\ call'[a].live = c.live /\ pc'[a] # "stubs"
  BY <1>3, <1>7
<1>9. ToList(call[a])' = ToList(c) /\ ToMark(call[a])' = ToMark(c) /\ Target(call[a])' = Target(c)
  BY <1>2, <1>8 DEF Origin, Target, ToList, ToMark
<1>10. ASSUME c.calm, c.kind = "sync"
       PROVE  /\ c.live = ToList(c) /\ c.missing = {f \in c.live : rows[f].state = "none"}
              /\ \A f \in Files : RowSynced(c, f)
  BY <1>1, <1>6, <1>10 DEF SyncCalm, c
<1>11. ASSUME c.calm, c.kind = "sync", NEW f \in Files PROVE RowSynced(call[a], f)'
  <2>1. RowSynced(c, f)
    BY <1>10, <1>11
  <2>2. CASE f \in ToList(c)
    <3>1. rows'[f].state = "live" /\ (rows'[f].hash = Null \/ rows'[f].hash.of = Target(c)[f])
      <4>1. CASE rows[f].state = "none"
        <5>1. rows[f] = NoRow /\ f \in c.missing
          BY <1>10, <1>11, <2>2, <4>1 DEF SyncInv, NoRowIsEmpty
        <5>2. rows'[f] = [NoRow EXCEPT !.state = "live"]
          BY <1>2, <5>1
        <5> QED
          BY <5>2 DEF NoRow
      <4>2. CASE rows[f].state # "none"
        <5>1. f \notin c.missing /\ rows[f] # NoRow
          BY <1>10, <1>11, <4>2 DEF NoRow
        <5> QED
          BY <1>2, <2>1, <2>2, <5>1 DEF RowSynced
      <4> QED
        BY <4>1, <4>2
    <3> QED
      BY <1>9, <2>2, <3>1 DEF RowSynced
  <2>3. CASE f \notin ToList(c)
    <3>1. rows'[f] = rows[f]
      BY <1>2, <1>10, <1>11, <2>3
    <3> QED
      BY <1>8, <1>9, <2>1, <2>3, <3>1 DEF RowSynced
  <2> QED
    BY <2>2, <2>3
<1>12. SyncCalm(a)'
  BY <1>6, <1>8, <1>9, <1>10, <1>11 DEF SyncCalm
<1> QED
  BY <1>5, <1>12

(* The other parts are not those of a sync. *)
LEMMA SyncNotListing ==
    ASSUME SyncInv, NEW a \in Agents, ListTree(a) \/ ListCached(a) \/ Seed(a)
    PROVE  SyncCalm(a)'
<1>1. call[a] \in Calls /\ OnProgram(pc[a], call[a]) /\ pc[a] \in {"tree", "cached", "seed"}
  BY DEF ListTree, ListCached, Seed, SyncInv, TypeInv, TypeOK
<1>2. call[a].kind # "sync"
  BY <1>1, SyncParts123
<1>3. call'[a].kind = call[a].kind
  BY ListingFields, SeedFields DEF SyncInv
<1> QED
  BY <1>2, <1>3 DEF SyncCalm

LEMMA SyncOwn ==
    ASSUME SyncInv, NEW a \in Agents, StartCall(a) \/ Step(a) \/ Return(a)
    PROVE  NoRowIsEmpty' /\ SyncCalm(a)'
<1>1. NoRowIsEmpty'
  <2>1. rows' = rows => NoRowIsEmpty'
    BY DEF SyncInv, NoRowIsEmpty
  <2>2. Put(a) \/ Seed(a) => rows' = rows
    BY DEF Put, Seed, index
  <2> QED
    BY <2>1, <2>2, ReadSteps, SyncApply, SyncStubs DEF Step
<1>2. CASE StartCall(a)
  BY <1>2, SyncStart, <1>1
<1>3. CASE Return(a)
  BY <1>1, <1>3, ReadFrame DEF Return, SyncCalm, SyncInv, TypeInv
<1>4. CASE ListFull(a) \/ ListChanged(a) \/ ListWorkingTree(a) \/ HashFiles(a)
  <2>1. ListChanged(a) => ListDiff(a, "changed", parent, head)
    BY DEF ListChanged
  <2>2. ListWorkingTree(a) => ListDiff(a, "working_tree", head, tree)
    BY DEF ListWorkingTree
  <2> QED
    BY <1>1, <1>4, <2>1, <2>2, SyncListFull, SyncListDiff, SyncHash
<1>5. CASE Apply(a) \/ Inventory(a) \/ Stubs(a)
  BY <1>1, <1>5, SyncApply, SyncInventory, SyncStubs
<1>6. CASE Discover(a) \/ Parse(a) \/ Put(a)
  BY <1>1, <1>6, SyncRules
<1>7. CASE ListTree(a) \/ ListCached(a) \/ Seed(a)
  BY <1>1, <1>7, SyncNotListing
<1> QED
  BY <1>2, <1>3, <1>4, <1>5, <1>6, <1>7 DEF Step

LEMMA SyncNext == SyncInv /\ [Next]_vars => SyncInv'
<1> SUFFICES ASSUME SyncInv, [Next]_vars PROVE SyncInv'
  OBVIOUS
<1>1. TypeInv /\ TypeInv'
  BY NextTypes DEF SyncInv
<1>2. CASE UNCHANGED vars
  <2>1. UNCHANGED <<parent, head, tree, rows, pc, call>>
    BY <1>2 DEF vars, commits, index
  <2>2. NoRowIsEmpty'
    BY <2>1 DEF SyncInv, NoRowIsEmpty
  <2>3. ASSUME NEW a \in Agents PROVE SyncCalm(a)'
    <3>1. /\ ToList(call[a])' = ToList(call[a]) /\ ToMark(call[a])' = ToMark(call[a])
          /\ Target(call[a])' = Target(call[a])
      BY <2>1 DEF Origin, Target, ToList, ToMark
    <3>2. \A f \in Files : RowSynced(call[a], f) => RowSynced(call[a], f)'
      BY <2>1, <3>1 DEF RowSynced
    <3>3. Listing(call[a], pc[a]) => Listing(call[a], pc[a])'
      BY <2>1, <3>1 DEF Listing
    <3> QED
      BY <2>1, <3>1, <3>2, <3>3 DEF SyncInv, SyncCalm
  <2> QED
    BY <1>1, <2>2, <2>3 DEF SyncInv
<1>3. CASE EditProject
  BY <1>1, <1>3, SyncEdit DEF SyncInv
<1>4. CASE \E a \in Agents : StartCall(a) \/ Step(a) \/ Return(a)
  <2>1. PICK a \in Agents : StartCall(a) \/ Step(a) \/ Return(a)
    BY <1>4
  <2>2. OthersCalm(a)
    BY <1>1, <2>1, StepFrame
  <2>3. NoRowIsEmpty' /\ SyncCalm(a)'
    BY <2>1, SyncOwn
  <2>4. \A b \in Agents : SyncCalm(b)'
    BY <2>2, <2>3, SyncOthers
  <2> QED
    BY <1>1, <2>3, <2>4 DEF SyncInv
<1> QED
  BY <1>2, <1>3, <1>4 DEF Next

(* While nobody disturbs a sync its list describes the difference that it is to apply, and after the  *)
(* transaction each row is what the list asks for (collectSyncPaths, ApplySync).                      *)
THEOREM SyncCorrect == Spec => []SyncInv
BY SyncInit, SyncNext, PTL DEF Spec

(* At the end of an undisturbed sync that inserts rows, each row is as its mode says. *)
LEMMA SyncDone ==
    ASSUME SyncInv, NEW a \in Agents, NEW mode, SyncCompleted(a, mode)
    PROVE  /\ call[a].mode = mode
           /\ \A f \in Files :
                 IF f \in ToList(call[a])
                 THEN rows[f].state = "live" /\ (rows[f].hash = Null \/ rows[f].hash.of = Target(call[a])[f])
                 ELSE IF mode = "full" \/ f \in ToMark(call[a])
                      THEN rows[f].state # "live"
                      ELSE rows[f] = call[a].before[f]
<1> DEFINE c == call[a]
<1>1. c \in Calls /\ pc[a] = "done" /\ c.calm /\ c.kind = "sync" /\ c.mode = mode /\ c.insert /\ SyncCalm(a)
  BY DEF SyncCompleted, Completed, SyncInv, TypeInv, TypeOK
<1>2. c.at = 4
  <2>1. /\ Program("sync", TRUE, c.parts) /\ c.at \in 1..Len(c.parts) + 1
        /\ IF c.at > Len(c.parts) THEN pc[a] = "done" ELSE pc[a] \in StepsOf(c.parts[c.at])
    BY <1>1 DEF OnProgram, SyncInv, TypeInv
  <2>2. Len(c.parts) = 3 /\ c.parts \in Seq(Parts)
    BY <2>1, ProgramFacts
  <2>3. ASSUME c.at \in 1..3 PROVE FALSE
    <3>1. c.parts[c.at] \in Parts /\ "done" \in StepsOf(c.parts[c.at])
      BY <1>1, <2>1, <2>2, <2>3
    <3> QED
      BY <3>1, StepsOfFacts
  <2> QED
    BY <2>1, <2>2, <2>3
<1>3. \A f \in Files : RowSynced(c, f)
  BY <1>1, <1>2 DEF SyncCalm
<1> QED
  BY <1>1, <1>2, <1>3 DEF RowSynced

(* A full sync that nobody disturbs brings the index up to date with HEAD, whatever was in it *)
(* (collectFullSyncPaths, ApplySync).                                                         *)
THEOREM FullSyncIsRepair == Spec => []FullSyncRepairs
<1>1. ASSUME SyncInv, NEW a \in Agents, SyncCompleted(a, "full") PROVE UpToDate(rows, head)
  <2>1. ToList(call[a]) = {f \in Files : head[f] # Absent} /\ Target(call[a]) = head
    BY <1>1, SyncDone DEF ToList, Target
  <2> QED
    BY <1>1, <2>1, SyncDone DEF UpToDate
<1>2. SyncInv => FullSyncRepairs
  BY <1>1 DEF FullSyncRepairs
<1> QED
  BY <1>2, SyncCorrect, PTL

(* A row that was up to date with one tree is so with another after a sync of their difference. *)
LEMMA DiffKeepsUp ==
    ASSUME SyncInv, NEW a \in Agents, NEW mode \in {"changed", "working_tree"}, SyncCompleted(a, mode),
           UpToDate(call[a].before, Origin(call[a]))
    PROVE  UpToDate(rows, Target(call[a]))
<1> DEFINE from == Origin(call[a])
           to == Target(call[a])
<1>1. call[a].mode = mode
  BY SyncDone
<1>2. ToList(call[a]) = Present(from, to) /\ ToMark(call[a]) = Deleted(from, to)
  BY <1>1 DEF ToList, ToMark
<1> HIDE DEF from, to
<1>3. ASSUME NEW f \in Files
      PROVE  IF to[f] = Absent THEN rows[f].state # "live"
             ELSE rows[f].state = "live" /\ (rows[f].hash = Null \/ rows[f].hash.of = to[f])
  <2>1. CASE to[f] # from[f]
    BY <1>2, <2>1, SyncDone DEF Present, Deleted, to
  <2>2. CASE to[f] = from[f]
    <3>1. f \notin ToList(call[a]) /\ f \notin ToMark(call[a])
      BY <1>2, <2>2 DEF Present, Deleted
    <3>2. rows[f] = call[a].before[f]
      BY <3>1, SyncDone
    <3> QED
      BY <2>2, <3>2 DEF UpToDate, from
  <2> QED
    BY <2>1, <2>2
<1> QED
  BY <1>3 DEF UpToDate, to

(* A sync of the last commit, undisturbed, takes an index that was up to date with HEAD~1 to HEAD *)
(* (collectChangedSyncPaths).                                                                     *)
THEOREM ChangedSyncFollows == Spec => []ChangedSyncKeepsUp
<1>1. ASSUME SyncInv, NEW a \in Agents, SyncCompleted(a, "changed"), UpToDate(call[a].before, parent)
      PROVE  UpToDate(rows, head)
  <2>1. Origin(call[a]) = parent /\ Target(call[a]) = head
    BY <1>1, SyncDone DEF Origin, Target
  <2> QED
    BY <1>1, <2>1, DiffKeepsUp
<1>2. SyncInv => ChangedSyncKeepsUp
  BY <1>1 DEF ChangedSyncKeepsUp
<1> QED
  BY <1>2, SyncCorrect, PTL

(* A sync of the working tree, undisturbed, takes an index that was up to date with HEAD to the *)
(* working tree (collectWorkingTreeSyncPaths).                                                  *)
THEOREM WorkingTreeSyncFollows == Spec => []WorkingTreeSyncKeepsUp
<1>1. ASSUME SyncInv, NEW a \in Agents, SyncCompleted(a, "working_tree"), UpToDate(call[a].before, head)
      PROVE  UpToDate(rows, tree)
  <2>1. Origin(call[a]) = head /\ Target(call[a]) = tree
    BY <1>1, SyncDone DEF Origin, Target
  <2> QED
    BY <1>1, <2>1, DiffKeepsUp
<1>2. SyncInv => WorkingTreeSyncKeepsUp
  BY <1>1 DEF WorkingTreeSyncKeepsUp
<1> QED
  BY <1>2, SyncCorrect, PTL

-------------------------------------------------------------------------------
(* The rules follow the ruleset files, in an undisturbed call.             *)

Exact(table, files, s) == \A r \in Rules : table[s][r] = IF r \in files[s].rules THEN "live" ELSE "none"

(* A rules part that has ended has left its files exact; the one that runs has done so up to the file  *)
(* it is at, and what it has found and parsed is still so.                                             *)
RulesCalm(a) == call[a].calm /\ pc[a] # "idle" =>
    /\ \A i \in 1..Len(call[a].parts) : i < call[a].at /\ call[a].parts[i] = "rules" =>
          /\ call[a].sources \in SourceLists
          /\ \A n \in 1..Len(call[a].sources) : Exact(rules, ruleFiles, call[a].sources[n])
    /\ pc[a] \in {"parse", "put"} =>
          /\ \A n \in 1..Len(call[a].sources) : n < call[a].nth => Exact(rules, ruleFiles, call[a].sources[n])
          /\ call[a].found = {s \in Sources : ruleFiles[s].state # "missing"}
    /\ pc[a] = "put" => call[a].parsed = ruleFiles[Source(call[a])].rules

FollowInv == TypeInv /\ \A a \in Agents : RulesCalm(a)

LEMMA FollowOthers ==
    ASSUME FollowInv, NEW a \in Agents, OthersCalm(a), NEW b \in Agents \ {a}
    PROVE  RulesCalm(b)'
<1>1. pc'[b] = pc[b] /\ call[b] \in Calls
  BY DEF OthersCalm, FollowInv, TypeInv, TypeOK
<1>2. CASE call'[b] = call[b] /\ UNCHANGED <<ruleFiles, rules>>
  <2>1. RulesCalm(b)
    BY DEF FollowInv
  <2>2. \A s : Exact(rules', ruleFiles', s) <=> Exact(rules, ruleFiles, s)
    BY <1>2 DEF Exact
  <2> QED
    BY <1>1, <1>2, <2>1, <2>2 DEF RulesCalm, Source
<1>3. CASE call'[b] = Quiet(call[b])
  BY <1>1, <1>3, QuietFacts DEF RulesCalm
<1> QED
  BY <1>2, <1>3 DEF OthersCalm

(* A step that has nothing to do with the rules. *)
LEMMA FollowAside ==
    ASSUME FollowInv, NEW a \in Agents, pc[a] # "idle", UNCHANGED <<ruleFiles, rules>>,
           call'[a].parts = call[a].parts, call'[a].calm = call[a].calm, call'[a].sources = call[a].sources,
           pc'[a] \notin {"parse", "put"},
           \/ call'[a].at = call[a].at
           \/ call'[a].at = call[a].at + 1 /\ call[a].parts[call[a].at] # "rules"
    PROVE  RulesCalm(a)'
<1> SUFFICES ASSUME call[a].calm, NEW i \in 1..Len(call[a].parts), i < call'[a].at, call[a].parts[i] = "rules"
             PROVE  /\ call[a].sources \in SourceLists
                    /\ \A n \in 1..Len(call[a].sources) : Exact(rules', ruleFiles', call[a].sources[n])
  BY DEF RulesCalm
<1>1. i < call[a].at
  <2>1. call[a].at \in Nat /\ i \in Nat
    <3>1. call[a] \in Calls
      BY DEF FollowInv, TypeInv, TypeOK
    <3> QED
      BY <3>1 DEF Calls
  <2> QED
    BY <2>1
<1>2. /\ call[a].sources \in SourceLists
      /\ \A n \in 1..Len(call[a].sources) : Exact(rules, ruleFiles, call[a].sources[n])
  BY <1>1 DEF FollowInv, RulesCalm
<1> QED
  BY <1>2 DEF Exact

LEMMA FollowInit == Init => FollowInv
<1> SUFFICES ASSUME Init PROVE FollowInv
  OBVIOUS
<1>1. \A a \in Agents : RulesCalm(a)
  BY DEF Init, RulesCalm
<1> QED
  BY <1>1, InitTypes DEF FollowInv

LEMMA FollowStart == ASSUME FollowInv, NEW a \in Agents, StartCall(a) PROVE RulesCalm(a)'
<1>1. PICK kind, insert, parts :
        /\ kind \in {"sync", "health", "init"} /\ insert \in BOOLEAN
        /\ Program(kind, insert, parts) /\ Start(a, kind, parts, insert)
  BY HealthProgram DEF StartCall, StartSync, StartHealthFix, StartInit, Program
<1> DEFINE d == [NoCall EXCEPT !.kind = kind, !.parts = parts, !.at = 1, !.insert = insert,
                               !.before = rows, !.calm = TRUE]
<1>2. pc'[a] = FirstStep(Head(parts)) /\ call'[a] = d
  BY <1>1 DEF Start, FollowInv, TypeInv, TypeOK
<1>3. d.at = 1 /\ d.parts = parts
  BY DEF NoCall
<1>4. FirstStep(Head(parts)) \notin {"parse", "put"}
  <2>1. parts \in Seq(Parts) /\ Len(parts) > 0
    BY <1>1, ProgramFacts, ZenonT(60)
  <2>2. Head(parts) \in Parts
    BY <2>1
  <2> QED
    BY <2>2, StepsOfFacts
<1> HIDE DEF d
<1>5. call'[a].at = 1
  BY <1>2, <1>3
<1>6. ~\E i \in 1..Len(call'[a].parts) : i < call'[a].at
  BY <1>5
<1> QED
  BY <1>2, <1>4, <1>6 DEF RulesCalm

(* Of the parts, the sync of a `sync` and the listing of an `init` come first. *)
LEMMA FirstPart ==
    ASSUME NEW step, NEW c \in Calls, OnProgram(step, c), step \notin {"idle", "done"},
           \/ c.kind = "sync" /\ c.parts[c.at] = "sync"
           \/ c.parts[c.at] = "cached"
    PROVE  c.at = 1
<1>1. Program(c.kind, c.insert, c.parts) /\ c.insert \in BOOLEAN
  BY DEF OnProgram, Calls
<1>2. c.at \in 1..Len(c.parts) /\ c.kind \in {"sync", "health", "init"}
  BY <1>1, PartOfStep, ProgramFacts
<1>3. CASE c.kind = "sync"
  <2>1. /\ Len(c.parts) = IF c.insert THEN 3 ELSE 2
        /\ c.parts[1] = "sync" /\ c.parts[2] = "rules" /\ (c.insert => c.parts[3] = "index")
    BY <1>1, <1>3, ProgramFacts
  <2> QED
    BY <1>1, <1>2, <2>1
<1>4. CASE c.kind = "init"
  <2>1. Len(c.parts) = 3 /\ c.parts[1] = "cached" /\ c.parts[2] = "rules" /\ c.parts[3] = "index"
    BY <1>1, <1>4, ProgramFacts
  <2> QED
    BY <1>2, <1>4, <2>1
<1>5. CASE c.kind = "health"
  BY <1>1, <1>2, <1>5, ProgramFacts
<1> QED
  BY <1>2, <1>3, <1>4, <1>5

(* After the first part, no rules part has ended. *)
LEMMA FollowFirst ==
    ASSUME FollowInv, NEW a \in Agents, call[a].at = 1, call'[a].at = 2, call'[a].parts = call[a].parts,
           call[a].parts[1] # "rules", pc'[a] \notin {"parse", "put"}
    PROVE  RulesCalm(a)'
BY DEF RulesCalm

LEMMA FollowApply == ASSUME FollowInv, NEW a \in Agents, Apply(a) PROVE RulesCalm(a)'
<1> DEFINE c == call[a]
<1>1. TypeInv /\ TypeOK /\ c \in Calls /\ OnProgram("apply", c) /\ pc[a] = "apply"
  BY DEF Apply, FollowInv, TypeInv, TypeOK
<1>2. c.parts[c.at] = "sync" /\ ruleFiles' = ruleFiles
  BY <1>1, PartOfStep DEF Apply
<1>3. CASE c.mode = "full"
  <2>1. c.at = 1
    BY <1>1, <1>2, <1>3, FirstPart DEF OnProgram
  <2>2. call'[a].at = 2
    BY <1>1, <2>1, EndFields
  <2> QED
    BY <1>1, <1>2, <2>1, <2>2, EndFields, FollowFirst
<1>4. CASE c.mode # "full"
  <2>1. rules' = rules
    BY <1>1, <1>4 DEF Apply, TypeOK
  <2> QED
    BY <1>1, <1>2, <2>1, EndFields, FollowAside
<1> QED
  BY <1>3, <1>4

LEMMA FollowSeed == ASSUME FollowInv, NEW a \in Agents, Seed(a) PROVE RulesCalm(a)'
<1>1. call[a] \in Calls /\ OnProgram("seed", call[a]) /\ pc[a] = "seed"
  BY DEF Seed, FollowInv, TypeInv, TypeOK
<1>2. call[a].parts[call[a].at] = "cached"
  BY <1>1, PartOfStep
<1>3. call[a].at = 1
  BY <1>1, <1>2, FirstPart
<1>4. call'[a].at = 2
  BY <1>3, SeedFields DEF FollowInv
<1> QED
  BY <1>2, <1>3, <1>4, SeedFields, FollowFirst DEF FollowInv

LEMMA FollowListing ==
    ASSUME FollowInv, NEW a \in Agents,
           \/ ListFull(a) \/ ListChanged(a) \/ ListWorkingTree(a) \/ HashFiles(a)
           \/ ListTree(a) \/ ListCached(a) \/ Inventory(a) \/ Stubs(a)
    PROVE  RulesCalm(a)'
<1>1. TypeInv /\ call[a] \in Calls /\ OnProgram(pc[a], call[a])
  BY DEF FollowInv, TypeInv, TypeOK
<1>2. UNCHANGED <<ruleFiles, rules>>
  BY ReadSteps DEF Stubs
<1>3. CASE ListFull(a) \/ ListChanged(a) \/ ListWorkingTree(a) \/ HashFiles(a)
  BY <1>1, <1>2, <1>3, ListFields, FollowAside
<1>4. CASE ListTree(a)
  <2>1. pc[a] = "tree" /\ call[a].parts[call[a].at] # "rules"
    BY <1>1, <1>4, PartOfStep DEF ListTree
  <2> QED
    BY <1>1, <1>2, <1>4, <2>1, ListingFields, FollowAside
<1>5. CASE ListCached(a)
  BY <1>1, <1>2, <1>5, ListingFields, FollowAside
<1>6. CASE Inventory(a)
  BY <1>1, <1>2, <1>6, InventoryFields, FollowAside
<1>7. CASE Stubs(a)
  <2>1. pc[a] = "stubs" /\ call[a].parts[call[a].at] # "rules"
    BY <1>1, <1>7, PartOfStep DEF Stubs
  <2> QED
    BY <1>1, <1>2, <1>7, <2>1, EndFields, FollowAside
<1> QED
  BY <1>3, <1>4, <1>5, <1>6, <1>7

LEMMA FollowDiscover == ASSUME FollowInv, NEW a \in Agents, Discover(a) PROVE RulesCalm(a)'
<1>1. TypeInv /\ call[a] \in Calls /\ pc[a] = "discover" /\ RulesCalm(a)
  BY DEF Discover, FollowInv, TypeInv, TypeOK
<1>2. UNCHANGED <<ruleFiles, rules>>
  BY ReadSteps
<1>3. \A s : Exact(rules', ruleFiles', s) <=> Exact(rules, ruleFiles, s)
  BY <1>2 DEF Exact
<1>4. ASSUME call[a].calm, NEW i \in 1..Len(call[a].parts), i < call[a].at, call[a].parts[i] = "rules"
      PROVE  call'[a].sources = call[a].sources /\ \A n \in 1..Len(call[a].sources) : Exact(rules, ruleFiles, call[a].sources[n])
  <2>1. /\ call[a].sources \in SourceLists
        /\ \A n \in 1..Len(call[a].sources) : Exact(rules, ruleFiles, call[a].sources[n])
    BY <1>1, <1>4 DEF RulesCalm
  <2>2. SourcesOf(call[a]) = {call[a].sources}
    BY <2>1, SourceListFacts DEF SourcesOf
  <2> QED
    BY <1>1, <2>1, <2>2, DiscoverFields
<1>5. ASSUME call[a].calm, NEW i \in 1..Len(call'[a].parts), i < call'[a].at, call'[a].parts[i] = "rules"
      PROVE  call'[a].sources \in SourceLists /\ \A n \in 1..Len(call'[a].sources) : Exact(rules', ruleFiles', call'[a].sources[n])
  BY <1>1, <1>3, <1>4, <1>5, DiscoverFields
<1>6. \A n \in 1..Len(call'[a].sources) : ~(n < call'[a].nth)
  BY <1>1, DiscoverFields
<1>7. call'[a].found = {s \in Sources : ruleFiles'[s].state # "missing"}
  BY <1>1, <1>2, DiscoverFields
<1>8. call'[a].calm = call[a].calm /\ pc'[a] = "parse"
  BY <1>1, DiscoverFields
<1> QED
  BY <1>5, <1>6, <1>7, <1>8 DEF RulesCalm

LEMMA FollowParse == ASSUME FollowInv, NEW a \in Agents, Parse(a) PROVE RulesCalm(a)'
<1> DEFINE s == Source(call[a])
<1>1. TypeInv /\ TypeOK /\ call[a] \in Calls /\ OnProgram("parse", call[a]) /\ pc[a] = "parse" /\ RulesCalm(a)
  BY DEF Parse, FollowInv, TypeInv, TypeOK
<1>2. UNCHANGED <<ruleFiles, rules>>
  BY ReadSteps
<1>3. \A t : Exact(rules', ruleFiles', t) <=> Exact(rules, ruleFiles, t)
  BY <1>2 DEF Exact
<1>4. s \in Sources /\ Source(call'[a]) = s
  BY <1>1, SourceListFacts, ParseFields DEF OnProgram, Source
<1>5. ASSUME call[a].calm PROVE call'[a].parsed = ruleFiles[s].rules
  <2>1. s \notin call[a].found => ruleFiles[s].state = "missing"
    BY <1>1, <1>4, <1>5 DEF RulesCalm
  <2>2. ruleFiles[s] \in RuleFiles
    BY <1>1, <1>4 DEF TypeOK
  <2>3. s \notin call[a].found => ruleFiles[s].rules = {}
    BY <2>1, <2>2, RuleFileFacts
  <2> QED
    BY <1>1, <2>3, ParseFields
<1>6. /\ call'[a].parts = call[a].parts /\ call'[a].calm = call[a].calm /\ call'[a].at = call[a].at
      /\ call'[a].sources = call[a].sources /\ call'[a].nth = call[a].nth /\ call'[a].found = call[a].found
      /\ pc'[a] = "put"
  BY <1>1, ParseFields
<1>7. ASSUME call[a].calm
      PROVE  /\ \A i \in 1..Len(call[a].parts) : i < call[a].at /\ call[a].parts[i] = "rules" =>
                   /\ call[a].sources \in SourceLists
                   /\ \A n \in 1..Len(call[a].sources) : Exact(rules, ruleFiles, call[a].sources[n])
             /\ \A n \in 1..Len(call[a].sources) : n < call[a].nth => Exact(rules, ruleFiles, call[a].sources[n])
             /\ call[a].found = {t \in Sources : ruleFiles[t].state # "missing"}
  BY <1>1, <1>7 DEF RulesCalm
<1>8. call[a].calm => /\ call'[a].parsed = ruleFiles'[Source(call'[a])].rules
                      /\ call'[a].found = {t \in Sources : ruleFiles'[t].state # "missing"}
  BY <1>2, <1>4, <1>5, <1>6, <1>7
<1> QED
  BY <1>3, <1>6, <1>7, <1>8 DEF RulesCalm, Source

LEMMA FollowPut == ASSUME FollowInv, NEW a \in Agents, Put(a) PROVE RulesCalm(a)'
<1> DEFINE c == call[a]
           t == Source(c)
<1>1. TypeInv /\ TypeOK /\ c \in Calls /\ OnProgram("put", c) /\ pc[a] = "put" /\ RulesCalm(a)
  BY DEF Put, FollowInv, TypeInv, TypeOK
<1>2. ruleFiles' = ruleFiles /\ rules' = [rules EXCEPT ![t] = PutRules(t, c.parsed)]
  BY DEF Put
<1>3. c.sources \in SourceLists /\ c.nth \in 1..Len(c.sources) /\ t = c.sources[c.nth] /\ t \in Sources
  BY <1>1, SourceListFacts DEF OnProgram, Source
<1> SUFFICES ASSUME c.calm PROVE RulesCalm(a)'
  BY <1>1, PutFields DEF RulesCalm
<1>4. /\ \A i \in 1..Len(c.parts) : i < c.at /\ c.parts[i] = "rules" =>
            \A n \in 1..Len(c.sources) : Exact(rules, ruleFiles, c.sources[n])
      /\ \A n \in 1..Len(c.sources) : n < c.nth => Exact(rules, ruleFiles, c.sources[n])
      /\ c.found = {s \in Sources : ruleFiles[s].state # "missing"}
      /\ c.parsed = ruleFiles[t].rules
  BY <1>1 DEF RulesCalm
<1>5. Exact(rules', ruleFiles', t)
  BY <1>1, <1>2, <1>3, <1>4 DEF Exact, PutRules, Upserted, TypeOK
<1>6. \A s \in Sources : Exact(rules, ruleFiles, s) => Exact(rules', ruleFiles', s)
  <2> TAKE s \in Sources
  <2>1. CASE s = t
    BY <1>5, <2>1
  <2>2. CASE s # t
    BY <1>1, <1>2, <2>2 DEF Exact, TypeOK
  <2> QED
    BY <2>1, <2>2
<1>7. \A n \in 1..Len(c.sources) : c.sources[n] \in Sources
  BY <1>3, SourceListFacts
<1>8. \A n \in 1..Len(c.sources) : n <= c.nth => Exact(rules', ruleFiles', c.sources[n])
  <2> TAKE n \in 1..Len(c.sources)
  <2>1. CASE n = c.nth
    BY <1>3, <1>5, <2>1
  <2>2. CASE n < c.nth
    BY <1>4, <1>6, <1>7, <2>2
  <2> QED
    BY <1>3, <2>1, <2>2, SourceListFacts
<1>9. \A i \in 1..Len(c.parts) : i < c.at /\ c.parts[i] = "rules" =>
        \A n \in 1..Len(c.sources) : Exact(rules', ruleFiles', c.sources[n])
  BY <1>4, <1>6, <1>7
<1>10. call'[a].parts = c.parts /\ call'[a].sources = c.sources
  BY <1>1, PutFields
<1>11. CASE MoreSources(c)
  <2>1. call'[a].at = c.at /\ call'[a].nth = c.nth + 1 /\ call'[a].found = c.found /\ pc'[a] = "parse"
    BY <1>1, <1>11, PutFields
  <2>2. \A n \in 1..Len(c.sources) : n < c.nth + 1 => n <= c.nth
    BY <1>3
  <2>3. \A n \in 1..Len(c.sources) : n < call'[a].nth => Exact(rules', ruleFiles', c.sources[n])
    BY <1>8, <2>1, <2>2
  <2>4. call'[a].found = {s \in Sources : ruleFiles'[s].state # "missing"}
    BY <1>2, <1>4, <2>1
  <2> HIDE DEF c
  <2> QED
    BY <1>3, <1>9, <1>10, <2>1, <2>3, <2>4 DEF RulesCalm
<1>12. CASE ~MoreSources(c)
  <2>1. call'[a].at = c.at + 1 /\ pc'[a] \notin {"idle", "parse", "put"}
    BY <1>1, <1>12, PutFields
  <2>2. \A n \in 1..Len(c.sources) : Exact(rules', ruleFiles', c.sources[n])
    <3>1. \A n \in 1..Len(c.sources) : n <= c.nth
      <4>1. Len(c.sources) \in 1..2
        BY <1>3, SourceListFacts
      <4> QED
        BY <1>3, <1>12, <4>1 DEF MoreSources
    <3> QED
      BY <1>8, <3>1
  <2> HIDE DEF c
  <2> QED
    BY <1>3, <1>10, <2>1, <2>2 DEF RulesCalm
<1> QED
  BY <1>11, <1>12

LEMMA FollowEdit == ASSUME FollowInv, EditProject, NEW a \in Agents PROVE RulesCalm(a)'
<1>1. call' = Disturbed({})
  BY DEF EditProject, Edit, Commit, EditRules
<1>2. ~call'[a].calm
  BY <1>1, DisturbedFacts, QuietFacts DEF FollowInv, TypeInv, TypeOK
<1> QED
  BY <1>2 DEF RulesCalm

LEMMA FollowNext == FollowInv /\ [Next]_vars => FollowInv'
<1> SUFFICES ASSUME FollowInv, [Next]_vars PROVE FollowInv'
  OBVIOUS
<1>1. TypeInv /\ TypeInv'
  BY NextTypes DEF FollowInv
<1>2. CASE UNCHANGED vars
  <2>1. UNCHANGED <<ruleFiles, rules, pc, call>>
    BY <1>2 DEF vars, index
  <2>2. \A s : Exact(rules', ruleFiles', s) <=> Exact(rules, ruleFiles, s)
    BY <2>1 DEF Exact
  <2> QED
    BY <1>1, <2>1, <2>2 DEF FollowInv, RulesCalm, Source
<1>3. CASE EditProject
  BY <1>1, <1>3, FollowEdit DEF FollowInv
<1>4. CASE \E a \in Agents : StartCall(a) \/ Step(a) \/ Return(a)
  <2>1. PICK a \in Agents : StartCall(a) \/ Step(a) \/ Return(a)
    BY <1>4
  <2>2. OthersCalm(a)
    BY <1>1, <2>1, StepFrame
  <2>3. RulesCalm(a)'
    <3>1. CASE Return(a)
      BY <1>1, <3>1, ReadFrame DEF Return, RulesCalm, TypeInv
    <3> QED
      BY <2>1, <3>1, FollowStart, FollowListing, FollowApply, FollowSeed, FollowDiscover, FollowParse,
         FollowPut DEF Step
  <2>4. \A b \in Agents : RulesCalm(b)'
    BY <2>2, <2>3, FollowOthers
  <2> QED
    BY <1>1, <2>4 DEF FollowInv
<1> QED
  BY <1>2, <1>3, <1>4 DEF Next

(* An undisturbed call that syncs rulesets leaves the rules of each ruleset file it reads as they are  *)
(* in the file (syncCanonicalRulesets after ApplySync, healthFix).                                     *)
THEOREM RulesAreFollowed == Spec => []RulesFollowFiles
<1>1. ASSUME FollowInv, NEW a \in Agents, NEW i \in 1..Len(call[a].parts),
             pc[a] = "done", call[a].calm, call[a].parts[i] = "rules"
      PROVE  \A n \in 1..Len(call[a].sources) : Exact(rules, ruleFiles, call[a].sources[n])
  <2>1. i < call[a].at
    BY <1>1, DoneIsLast DEF FollowInv
  <2> QED
    BY <1>1, <2>1 DEF FollowInv, RulesCalm
<1>2. FollowInv => RulesFollowFiles
  BY <1>1 DEF RulesFollowFiles, Exact
<1> QED
  BY <1>2, FollowInit, FollowNext, PTL DEF Spec

-------------------------------------------------------------------------------
(* Each file of the tree gets a row, in an undisturbed call.               *)

AllListed(files, live) == \A f \in Files : files[f] # Absent => f \in live
Indexed(files, table) == \A f \in Files : files[f] # Absent => table[f].state # "none"

(* What the i-th part of a call, once it has ended, has left: the files listed, until they are indexed. *)
Settled(c, i, files, table) ==
    /\ c.parts[i] = "tree" => IF c.at = i + 1 THEN AllListed(files, c.live) ELSE Indexed(files, table)
    /\ c.parts[i] = "cached" => IF c.at <= 3 THEN AllListed(files, c.live) ELSE Indexed(files, table)

IndexCalm(a) == call[a].calm /\ pc[a] # "idle" =>
    /\ \A i \in 1..Len(call[a].parts) : i < call[a].at => Settled(call[a], i, tree, rows)
    /\ pc[a] = "seed" => AllListed(tree, call[a].live)
    /\ pc[a] = "stubs" => call[a].missing = {f \in call[a].live : rows[f].state = "none"}

IndexInv == TypeInv /\ \A a \in Agents : IndexCalm(a)

(* How the parts of a program follow one another. *)
LEMMA PartsOrder ==
    ASSUME NEW c \in Calls, NEW step, OnProgram(step, c), step \notin {"idle", "done"},
           NEW i \in 1..Len(c.parts), i < c.at
    PROVE  /\ c.at \in 1..Len(c.parts) /\ i \in Nat
           /\ c.parts[i] = "tree" /\ c.at = i + 1 => c.parts[c.at] = "index"
           /\ c.parts[i] = "cached" => /\ i = 1 /\ c.at \in 2..3
                                       /\ c.at = 2 => c.parts[c.at] = "rules"
                                       /\ c.at = 3 => c.parts[c.at] = "index"
<1>1. Program(c.kind, c.insert, c.parts) /\ c.insert \in BOOLEAN
  BY DEF OnProgram, Calls
<1>2. c.at \in 1..Len(c.parts) /\ c.kind \in {"sync", "health", "init"} /\ Len(c.parts) \in Nat /\ i \in Nat
  BY <1>1, PartOfStep, ProgramFacts
<1>3. CASE c.kind = "sync"
  <2>1. /\ Len(c.parts) = IF c.insert THEN 3 ELSE 2
        /\ c.parts[1] = "sync" /\ c.parts[2] = "rules" /\ (c.insert => c.parts[3] = "index")
    BY <1>1, <1>3, ProgramFacts, ZenonT(60)
  <2>2. c.parts[i] \notin {"tree", "cached"}
    BY <2>1
  <2> QED
    BY <1>2, <2>2
<1>4. CASE c.kind = "init"
  <2>1. Len(c.parts) = 3 /\ c.parts[1] = "cached" /\ c.parts[2] = "rules" /\ c.parts[3] = "index"
    <3>1. c.parts = InitParts
      BY <1>1, <1>4 DEF Program
    <3> QED
      BY <3>1 DEF InitParts
  <2>2. i \in 1..2 /\ c.at \in 2..3
    BY <1>2, <2>1
  <2> QED
    BY <1>2, <2>1, <2>2
<1>5. CASE c.kind = "health"
  BY <1>1, <1>2, <1>5, ProgramFacts DEF IndexFollows
<1> QED
  BY <1>2, <1>3, <1>4, <1>5

LEMMA IndexOthers ==
    ASSUME IndexInv, NEW a \in Agents, OthersCalm(a), NEW b \in Agents \ {a}
    PROVE  IndexCalm(b)'
<1>1. pc'[b] = pc[b] /\ call[b] \in Calls
  BY DEF OthersCalm, IndexInv, TypeInv, TypeOK
<1>2. CASE call'[b] = call[b] /\ UNCHANGED <<tree, rows>>
  BY <1>1, <1>2 DEF IndexInv, IndexCalm
<1>3. CASE call'[b] = Quiet(call[b])
  BY <1>1, <1>3, QuietFacts DEF IndexCalm
<1> QED
  BY <1>2, <1>3 DEF OthersCalm

(* Rows are never taken out. *)
LEMMA RowsStay ==
    ASSUME TypeInv, NEW a \in Agents, StartCall(a) \/ Step(a) \/ Return(a)
    PROVE  tree' = tree /\ \A f \in Files : rows[f].state # "none" => rows'[f].state # "none"
<1>1. CASE Apply(a)
  <2>1. tree' = tree /\ \A f \in Files : rows'[f] = SyncedRow(call[a], f) /\ rows[f] \in Rows
    BY <1>1 DEF Apply, TypeInv, TypeOK
  <2>2. ASSUME NEW f \in Files, rows[f].state # "none" PROVE SyncedRow(call[a], f).state # "none"
    <3>1. CASE f \in call[a].present
      BY <2>2, <3>1 DEF SyncedRow
    <3>2. CASE f \notin call[a].present
      <4>1. SyncedRow(call[a], f) \in {rows[f], MarkStale(rows[f])}
        BY <2>2, <3>2 DEF SyncedRow
      <4>2. MarkStale(rows[f]).state # "none"
        BY <2>1, <2>2 DEF MarkStale, Rows
      <4> QED
        BY <2>2, <4>1, <4>2
    <3> QED
      BY <3>1, <3>2
  <2> QED
    BY <2>1, <2>2
<1>2. CASE Stubs(a)
  <2>1. /\ tree' = tree
        /\ \A f \in Files : rows[f] \in Rows /\
              rows'[f] = IF f \in call[a].missing THEN [rows[f] EXCEPT !.state = "live"] ELSE rows[f]
    BY <1>2 DEF Stubs, TypeInv, TypeOK
  <2> QED
    BY <2>1 DEF Rows
<1>3. CASE Put(a) \/ Seed(a)
  BY <1>3 DEF Put, Seed, index
<1> QED
  BY <1>1, <1>2, <1>3, ReadSteps DEF Step

(* A step in a part that neither lists nor indexes what is waiting to be indexed. *)
LEMMA IndexAside ==
    ASSUME IndexInv, NEW a \in Agents, pc[a] \notin {"idle", "done"},
           tree' = tree, \A f \in Files : rows[f].state # "none" => rows'[f].state # "none",
           call'[a].parts = call[a].parts, call'[a].calm = call[a].calm,
           pc'[a] \notin {"seed", "stubs"},
           call[a].parts[call[a].at] \in {"sync", "rules"},
           call[a].parts[call[a].at] = "rules" => call'[a].live = call[a].live,
           call'[a].at \in {call[a].at, call[a].at + 1}
    PROVE  IndexCalm(a)'
<1> SUFFICES ASSUME call[a].calm, NEW i \in 1..Len(call[a].parts), i < call'[a].at
             PROVE  Settled(call'[a], i, tree', rows')
  BY DEF IndexCalm
<1>1. call[a] \in Calls /\ OnProgram(pc[a], call[a]) /\ call[a].at \in Nat /\ i \in Nat
  <2>1. call[a] \in Calls /\ OnProgram(pc[a], call[a])
    BY DEF IndexInv, TypeInv, TypeOK
  <2> QED
    BY <2>1 DEF Calls
<1>2. CASE i < call[a].at
  <2>1. Settled(call[a], i, tree, rows)
    BY <1>2 DEF IndexInv, IndexCalm
  <2>2. CASE call[a].parts[i] = "tree"
    <3>1. call[a].at # i + 1 /\ call'[a].at # i + 1
      BY <1>1, <1>2, <2>2, PartsOrder
    <3>2. Indexed(tree, rows)
      BY <2>1, <2>2, <3>1 DEF Settled
    <3> QED
      BY <2>2, <3>1, <3>2 DEF Settled, Indexed
  <2>3. CASE call[a].parts[i] = "cached"
    <3>1. call[a].at = 2 /\ call[a].parts[call[a].at] = "rules"
      BY <1>1, <1>2, <2>3, PartsOrder
    <3>2. AllListed(tree, call[a].live) /\ call'[a].live = call[a].live /\ call'[a].at <= 3
      BY <2>1, <2>3, <3>1 DEF Settled
    <3> QED
      BY <2>3, <3>2 DEF Settled
  <2>4. CASE call[a].parts[i] \notin {"tree", "cached"}
    BY <2>4 DEF Settled
  <2> QED
    BY <2>2, <2>3, <2>4
<1>3. CASE i = call[a].at
  BY <1>3 DEF Settled
<1> QED
  BY <1>1, <1>2, <1>3

LEMMA IndexSyncAndRules ==
    ASSUME IndexInv, NEW a \in Agents,
           \/ ListFull(a) \/ ListChanged(a) \/ ListWorkingTree(a) \/ HashFiles(a) \/ Apply(a)
           \/ Discover(a) \/ Parse(a) \/ Put(a)
    PROVE  IndexCalm(a)'
<1>1. TypeInv /\ call[a] \in Calls /\ OnProgram(pc[a], call[a])
  BY DEF IndexInv, TypeInv, TypeOK
<1>2. tree' = tree /\ \A f \in Files : rows[f].state # "none" => rows'[f].state # "none"
  BY <1>1, RowsStay DEF Step
<1>3. CASE ListFull(a) \/ ListChanged(a) \/ ListWorkingTree(a) \/ HashFiles(a)
  <2>1. pc[a] \in {"list", "hash"}
    BY <1>1, <1>3, ListFields
  <2>2. call[a].parts[call[a].at] = "sync"
    BY <1>1, <2>1, PartOfStep
  <2> QED
    BY <1>1, <1>2, <1>3, <2>1, <2>2, ListFields, IndexAside
<1>4. CASE Apply(a)
  <2>1. pc[a] = "apply"
    BY <1>4 DEF Apply
  <2>2. call[a].parts[call[a].at] = "sync"
    BY <1>1, <2>1, PartOfStep
  <2> QED
    BY <1>1, <1>2, <1>4, <2>1, <2>2, EndFields, IndexAside
<1>5. CASE Discover(a) \/ Parse(a) \/ Put(a)
  <2>1. pc[a] \in {"discover", "parse", "put"}
    BY <1>5 DEF Discover, Parse, Put
  <2>2. call[a].parts[call[a].at] = "rules"
    BY <1>1, <2>1, PartOfStep
  <2>3. /\ call'[a].parts = call[a].parts /\ call'[a].calm = call[a].calm /\ call'[a].live = call[a].live
        /\ call'[a].at \in {call[a].at, call[a].at + 1} /\ pc'[a] \notin {"seed", "stubs"}
    BY <1>1, <1>5, DiscoverFields, ParseFields, PutFields
  <2> QED
    BY <1>2, <2>1, <2>2, <2>3, IndexAside
<1> QED
  BY <1>3, <1>4, <1>5

LEMMA IndexListTree == ASSUME IndexInv, NEW a \in Agents, ListTree(a) PROVE IndexCalm(a)'
<1>1. TypeInv /\ call[a] \in Calls /\ OnProgram(pc[a], call[a]) /\ pc[a] = "tree"
  BY DEF IndexInv, TypeInv, TypeOK, ListTree
<1>2. call[a].parts[call[a].at] = "tree" /\ call[a].at \in Nat
  BY <1>1, PartOfStep DEF Calls
<1>3. UNCHANGED <<tree, rows>>
  BY ReadSteps
<1>4. /\ call'[a].parts = call[a].parts /\ call'[a].calm = call[a].calm /\ call'[a].live = InventoryPaths(call[a])
      /\ call'[a].at = call[a].at + 1 /\ pc'[a] \notin {"seed", "stubs"}
  BY <1>1, ListingFields
<1>5. ASSUME call[a].calm, NEW i \in 1..Len(call[a].parts), i < call'[a].at
      PROVE  Settled(call'[a], i, tree', rows')
  <2>1. CASE i = call[a].at
    <3>1. AllListed(tree, call'[a].live)
      BY <1>4 DEF AllListed, InventoryPaths
    <3> QED
      BY <1>2, <1>3, <1>4, <2>1, <3>1 DEF Settled
  <2>2. CASE i < call[a].at
    <3>1. call[a].parts[i] # "cached" /\ (call[a].parts[i] = "tree" => call[a].at # i + 1)
      BY <1>1, <1>2, <2>2, PartsOrder
    <3>2. Settled(call[a], i, tree, rows)
      BY <1>1, <1>5, <2>2 DEF IndexInv, IndexCalm
    <3> QED
      BY <1>2, <1>3, <1>4, <2>2, <3>1, <3>2 DEF Settled
  <2> QED
    BY <1>2, <1>4, <1>5, <2>1, <2>2
<1> QED
  BY <1>4, <1>5 DEF IndexCalm

LEMMA IndexCached == ASSUME IndexInv, NEW a \in Agents, ListCached(a) PROVE IndexCalm(a)'
<1>1. TypeInv /\ call[a] \in Calls /\ OnProgram(pc[a], call[a]) /\ pc[a] = "cached"
  BY DEF IndexInv, TypeInv, TypeOK, ListCached
<1>2. call[a].at = 1
  BY <1>1, PartOfStep, FirstPart
<1>3. UNCHANGED <<tree, rows>>
  BY ReadSteps
<1>4. call'[a].live = InventoryPaths(call[a]) /\ call'[a].at = 1 /\ pc'[a] = "seed"
  BY <1>1, <1>2, ListingFields
<1>5. AllListed(tree', call'[a].live)
  BY <1>3, <1>4 DEF AllListed, InventoryPaths
<1>6. \A i \in 1..Len(call'[a].parts) : ~(i < call'[a].at)
  BY <1>4
<1> QED
  BY <1>4, <1>5, <1>6 DEF IndexCalm

LEMMA IndexSeed == ASSUME IndexInv, NEW a \in Agents, Seed(a) PROVE IndexCalm(a)'
<1>1. TypeInv /\ call[a] \in Calls /\ OnProgram(pc[a], call[a]) /\ pc[a] = "seed"
  BY DEF IndexInv, TypeInv, TypeOK, Seed
<1>2. call[a].parts[call[a].at] = "cached" /\ call[a].at = 1
  BY <1>1, PartOfStep, FirstPart
<1>3. UNCHANGED <<tree, rows>>
  BY DEF Seed, index
<1>4. /\ call'[a].parts = call[a].parts /\ call'[a].calm = call[a].calm /\ call'[a].live = call[a].live
      /\ call'[a].at = 2 /\ pc'[a] \notin {"seed", "stubs"}
  BY <1>1, <1>2, SeedFields
<1>5. ASSUME call[a].calm, NEW i \in 1..Len(call[a].parts), i < call'[a].at
      PROVE  Settled(call'[a], i, tree', rows')
  <2>1. i = 1
    BY <1>4, <1>5
  <2>2. AllListed(tree, call[a].live)
    BY <1>1, <1>5 DEF IndexInv, IndexCalm
  <2> QED
    BY <1>2, <1>3, <1>4, <2>1, <2>2 DEF Settled
<1> QED
  BY <1>4, <1>5 DEF IndexCalm

LEMMA IndexInventory == ASSUME IndexInv, NEW a \in Agents, Inventory(a) PROVE IndexCalm(a)'
<1>1. TypeInv /\ call[a] \in Calls /\ pc[a] = "inventory"
  BY DEF IndexInv, TypeInv, TypeOK, Inventory
<1>2. UNCHANGED <<tree, rows>>
  BY ReadSteps
<1>3. /\ call'[a].parts = call[a].parts /\ call'[a].calm = call[a].calm /\ call'[a].live = call[a].live
      /\ call'[a].at = call[a].at /\ pc'[a] = "stubs"
      /\ call'[a].missing = {f \in call[a].live : rows[f].state = "none"}
  BY <1>1, InventoryFields
<1>4. ASSUME call[a].calm, NEW i \in 1..Len(call[a].parts), i < call[a].at
      PROVE  Settled(call'[a], i, tree', rows')
  <2>1. Settled(call[a], i, tree, rows)
    BY <1>1, <1>4 DEF IndexInv, IndexCalm
  <2> QED
    BY <1>2, <1>3, <2>1 DEF Settled
<1> QED
  BY <1>2, <1>3, <1>4 DEF IndexCalm

LEMMA IndexStubs == ASSUME IndexInv, NEW a \in Agents, Stubs(a) PROVE IndexCalm(a)'
<1>1. TypeInv /\ call[a] \in Calls /\ OnProgram(pc[a], call[a]) /\ pc[a] = "stubs"
  BY DEF IndexInv, TypeInv, TypeOK, Stubs
<1>2. call[a].parts[call[a].at] = "index" /\ call[a].at \in Nat
  BY <1>1, PartOfStep DEF Calls
<1>3. tree' = tree /\ \A f \in Files : rows[f].state # "none" => rows'[f].state # "none"
  BY <1>1, RowsStay DEF Step
<1>4. /\ call'[a].parts = call[a].parts /\ call'[a].calm = call[a].calm /\ call'[a].live = call[a].live
      /\ call'[a].at = call[a].at + 1 /\ pc'[a] \notin {"seed", "stubs"}
  BY <1>1, EndFields
<1>5. ASSUME call[a].calm, AllListed(tree, call[a].live) PROVE Indexed(tree', rows')
  <2> SUFFICES ASSUME NEW f \in Files, tree[f] # Absent PROVE rows'[f].state # "none"
    BY <1>3 DEF Indexed
  <2>1. f \in call[a].live /\ call[a].missing = {g \in call[a].live : rows[g].state = "none"}
    BY <1>1, <1>5 DEF AllListed, IndexInv, IndexCalm
  <2>2. CASE rows[f].state # "none"
    BY <1>3, <2>2
  <2>3. CASE rows[f].state = "none"
    <3>1. f \in call[a].missing /\ rows[f] \in Rows
      BY <1>1, <2>1, <2>3 DEF TypeInv, TypeOK
    <3>2. rows'[f] = [rows[f] EXCEPT !.state = "live"]
      BY <3>1 DEF Stubs
    <3> QED
      BY <3>1, <3>2 DEF Rows
  <2> QED
    BY <2>2, <2>3
<1>6. ASSUME call[a].calm, NEW i \in 1..Len(call[a].parts), i < call'[a].at
      PROVE  Settled(call'[a], i, tree', rows')
  <2>1. CASE i = call[a].at
    BY <1>2, <1>4, <2>1 DEF Settled
  <2>2. CASE i < call[a].at
    <3>1. Settled(call[a], i, tree, rows) /\ i \in Nat
      BY <1>1, <1>6, <2>2 DEF IndexInv, IndexCalm
    <3>2. CASE call[a].parts[i] = "tree"
      <4>1. AllListed(tree, call[a].live) \/ Indexed(tree, rows)
        BY <3>1, <3>2 DEF Settled
      <4>2. Indexed(tree', rows')
        BY <1>3, <1>5, <1>6, <4>1 DEF Indexed
      <4>3. call'[a].at # i + 1
        BY <1>2, <1>4, <2>2, <3>1
      <4> QED
        BY <1>4, <3>2, <4>2, <4>3 DEF Settled
    <3>3. CASE call[a].parts[i] = "cached"
      <4>1. call[a].at = 3
        BY <1>1, <1>2, <2>2, <3>3, PartsOrder
      <4>2. AllListed(tree, call[a].live) /\ call'[a].at = 4
        BY <1>4, <3>1, <3>3, <4>1 DEF Settled
      <4>3. Indexed(tree', rows')
        BY <1>5, <1>6, <4>2
      <4> QED
        BY <1>4, <3>3, <4>2, <4>3 DEF Settled
    <3>4. CASE call[a].parts[i] \notin {"tree", "cached"}
      BY <1>4, <3>4 DEF Settled
    <3> QED
      BY <3>2, <3>3, <3>4
  <2> QED
    BY <1>2, <1>4, <1>6, <2>1, <2>2
<1> QED
  BY <1>4, <1>6 DEF IndexCalm

LEMMA IndexInit == Init => IndexInv
<1> SUFFICES ASSUME Init PROVE IndexInv
  OBVIOUS
<1>1. \A a \in Agents : IndexCalm(a)
  BY DEF Init, IndexCalm
<1> QED
  BY <1>1, InitTypes DEF IndexInv

LEMMA IndexStart == ASSUME IndexInv, NEW a \in Agents, StartCall(a) PROVE IndexCalm(a)'
<1>1. PICK kind, insert, parts :
        /\ kind \in {"sync", "health", "init"} /\ insert \in BOOLEAN
        /\ Program(kind, insert, parts) /\ Start(a, kind, parts, insert)
  BY HealthProgram DEF StartCall, StartSync, StartHealthFix, StartInit, Program
<1> DEFINE d == [NoCall EXCEPT !.kind = kind, !.parts = parts, !.at = 1, !.insert = insert,
                               !.before = rows, !.calm = TRUE]
<1>2. pc'[a] = FirstStep(Head(parts)) /\ call'[a] = d
  BY <1>1 DEF Start, IndexInv, TypeInv, TypeOK
<1>3. d.at = 1
  BY DEF NoCall
<1>4. FirstStep(Head(parts)) \notin {"seed", "stubs"}
  <2>1. parts \in Seq(Parts) /\ Len(parts) > 0
    BY <1>1, ProgramFacts, ZenonT(60)
  <2>2. Head(parts) \in Parts
    BY <2>1
  <2> QED
    BY <2>2, StepsOfFacts
<1> HIDE DEF d
<1>5. \A i \in 1..Len(call'[a].parts) : ~(i < call'[a].at)
  BY <1>2, <1>3
<1> QED
  BY <1>2, <1>4, <1>5 DEF IndexCalm

LEMMA IndexNext == IndexInv /\ [Next]_vars => IndexInv'
<1> SUFFICES ASSUME IndexInv, [Next]_vars PROVE IndexInv'
  OBVIOUS
<1>1. TypeInv /\ TypeInv'
  BY NextTypes DEF IndexInv
<1>2. CASE UNCHANGED vars
  <2>1. UNCHANGED <<tree, rows, pc, call>>
    BY <1>2 DEF vars, index
  <2> QED
    BY <1>1, <2>1 DEF IndexInv, IndexCalm
<1>3. CASE EditProject
  <2>1. call' = Disturbed({})
    BY <1>3 DEF EditProject, Edit, Commit, EditRules
  <2>2. \A a \in Agents : ~call'[a].calm
    BY <1>1, <2>1, DisturbedFacts, QuietFacts DEF TypeInv, TypeOK
  <2> QED
    BY <1>1, <2>2 DEF IndexInv, IndexCalm
<1>4. CASE \E a \in Agents : StartCall(a) \/ Step(a) \/ Return(a)
  <2>1. PICK a \in Agents : StartCall(a) \/ Step(a) \/ Return(a)
    BY <1>4
  <2>2. OthersCalm(a)
    BY <1>1, <2>1, StepFrame
  <2>3. IndexCalm(a)'
    <3>1. CASE Return(a)
      BY <1>1, <3>1, ReadFrame DEF Return, IndexCalm, TypeInv
    <3> QED
      BY <2>1, <3>1, IndexStart, IndexSyncAndRules, IndexListTree, IndexCached, IndexSeed, IndexInventory,
         IndexStubs DEF Step
  <2>4. \A b \in Agents : IndexCalm(b)'
    BY <2>2, <2>3, IndexOthers
  <2> QED
    BY <1>1, <2>4 DEF IndexInv
<1> QED
  BY <1>2, <1>3, <1>4 DEF Next

(* After `init`, or a health fix that indexes files, undisturbed, each file of the tree has a row        *)
(* (collectInventoryPaths, collectInitCandidatePaths, UpsertPointerStubs).                               *)
THEOREM FilesAreIndexed == Spec => []EveryFileIndexed
<1>1. ASSUME IndexInv, NEW a \in Agents, NEW i \in 1..Len(call[a].parts),
             pc[a] = "done", call[a].calm, call[a].parts[i] \in {"tree", "cached"}
      PROVE  Indexed(tree, rows)
  <2>1. /\ call[a].at = Len(call[a].parts) + 1 /\ i < call[a].at
        /\ call[a] \in Calls /\ OnProgram("done", call[a])
    BY <1>1, DoneIsLast DEF IndexInv, TypeInv, TypeOK
  <2>2. Settled(call[a], i, tree, rows)
    BY <1>1, <2>1 DEF IndexInv, IndexCalm
  <2>3. Program(call[a].kind, call[a].insert, call[a].parts) /\ call[a].insert \in BOOLEAN
    BY <2>1 DEF OnProgram, Calls
  <2>4. Len(call[a].parts) \in Nat
    BY <2>3, ProgramFacts
  <2>5. CASE call[a].kind = "health"
    <3>1. call[a].parts[i] = "tree" /\ i + 1 <= Len(call[a].parts)
      BY <1>1, <2>3, <2>4, <2>5, ProgramFacts DEF IndexFollows
    <3> QED
      BY <2>1, <2>2, <2>4, <3>1 DEF Settled
  <2>6. CASE call[a].kind = "init"
    <3>1. call[a].parts = InitParts
      BY <2>3, <2>6 DEF Program
    <3>2. Len(call[a].parts) = 3 /\ \A j \in 1..3 : call[a].parts[j] # "tree"
      BY <3>1 DEF InitParts
    <3> QED
      BY <1>1, <2>1, <2>2, <3>2 DEF Settled
  <2>7. CASE call[a].kind = "sync"
    <3>1. call[a].parts \in {<<"sync", "rules", "index">>, <<"sync", "rules">>}
      BY <2>3, <2>7 DEF Program, SyncParts
    <3>2. call[a].parts[i] \notin {"tree", "cached"}
      BY <3>1
    <3> QED
      BY <1>1, <3>2
  <2> QED
    BY <2>3, <2>5, <2>6, <2>7, ProgramFacts
<1>2. IndexInv => EveryFileIndexed
  BY <1>1 DEF EveryFileIndexed, Indexed
<1> QED
  BY <1>2, IndexInit, IndexNext, PTL DEF Spec

===============================================================================
