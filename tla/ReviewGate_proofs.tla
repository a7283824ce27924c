---------------------------- MODULE ReviewGate_proofs ----------------------------
(***************************************************************************)
(* Theorems about ReviewGate for any number of agents, files and contents, *)
(* any scope and any set of gates: what `done` accepts was reviewed, what  *)
(* is complete is backed by a passing attempt, and by how much concurrent  *)
(* reviews can exceed max_attempts.                                        *)
(***************************************************************************)
EXTENDS ReviewGate, TLAPS, FiniteSetTheorems, SequenceTheorems

-------------------------------------------------------------------------------
(* Lemmas about the list of attempts.                                      *)

(* A non-empty set of positions has a greatest one. *)
LEMMA MaxInSet ==
  ASSUME NEW n \in Nat, NEW I \in SUBSET (1..n), I # {}
  PROVE  Max(I) \in I /\ \A i \in I : i <= Max(I)
<1> DEFINE T == {n - i : i \in I}
<1>1. T \subseteq Nat /\ T # {}
  <2>1. PICK i \in I : TRUE
    OBVIOUS
  <2>2. n - i \in T
    BY <2>1
  <2>3. \A j \in I : n - j \in Nat
    OBVIOUS
  <2> QED BY <2>2, <2>3
<1>2. PICK m \in T : \A y \in T : <<y, m>> \notin OpToRel(<, Nat)
  BY <1>1, NatLessThanWellFounded, WFMin
<1>3. \A y \in T : m <= y
  <2> SUFFICES ASSUME NEW y \in T PROVE m <= y
    OBVIOUS
  <2> HIDE DEF T
  <2>0. y \in Nat /\ m \in Nat
    BY <1>1
  <2> SUFFICES ASSUME y < m PROVE FALSE
    BY <2>0
  <2>1. <<y, m>> \in Nat \X Nat /\ <<y, m>>[1] < <<y, m>>[2]
    BY <2>0
  <2>2. <<y, m>> \in OpToRel(<, Nat)
    BY <2>1 DEF OpToRel
  <2> QED BY <1>2, <2>2
<1>4. PICK x \in I : m = n - x
  OBVIOUS
<1>5. \A y \in I : x >= y
  <2> SUFFICES ASSUME NEW y \in I PROVE x >= y
    OBVIOUS
  <2>1. n - y \in T
    OBVIOUS
  <2> QED BY <2>1, <1>3, <1>4
<1>6. Max(I) \in I /\ \A y \in I : Max(I) >= y
  BY <1>5 DEF Max
<1> QED BY <1>6

(* The position LatestFor finds is one of an attempt on the fingerprint. *)
LEMMA LatestForPosition ==
  ASSUME NEW s \in Seq(Attempts), NEW f, LatestFor(s, f) # 0
  PROVE  LatestFor(s, f) \in DOMAIN s /\ s[LatestFor(s, f)].fp = f
<1> DEFINE I == {i \in 1..Len(s) : s[i].fp = f}
<1>1. LatestFor(s, f) = IF I # {} THEN Max(I) ELSE 0
  BY DEF LatestFor, SelectLastInSeq
<1>2. I # {}
  BY <1>1
<1>3. Max(I) \in I
  <2>1. Len(s) \in Nat /\ I \in SUBSET (1..Len(s))
    BY LenProperties
  <2> HIDE DEF I
  <2> QED BY <1>2, <2>1, MaxInSet
<1>4. LatestFor(s, f) \in I /\ DOMAIN s = 1..Len(s)
  BY <1>1, <1>2, <1>3, LenProperties
<1> HIDE DEF I
<1> QED BY <1>4 DEF I

(* It is the last of them, and 0 only when there is none. *)
LEMMA LatestForIsLast ==
  ASSUME NEW s \in Seq(Attempts), NEW f, NEW i \in DOMAIN s, s[i].fp = f
  PROVE  LatestFor(s, f) # 0 /\ i <= LatestFor(s, f)
<1> DEFINE I == {j \in 1..Len(s) : s[j].fp = f}
<1>1. i \in I /\ Len(s) \in Nat /\ I \in SUBSET (1..Len(s))
  BY LenProperties
<1>2. LatestFor(s, f) = Max(I)
  BY <1>1 DEF LatestFor, SelectLastInSeq
<1> HIDE DEF I
<1>3. Max(I) \in I /\ i <= Max(I)
  BY <1>1, MaxInSet
<1> QED BY <1>1, <1>2, <1>3

(* A passed attempt on the fingerprint is among those listed. *)
LEMMA PassedIsListed ==
  ASSUME NEW s \in Seq(Attempts), NEW f, LatestPassed(s, f)
  PROVE  \E x \in ToSet(s) : x.fp = f /\ x.passed
<1> DEFINE l == LatestFor(s, f)
<1>1. l \in DOMAIN s /\ s[l].fp = f /\ s[l].passed
  BY LatestForPosition DEF LatestPassed
<1> QED BY <1>1 DEF ToSet

(* completion.go:196-225: a gate that holds has a passing attempt, on the
   fingerprint at hand when the gate dedupes. *)
LEMMA HeldGateHasPass ==
  ASSUME NEW s \in Seq(Attempts), NEW f, GateHolds(s, f)
  PROVE  \E x \in ToSet(s) : x.passed /\ (gate.rerun => x.fp = f)
<1>1. CASE gate.rerun
  BY <1>1, PassedIsListed DEF GateHolds
<1>2. CASE ~gate.rerun
  <2>1. s # <<>> /\ Last(s).passed
    BY <1>2 DEF GateHolds
  <2>2. Len(s) \in 1..Len(s) /\ DOMAIN s = 1..Len(s)
    BY <2>1, LenProperties, EmptySeq
  <2> QED BY <1>2, <2>1, <2>2 DEF Last, ToSet
<1> QED BY <1>1, <1>2

(* What the library's InsertAt returns. *)
LEMMA InsertAtProperties ==
  ASSUME NEW S, NEW s \in Seq(S), NEW i \in 1..(Len(s) + 1), NEW e \in S
  PROVE  /\ InsertAt(s, i, e) \in Seq(S)
         /\ Len(InsertAt(s, i, e)) = Len(s) + 1
         /\ \A j \in 1..(Len(s) + 1) :
              InsertAt(s, i, e)[j] = IF j < i THEN s[j] ELSE IF j = i THEN e ELSE s[j - 1]
<1> DEFINE front == SubSeq(s, 1, i - 1)
           rear == SubSeq(s, i, Len(s))
           head == front \o <<e>>
<1>1. Len(s) \in Nat /\ \A j \in 1..Len(s) : s[j] \in S
  BY LenProperties, ElementOfSeq
<1>2. i \in Nat /\ i >= 1 /\ i <= Len(s) + 1
  BY <1>1
<1>3. /\ front \in Seq(S) /\ Len(front) = i - 1
      /\ \A j \in 1..(i - 1) : front[j] = s[j]
  <2>1. \A j \in 1..(i - 1) : s[j] \in S
    BY <1>1, <1>2
  <2>2. /\ front \in Seq(S)
        /\ Len(front) = IF 1 <= i - 1 THEN (i - 1) - 1 + 1 ELSE 0
        /\ \A j \in 1..((i - 1) - 1 + 1) : front[j] = s[1 + j - 1]
    BY <2>1, <1>2, SubSeqProperties
  <2>3. \A j \in 1..(i - 1) : 1 + j - 1 = j
    BY <1>2
  <2>4. (i - 1) - 1 + 1 = i - 1 /\ (~(1 <= i - 1) => i - 1 = 0)
    BY <1>2
  <2> HIDE DEF front
  <2> QED BY <2>2, <2>3, <2>4
<1>4. /\ rear \in Seq(S) /\ Len(rear) = Len(s) - i + 1
      /\ \A j \in 1..(Len(s) - i + 1) : rear[j] = s[i + j - 1]
  <2>1. \A j \in i..Len(s) : s[j] \in S
    BY <1>1, <1>2
  <2>2. /\ rear \in Seq(S)
        /\ Len(rear) = IF i <= Len(s) THEN Len(s) - i + 1 ELSE 0
        /\ \A j \in 1..(Len(s) - i + 1) : rear[j] = s[i + j - 1]
    BY <2>1, <1>1, <1>2, SubSeqProperties
  <2>3. ~(i <= Len(s)) => Len(s) - i + 1 = 0
    BY <1>1, <1>2
  <2> HIDE DEF rear
  <2> QED BY <2>2, <2>3
<1>5. /\ head \in Seq(S) /\ Len(head) = i
      /\ \A j \in 1..i : head[j] = IF j < i THEN s[j] ELSE e
  <2>1. <<e>> \in Seq(S) /\ Len(<<e>>) = 1 /\ <<e>>[1] = e
    OBVIOUS
  <2> HIDE DEF front
  <2>2. /\ head \in Seq(S) /\ Len(head) = Len(front) + 1
        /\ \A j \in 1..(Len(front) + 1) :
              head[j] = IF j <= Len(front) THEN front[j] ELSE <<e>>[j - Len(front)]
    BY <2>1, <1>3, ConcatProperties
  <2> HIDE DEF head
  <2>3. Len(front) + 1 = i
    BY <1>2, <1>3
  <2>4. ASSUME NEW j \in 1..i PROVE head[j] = IF j < i THEN s[j] ELSE e
    <3>1. CASE j < i
      BY <3>1, <2>2, <2>3, <1>2, <1>3
    <3>2. CASE j = i
      BY <3>2, <2>1, <2>2, <2>3, <1>2, <1>3
    <3> QED BY <3>1, <3>2, <1>2
  <2> QED BY <2>2, <2>3, <2>4
<1>6. InsertAt(s, i, e) = head \o rear
  BY DEF InsertAt
<1> HIDE DEF front, rear, head
<1>7. /\ head \o rear \in Seq(S) /\ Len(head \o rear) = Len(head) + Len(rear)
      /\ \A j \in 1..(Len(head) + Len(rear)) :
            (head \o rear)[j] = IF j <= Len(head) THEN head[j] ELSE rear[j - Len(head)]
  BY <1>4, <1>5, ConcatProperties
<1>8. Len(head) + Len(rear) = Len(s) + 1
  BY <1>1, <1>2, <1>4, <1>5
<1>9. ASSUME NEW j \in 1..(Len(s) + 1)
      PROVE  (head \o rear)[j] = IF j < i THEN s[j] ELSE IF j = i THEN e ELSE s[j - 1]
  <2>1. CASE j <= i
    BY <2>1, <1>1, <1>2, <1>5, <1>7, <1>8
  <2>2. CASE j > i
    <3>1. (head \o rear)[j] = rear[j - i]
      BY <2>2, <1>1, <1>2, <1>5, <1>7, <1>8
    <3>2. j - i \in 1..(Len(s) - i + 1) /\ i + (j - i) - 1 = j - 1
      BY <2>2, <1>1, <1>2
    <3>3. rear[j - i] = s[i + (j - i) - 1]
      BY <3>2, <1>4
    <3> QED BY <2>2, <3>1, <3>2, <3>3, <1>1, <1>2
  <2>3. j <= i \/ j > i
    BY <1>1, <1>2
  <2> QED BY <2>1, <2>2, <2>3
<1> QED BY <1>6, <1>7, <1>8, <1>9

(* The list ordered by finish time gains exactly the new attempt, and one place. *)
LEMMA InsertProperties ==
  ASSUME NEW s \in Seq(Attempts), NEW x \in Attempts
  PROVE  /\ InsertByFinish(s, x) \in Seq(Attempts)
         /\ Len(InsertByFinish(s, x)) = Len(s) + 1
         /\ ToSet(InsertByFinish(s, x)) = ToSet(s) \cup {x}
<1> DEFINE earlier == {i \in DOMAIN s : s[i].at <= x.at}
           k == Cardinality(earlier)
           all == InsertByFinish(s, x)
<1>1. Len(s) \in Nat /\ DOMAIN s = 1..Len(s)
  BY LenProperties
<1>2. k + 1 \in 1..(Len(s) + 1)
  <2>1. IsFiniteSet(1..Len(s)) /\ Cardinality(1..Len(s)) = Len(s)
    <3>1. 1 \in Int /\ Len(s) \in Int
      BY <1>1
    <3>2. /\ IsFiniteSet(1..Len(s))
          /\ Cardinality(1..Len(s)) = IF 1 > Len(s) THEN 0 ELSE Len(s) - 1 + 1
      BY <3>1, FS_Interval
    <3> QED BY <3>2, <1>1
  <2>2. earlier \in SUBSET (1..Len(s))
    BY <1>1
  <2>3. IsFiniteSet(earlier) /\ k <= Cardinality(1..Len(s))
    BY <2>1, <2>2, FS_Subset
  <2>4. k \in Nat
    BY <2>3, FS_CardinalityType
  <2> QED BY <2>1, <2>3, <2>4, <1>1
<1>3. all = InsertAt(s, k + 1, x)
  BY DEF InsertByFinish
<1> HIDE DEF k
<1>4. /\ all \in Seq(Attempts) /\ Len(all) = Len(s) + 1
      /\ \A j \in 1..(Len(s) + 1) :
            all[j] = IF j < k + 1 THEN s[j] ELSE IF j = k + 1 THEN x ELSE s[j - 1]
  BY <1>2, <1>3, InsertAtProperties, SMTT(30)
<1>5. DOMAIN all = 1..(Len(s) + 1)
  BY <1>4, LenProperties
<1> HIDE DEF all
<1>6. \A j \in DOMAIN all : all[j] = x \/ \E i \in DOMAIN s : all[j] = s[i]
  <2> SUFFICES ASSUME NEW j \in 1..(Len(s) + 1)
               PROVE  all[j] = x \/ \E i \in 1..Len(s) : all[j] = s[i]
    BY <1>1, <1>5
  <2>1. CASE j < k + 1
    BY <2>1, <1>1, <1>2, <1>4
  <2>2. CASE j = k + 1
    BY <2>2, <1>4
  <2>3. CASE j > k + 1
    <3>1. j - 1 \in 1..Len(s) /\ all[j] = s[j - 1]
      BY <2>3, <1>1, <1>2, <1>4
    <3> QED BY <3>1
  <2> QED BY <2>1, <2>2, <2>3, <1>1, <1>2
<1>7. k + 1 \in DOMAIN all /\ all[k + 1] = x
  BY <1>1, <1>2, <1>4, <1>5
<1>8. \A i \in DOMAIN s : \E j \in DOMAIN all : all[j] = s[i]
  <2> SUFFICES ASSUME NEW i \in 1..Len(s)
               PROVE  \E j \in 1..(Len(s) + 1) : all[j] = s[i]
    BY <1>1, <1>5
  <2>1. CASE i < k + 1
    BY <2>1, <1>1, <1>2, <1>4
  <2>2. CASE i >= k + 1
    <3>1. i + 1 \in 1..(Len(s) + 1) /\ all[i + 1] = s[(i + 1) - 1] /\ (i + 1) - 1 = i
      BY <2>2, <1>1, <1>2, <1>4
    <3> QED BY <3>1
  <2> QED BY <2>1, <2>2, <1>1, <1>2
<1>9. ToSet(all) = ToSet(s) \cup {x}
  BY <1>6, <1>7, <1>8 DEF ToSet
<1> QED BY <1>4, <1>9 DEF all

(* An attempt that finished last is the last of the list. *)
LEMMA InsertLast ==
  ASSUME NEW s \in Seq(Attempts), NEW x \in Attempts, \A i \in DOMAIN s : s[i].at <= x.at
  PROVE  /\ Len(InsertByFinish(s, x)) = Len(s) + 1
         /\ \A i \in DOMAIN s : InsertByFinish(s, x)[i] = s[i]
         /\ InsertByFinish(s, x)[Len(s) + 1] = x
<1>1. Len(s) \in Nat /\ DOMAIN s = 1..Len(s)
  BY LenProperties
<1>2. {i \in DOMAIN s : s[i].at <= x.at} = 1..Len(s)
  BY <1>1
<1>3. Cardinality(1..Len(s)) = Len(s)
  <2>1. 1 \in Int /\ Len(s) \in Int
    BY <1>1
  <2>2. Cardinality(1..Len(s)) = IF 1 > Len(s) THEN 0 ELSE Len(s) - 1 + 1
    BY <2>1, FS_Interval
  <2> QED BY <2>2, <1>1
<1>4. InsertByFinish(s, x) = InsertAt(s, Len(s) + 1, x)
  BY <1>2, <1>3 DEF InsertByFinish
<1>5. Len(s) + 1 \in 1..(Len(s) + 1)
  BY <1>1
<1>6. /\ Len(InsertAt(s, Len(s) + 1, x)) = Len(s) + 1
      /\ \A j \in 1..(Len(s) + 1) : InsertAt(s, Len(s) + 1, x)[j] =
            IF j < Len(s) + 1 THEN s[j] ELSE IF j = Len(s) + 1 THEN x ELSE s[j - 1]
  BY <1>5, InsertAtProperties
<1>7. \A j \in 1..Len(s) : j \in 1..(Len(s) + 1) /\ j < Len(s) + 1
  BY <1>1
<1>8. ~(Len(s) + 1 < Len(s) + 1)
  BY <1>1
<1> QED BY <1>1, <1>4, <1>5, <1>6, <1>7, <1>8

-------------------------------------------------------------------------------
(* Type correctness.                                                       *)

(* The scoped fingerprint is one of a set of files of the tree. *)
LEMMA FingerprintType == ASSUME TypeOK PROVE Fingerprint \in Fingerprints
<1>1. Scope \cup discovered \in SUBSET Paths
  BY GateAssumption DEF TypeOK
<1>2. \A p \in Scope \cup discovered : tree[p] \in Contents
  BY <1>1 DEF TypeOK
<1>3. Fingerprint \in [Scope \cup discovered -> Contents]
  BY <1>2 DEF Fingerprint
<1> QED BY <1>1, <1>3 DEF Fingerprints

(* What Decide returns is a status to store, or "run". *)
LEMMA DecideValues ==
  ASSUME NEW s, NEW f
  PROVE  Decide(s, f) \in {"run", "complete", "blocked"}
  BY DEF Decide

(* The initial states are well typed. *)
LEMMA TypeInit == ASSUME Init PROVE TypeOK
<1>1. NoFingerprint \in Fingerprints
  <2>1. NoFingerprint \in [{} -> Contents] /\ {} \in SUBSET Paths
    BY DEF NoFingerprint
  <2> QED BY <2>1 DEF Fingerprints
<1>2. <<>> \in Seq(Attempts)
  BY EmptySeq
<1> QED BY <1>1, <1>2 DEF Init, TypeOK, NoRun

(* Every step of a review, of `done` or around them keeps the types. *)
LEMMA TypeNext == ASSUME TypeOK, [Next]_vars PROVE TypeOK'
<1>0. CASE UNCHANGED vars
  BY <1>0 DEF vars, TypeOK
<1>1. ASSUME NEW p \in Paths, NEW c \in Contents, Edit(p, c) PROVE TypeOK'
  BY <1>1 DEF Edit, TypeOK, locals
<1>2. ASSUME NEW S \in SUBSET Paths, Discover(S) PROVE TypeOK'
  BY <1>2 DEF Discover, TypeOK, locals
<1>3. ASSUME NEW s \in Statuses, SetByHand(s) PROVE TypeOK'
  BY <1>3 DEF SetByHand, TypeOK, locals, project
<1>4. ASSUME NEW a \in Agents, StartReview(a) PROVE TypeOK'
  <2>1. (overlapped \/ \E b \in Agents : pc[b] \in ReviewSteps) \in BOOLEAN
    OBVIOUS
  <2>2. "listed" \in ReviewSteps
    BY DEF ReviewSteps
  <2> QED BY <1>4, <2>1, <2>2 DEF StartReview, Goto, TypeOK, project
<1>5. ASSUME NEW a \in Agents, Assess(a) PROVE TypeOK'
  <2>1. Decide(seen[a], Fingerprint) \in {"run", "complete", "blocked"}
    BY DecideValues
  <2>2. fp' \in [Agents -> Fingerprints]
    BY <1>5, FingerprintType DEF Assess, TypeOK
  <2>3. status' \in [Agents -> {"complete", "blocked", Absent}]
    BY <1>5, <2>1 DEF Assess, TypeOK
  <2>4. pc' \in [Agents -> {"idle", "done_list", "done_judge"} \cup ReviewSteps]
    BY <1>5 DEF Assess, Goto, TypeOK, ReviewSteps
  <2> QED BY <1>5, <2>2, <2>3, <2>4 DEF Assess, TypeOK, project
<1>6. ASSUME NEW a \in Agents, Execute(a) PROVE TypeOK'
  <2>1. clock' \in Nat
    BY <1>6 DEF Execute, TypeOK
  <2>2. run' \in [Agents -> [passed : BOOLEAN, at : Nat]]
    BY <1>6, <2>1 DEF Execute, TypeOK
  <2>3. pc' \in [Agents -> {"idle", "done_list", "done_judge"} \cup ReviewSteps]
    BY <1>6 DEF Execute, Goto, TypeOK, ReviewSteps
  <2> QED BY <1>6, <2>1, <2>2, <2>3 DEF Execute, TypeOK, project
<1>7. ASSUME NEW a \in Agents, Save(a) PROVE TypeOK'
  <2>1. [fp |-> fp[a], passed |-> run[a].passed, at |-> run[a].at] \in Attempts
    BY DEF TypeOK, Attempts
  <2>2. attempts' \in Seq(Attempts)
    BY <1>7, <2>1, InsertProperties DEF Save, TypeOK
  <2>3. pc' \in [Agents -> {"idle", "done_list", "done_judge"} \cup ReviewSteps]
    BY <1>7 DEF Save, Goto, TypeOK, ReviewSteps
  <2>4. status' \in [Agents -> {"complete", "blocked", Absent}]
    BY <1>7 DEF Save, TypeOK
  <2> QED BY <1>7, <2>2, <2>3, <2>4 DEF Save, TypeOK, project
<1>8. ASSUME NEW a \in Agents, Snapshot(a) PROVE TypeOK'
  BY <1>8 DEF Snapshot, Goto, TypeOK, project, locals, Statuses
<1>9. ASSUME NEW a \in Agents, Crash(a) PROVE TypeOK'
  BY <1>9 DEF Crash, Goto, TypeOK, project, locals
<1>10. ASSUME NEW a \in Agents, StartDone(a) PROVE TypeOK'
  BY <1>10 DEF StartDone, Goto, TypeOK, project, locals
<1>11. ASSUME NEW a \in Agents, ListForDone(a) PROVE TypeOK'
  BY <1>11 DEF ListForDone, Goto, TypeOK, project
<1>12. ASSUME NEW a \in Agents, Judge(a) PROVE TypeOK'
  BY <1>12, FingerprintType DEF Judge, Goto, TypeOK, project, locals
<1> QED BY <1>0, <1>1, <1>2, <1>3, <1>4, <1>5, <1>6, <1>7, <1>8, <1>9, <1>10, <1>11, <1>12
        DEF Next, DirectWork, ManualReview

(* Every variable keeps its type, whatever the parameters. *)
THEOREM TypeCorrect == Spec => []TypeOK
  BY TypeInit, TypeNext, PTL DEF Spec

-------------------------------------------------------------------------------
(* What `done` accepts was reviewed, what a review completed has passed.   *)

(* A passing attempt that counts for the fingerprint is stored. *)
Reviewed(f) == \E x \in ToSet(attempts) : x.passed /\ (gate.rerun => x.fp = f)

SomePass == \E x \in ToSet(attempts) : x.passed

(* The strengthening: what a call has listed is stored, and a call about to
   store "complete" has a stored attempt behind it. *)
HistoryInv ==
    /\ \A a \in Agents : ToSet(seen[a]) \subseteq ToSet(attempts)
    /\ \A a \in Agents : pc[a] = "snapshot" /\ status[a] = "complete" => SomePass
    /\ item = "complete" /\ ~byhand => SomePass
    /\ \A f \in accepted : Reviewed(f)

(* The ledger of attempts only grows, and the gate's definition stays. *)
LEMMA AttemptsGrow ==
  ASSUME TypeOK, [Next]_vars
  PROVE  gate' = gate /\ ToSet(attempts) \subseteq ToSet(attempts')
<1>1. ASSUME NEW a \in Agents, Save(a)
      PROVE  gate' = gate /\ ToSet(attempts) \subseteq ToSet(attempts')
  <2>1. [fp |-> fp[a], passed |-> run[a].passed, at |-> run[a].at] \in Attempts
    BY DEF TypeOK, Attempts
  <2> QED BY <1>1, <2>1, InsertProperties DEF Save, TypeOK, project
<1> QED
  BY <1>1 DEF Next, vars, Edit, Discover, DirectWork, ManualReview, SetByHand, StartReview,
     Assess, Execute, Snapshot, Crash, StartDone, ListForDone, Judge, project

(* With no attempt, item or accepted run there is nothing to back. *)
LEMMA HistoryInit == ASSUME Init PROVE HistoryInv
<1>1. ToSet(<<>>) = {}
  BY DEF ToSet
<1> QED BY <1>1 DEF Init, HistoryInv, Absent

(* Every step keeps listed attempts stored and verdicts backed. *)
LEMMA HistoryNext == ASSUME TypeOK, HistoryInv, [Next]_vars PROVE HistoryInv'
<1>1. gate' = gate /\ ToSet(attempts) \subseteq ToSet(attempts')
  BY AttemptsGrow
<1>2. SomePass => SomePass'
  BY <1>1 DEF SomePass
<1>3. \A f : Reviewed(f) => Reviewed(f)'
  BY <1>1 DEF Reviewed
<1>4. CASE UNCHANGED <<seen, pc, status, item, byhand, accepted>>
  BY <1>1, <1>2, <1>3, <1>4 DEF HistoryInv
<1>5. ASSUME NEW s \in Statuses, SetByHand(s) PROVE HistoryInv'
  <2>1. UNCHANGED <<seen, pc, status, accepted>> /\ byhand'
    BY <1>5 DEF SetByHand, locals
  <2> QED BY <2>1, <1>1, <1>2, <1>3 DEF HistoryInv
<1>6. ASSUME NEW a \in Agents, StartReview(a) PROVE HistoryInv'
  <2>1. UNCHANGED <<attempts, status, item, byhand, accepted>>
    BY <1>6 DEF StartReview
  <2>2. \A b \in Agents : seen'[b] = IF b = a THEN attempts ELSE seen[b]
    BY <1>6 DEF StartReview, TypeOK
  <2>3. \A b \in Agents : pc'[b] = IF b = a THEN "listed" ELSE pc[b]
    BY <1>6 DEF StartReview, Goto, TypeOK
  <2> QED BY <2>1, <2>2, <2>3, <1>2, <1>3 DEF HistoryInv
<1>7. ASSUME NEW a \in Agents, Assess(a) PROVE HistoryInv'
  <2>1. UNCHANGED <<attempts, seen, item, byhand, accepted>>
    BY <1>7 DEF Assess
  <2>2. \A b \in Agents : b # a => pc'[b] = pc[b] /\ status'[b] = status[b]
    BY <1>7 DEF Assess, Goto, TypeOK
  <2>3. ASSUME status'[a] = "complete" PROVE SomePass
    <3>1. Decide(seen[a], Fingerprint) = "complete"
      BY <1>7, <2>3 DEF Assess, TypeOK, Absent
    <3>2. LatestPassed(seen[a], Fingerprint)
      BY <3>1 DEF Decide
    <3>3. \E x \in ToSet(seen[a]) : x.passed
      BY <3>2, PassedIsListed DEF TypeOK
    <3> QED BY <3>3 DEF HistoryInv, SomePass
  <2> QED BY <2>1, <2>2, <2>3, <1>2, <1>3 DEF HistoryInv
<1>8. ASSUME NEW a \in Agents, Execute(a) PROVE HistoryInv'
  <2>1. UNCHANGED <<attempts, seen, status, item, byhand, accepted>>
    BY <1>8 DEF Execute
  <2>2. \A b \in Agents : pc'[b] = IF b = a THEN "save" ELSE pc[b]
    BY <1>8 DEF Execute, Goto, TypeOK
  <2> QED BY <2>1, <2>2, <1>2, <1>3 DEF HistoryInv
<1>9. ASSUME NEW a \in Agents, Save(a) PROVE HistoryInv'
  <2> DEFINE x == [fp |-> fp[a], passed |-> run[a].passed, at |-> run[a].at]
  <2>1. UNCHANGED <<seen, item, byhand, accepted>>
    BY <1>9 DEF Save
  <2>2. \A b \in Agents : b # a => pc'[b] = pc[b] /\ status'[b] = status[b]
    BY <1>9 DEF Save, Goto, TypeOK
  <2>3. ASSUME status'[a] = "complete" PROVE SomePass'
    <3>1. x.passed
      BY <1>9, <2>3 DEF Save, TypeOK
    <3>2. x \in Attempts
      BY DEF TypeOK, Attempts
    <3>3. x \in ToSet(attempts')
      BY <1>9, <3>2, InsertProperties DEF Save, TypeOK
    <3> HIDE DEF x
    <3> QED BY <3>1, <3>3 DEF SomePass
  <2> QED BY <2>1, <2>2, <2>3, <1>1, <1>2, <1>3 DEF HistoryInv
<1>10. ASSUME NEW a \in Agents, Snapshot(a) PROVE HistoryInv'
  <2>1. UNCHANGED <<attempts, seen, status, accepted>> /\ item' = status[a] /\ pc[a] = "snapshot"
    BY <1>10 DEF Snapshot, locals
  <2>2. \A b \in Agents : pc'[b] = IF b = a THEN "idle" ELSE pc[b]
    BY <1>10 DEF Snapshot, Goto, TypeOK
  <2> QED BY <2>1, <2>2, <1>2, <1>3 DEF HistoryInv
<1>11. ASSUME NEW a \in Agents, Crash(a) \/ StartDone(a) PROVE HistoryInv'
  <2>1. UNCHANGED <<attempts, seen, status, item, byhand, accepted>>
    BY <1>11 DEF Crash, StartDone, locals
  <2>2. \A b \in Agents : pc'[b] = "snapshot" => pc[b] = "snapshot"
    BY <1>11 DEF Crash, StartDone, Goto, TypeOK
  <2> QED BY <2>1, <2>2, <1>2, <1>3 DEF HistoryInv
<1>12. ASSUME NEW a \in Agents, ListForDone(a) PROVE HistoryInv'
  <2>1. UNCHANGED <<attempts, status, item, byhand, accepted>>
    BY <1>12 DEF ListForDone
  <2>2. \A b \in Agents : seen'[b] = IF b = a THEN attempts ELSE seen[b]
    BY <1>12 DEF ListForDone, TypeOK
  <2>3. \A b \in Agents : pc'[b] = IF b = a THEN "done_judge" ELSE pc[b]
    BY <1>12 DEF ListForDone, Goto, TypeOK
  <2> QED BY <2>1, <2>2, <2>3, <1>2, <1>3 DEF HistoryInv
<1>13. ASSUME NEW a \in Agents, Judge(a) PROVE HistoryInv'
  <2>1. UNCHANGED <<attempts, seen, status, item, byhand>>
    BY <1>13 DEF Judge, locals
  <2>2. \A b \in Agents : pc'[b] = IF b = a THEN "idle" ELSE pc[b]
    BY <1>13 DEF Judge, Goto, TypeOK
  <2>3. GateHolds(seen[a], Fingerprint) => Reviewed(Fingerprint)
    <3> SUFFICES ASSUME GateHolds(seen[a], Fingerprint) PROVE Reviewed(Fingerprint)
      OBVIOUS
    <3>1. \E x \in ToSet(seen[a]) : x.passed /\ (gate.rerun => x.fp = Fingerprint)
      BY HeldGateHasPass DEF TypeOK
    <3> QED BY <3>1 DEF HistoryInv, Reviewed
  <2>4. \A f \in accepted' : Reviewed(f)
    BY <1>13, <2>3 DEF Judge, HistoryInv
  <2> QED BY <2>1, <2>2, <2>4, <1>2, <1>3 DEF HistoryInv
<1>14. ASSUME NEW p \in Paths, NEW c \in Contents, Edit(p, c) PROVE HistoryInv'
  BY <1>4, <1>14 DEF Edit, locals
<1>15. ASSUME NEW S \in SUBSET Paths, Discover(S) PROVE HistoryInv'
  BY <1>4, <1>15 DEF Discover, locals
<1>16. CASE UNCHANGED vars
  BY <1>4, <1>16 DEF vars
<1> QED BY <1>5, <1>6, <1>7, <1>8, <1>9, <1>10, <1>11, <1>12, <1>13, <1>14, <1>15, <1>16
        DEF Next, DirectWork, ManualReview

(* The invariant behind the two theorems that follow. *)
LEMMA HistoryCorrect == Spec => []HistoryInv
<1>1. Init => TypeOK /\ HistoryInv
  BY TypeInit, HistoryInit
<1>2. TypeOK /\ HistoryInv /\ [Next]_vars => (TypeOK /\ HistoryInv)'
  BY TypeNext, HistoryNext
<1> QED BY <1>1, <1>2, PTL DEF Spec

(* completion.go:185-226: no run of `done` is stored as accepted on a gate that
   no review has passed, on that fingerprint when the gate dedupes. *)
THEOREM AcceptedRunsWereReviewed == Spec => []AcceptedWasReviewed
<1>1. HistoryInv => AcceptedWasReviewed
  BY DEF HistoryInv, Reviewed, AcceptedWasReviewed, ToSet
<1> QED BY <1>1, HistoryCorrect, PTL

(* review.go:193-238: the attempt is stored before the item. *)
THEOREM CompleteIsBacked == Spec => []CompleteNeedsPass
<1>1. HistoryInv => CompleteNeedsPass
  BY DEF HistoryInv, SomePass, CompleteNeedsPass, ToSet
<1> QED BY <1>1, HistoryCorrect, PTL

-------------------------------------------------------------------------------
(* By how much concurrent reviews exceed max_attempts.                     *)

Budgeted == ~gate.rerun /\ gate.max > 0

(* Reviews that listed the attempts while the budget had room and have not
   stored theirs yet; each may add one attempt to the list. *)
Holding == {a \in Agents : pc[a] \in {"listed", "run", "save"} /\ Len(seen[a]) < gate.max}

(* The strengthening: the bound counts the attempts still to come, and only a
   review that saw room in the budget executes. *)
BudgetInv ==
    Budgeted =>
        /\ Len(attempts) + Cardinality(Holding) <= gate.max + Cardinality(Agents) - 1
        /\ \A a \in Agents : pc[a] \in {"run", "save"} => Len(seen[a]) < gate.max

(* Reviews that hold room in the budget are among the finitely many agents. *)
LEMMA HoldingType ==
  /\ Cardinality(Agents) \in Nat
  /\ IsFiniteSet(Holding)
  /\ Cardinality(Holding) \in Nat
  /\ Cardinality(Holding) <= Cardinality(Agents)
<1>1. Holding \in SUBSET Agents
  BY DEF Holding
<1> QED BY <1>1, GateAssumption, FS_Subset, FS_CardinalityType

(* Nothing is held and nothing is stored at the start. *)
LEMMA BudgetInit == ASSUME Init, TypeOK PROVE BudgetInv
<1> SUFFICES ASSUME Budgeted PROVE BudgetInv
  BY DEF BudgetInv
<1>1. Holding = {}
  BY DEF Init, Holding
<1>2. Len(attempts) = 0
  BY DEF Init
<1>3. Cardinality(Holding) = 0
  BY <1>1, FS_EmptySet
<1>4. gate.max \in Nat /\ gate.max > 0
  BY GateAssumption DEF TypeOK, Budgeted
<1>5. \A a \in Agents : pc[a] \notin {"run", "save"}
  BY DEF Init
<1> QED BY <1>2, <1>3, <1>4, <1>5, HoldingType DEF BudgetInv

(* Steps that add no attempt keep the bound if no review starts to hold. *)
LEMMA BudgetKept ==
  ASSUME TypeOK, TypeOK', BudgetInv, Holding' \subseteq Holding,
         Len(attempts') <= Len(attempts), gate' = gate,
         \A a \in Agents : pc'[a] \in {"run", "save"} /\ Budgeted =>
             Len(seen'[a]) < gate.max
  PROVE  BudgetInv'
<1> SUFFICES ASSUME Budgeted PROVE BudgetInv'
  BY DEF BudgetInv, Budgeted
<1>1. Cardinality(Holding') <= Cardinality(Holding) /\ Cardinality(Holding') \in Nat
  <2>1. Holding' \in SUBSET Holding
    OBVIOUS
  <2>2. IsFiniteSet(Holding)
    BY HoldingType
  <2>3. IsFiniteSet(Holding') /\ Cardinality(Holding') <= Cardinality(Holding)
    BY <2>1, <2>2, FS_Subset
  <2> QED BY <2>3, FS_CardinalityType
<1>2. Len(attempts) \in Nat /\ Len(attempts') \in Nat
  BY LenProperties DEF TypeOK
<1>3. gate.max \in Nat
  BY GateAssumption DEF TypeOK
<1>4. Len(attempts) + Cardinality(Holding) <= gate.max + Cardinality(Agents) - 1
  BY DEF BudgetInv
<1>5. Len(attempts') + Cardinality(Holding') <= gate.max + Cardinality(Agents) - 1
  BY <1>1, <1>2, <1>3, <1>4, HoldingType
<1> QED BY <1>5 DEF BudgetInv, Budgeted

(* A review that stores its attempt gives up what it held. *)
LEMMA BudgetNext == ASSUME TypeOK, TypeOK', BudgetInv, [Next]_vars PROVE BudgetInv'
<1>1. CASE UNCHANGED <<gate, attempts, pc, seen>>
  BY <1>1, BudgetKept, LenProperties DEF BudgetInv, Holding, TypeOK
<1>2. ASSUME NEW a \in Agents, StartReview(a) PROVE BudgetInv'
  <2> SUFFICES ASSUME Budgeted PROVE BudgetInv'
    BY <1>2 DEF BudgetInv, Budgeted, StartReview, project
  <2>1. UNCHANGED <<gate, attempts>> /\ pc[a] = "idle"
    BY <1>2 DEF StartReview, project
  <2>2. \A b \in Agents : /\ pc'[b] = IF b = a THEN "listed" ELSE pc[b]
                          /\ seen'[b] = IF b = a THEN attempts ELSE seen[b]
    BY <1>2 DEF StartReview, Goto, TypeOK
  <2>3. \A b \in Agents : pc'[b] \in {"run", "save"} => Len(seen'[b]) < gate.max
    BY <2>2 DEF BudgetInv
  <2>4. CASE Len(attempts) < gate.max
    <3>1. Len(attempts) \in Nat /\ gate.max \in Nat
      BY LenProperties, GateAssumption DEF TypeOK
    <3>2. Cardinality(Holding)' \in Nat /\ Cardinality(Holding)' <= Cardinality(Agents)
      <4>1. Holding' \in SUBSET Agents
        BY DEF Holding
      <4> QED BY <4>1, GateAssumption, FS_Subset, FS_CardinalityType
    <3>3. Len(attempts') + Cardinality(Holding)' <= gate.max + Cardinality(Agents) - 1
      BY <2>1, <2>4, <3>1, <3>2, HoldingType
    <3> QED BY <2>1, <2>3, <3>3 DEF BudgetInv, Budgeted
  <2>5. CASE ~(Len(attempts) < gate.max)
    <3>1. Holding' \subseteq Holding
      BY <2>1, <2>2, <2>5 DEF Holding
    <3> QED BY <2>1, <2>3, <3>1, BudgetKept, LenProperties DEF TypeOK
  <2> QED BY <2>4, <2>5
<1>3. ASSUME NEW a \in Agents, Assess(a) PROVE BudgetInv'
  <2>1. UNCHANGED <<gate, attempts, seen>> /\ pc[a] = "listed"
    BY <1>3 DEF Assess, project
  <2>2. \A b \in Agents : b # a => pc'[b] = pc[b]
    BY <1>3 DEF Assess, Goto, TypeOK
  <2>3. pc'[a] \in {"run", "snapshot"}
    BY <1>3 DEF Assess, Goto, TypeOK
  <2>4. Budgeted /\ pc'[a] = "run" => Len(seen[a]) < gate.max
    <3> SUFFICES ASSUME Budgeted, pc'[a] = "run" PROVE Len(seen[a]) < gate.max
      OBVIOUS
    <3>1. Decide(seen[a], Fingerprint) = "run"
      BY <1>3 DEF Assess, Goto, TypeOK
    <3>2. ~Spent(seen[a])
      BY <3>1 DEF Decide, Budgeted
    <3>3. Len(seen[a]) \in Nat /\ gate.max \in Nat
      BY LenProperties, GateAssumption DEF TypeOK
    <3> QED BY <3>2, <3>3 DEF Spent, Budgeted
  <2>5. Holding' \subseteq Holding
    BY <2>1, <2>2, <2>3 DEF Holding
  <2>6. \A b \in Agents : pc'[b] \in {"run", "save"} /\ Budgeted => Len(seen'[b]) < gate.max
    BY <2>1, <2>2, <2>3, <2>4 DEF BudgetInv
  <2> QED BY <2>1, <2>5, <2>6, BudgetKept, LenProperties DEF TypeOK
<1>4. ASSUME NEW a \in Agents, Execute(a) PROVE BudgetInv'
  <2>1. UNCHANGED <<gate, attempts, seen>> /\ pc[a] = "run"
    BY <1>4 DEF Execute, project
  <2>2. \A b \in Agents : pc'[b] = IF b = a THEN "save" ELSE pc[b]
    BY <1>4 DEF Execute, Goto, TypeOK
  <2>3. Holding' \subseteq Holding
    BY <2>1, <2>2 DEF Holding
  <2>4. \A b \in Agents : pc'[b] \in {"run", "save"} /\ Budgeted => Len(seen'[b]) < gate.max
    BY <2>1, <2>2 DEF BudgetInv
  <2> QED BY <2>1, <2>3, <2>4, BudgetKept, LenProperties DEF TypeOK
<1>5. ASSUME NEW a \in Agents, Save(a) PROVE BudgetInv'
  <2> SUFFICES ASSUME Budgeted PROVE BudgetInv'
    BY <1>5 DEF BudgetInv, Budgeted, Save, project
  <2>1. UNCHANGED <<gate, seen>> /\ pc[a] = "save"
    BY <1>5 DEF Save, project
  <2>2. \A b \in Agents : pc'[b] = IF b = a THEN "snapshot" ELSE pc[b]
    BY <1>5 DEF Save, Goto, TypeOK
  <2>3. Len(attempts') = Len(attempts) + 1
    <3>1. [fp |-> fp[a], passed |-> run[a].passed, at |-> run[a].at] \in Attempts
      BY DEF TypeOK, Attempts
    <3> QED BY <1>5, <3>1, InsertProperties DEF Save, TypeOK
  <2>4. a \in Holding /\ Holding' = Holding \ {a}
    BY <2>1, <2>2 DEF Holding, BudgetInv
  <2>5. Cardinality(Holding)' = Cardinality(Holding) - 1
    BY <2>4, HoldingType, FS_RemoveElement
  <2>6. Len(attempts) \in Nat /\ gate.max \in Nat
    BY LenProperties, GateAssumption DEF TypeOK
  <2>7. Len(attempts) + Cardinality(Holding) <= gate.max + Cardinality(Agents) - 1
    BY DEF BudgetInv
  <2>8. Len(attempts') + Cardinality(Holding)' <= gate.max + Cardinality(Agents) - 1
    BY <2>3, <2>5, <2>6, <2>7, HoldingType
  <2>9. \A b \in Agents : pc'[b] \in {"run", "save"} => Len(seen'[b]) < gate.max
    BY <2>1, <2>2 DEF BudgetInv
  <2> QED BY <2>1, <2>8, <2>9 DEF BudgetInv, Budgeted
<1>6. ASSUME NEW a \in Agents, Snapshot(a) \/ Crash(a) \/ StartDone(a) \/ Judge(a)
      PROVE  BudgetInv'
  <2>1. UNCHANGED <<gate, attempts, seen>>
    BY <1>6 DEF Snapshot, Crash, StartDone, Judge, project, locals
  <2>2. \A b \in Agents : pc'[b] = pc[b] \/ pc'[b] \in {"idle", "done_list"}
    BY <1>6 DEF Snapshot, Crash, StartDone, Judge, Goto, TypeOK
  <2>3. Holding' \subseteq Holding
    BY <2>1, <2>2 DEF Holding
  <2>4. \A b \in Agents : pc'[b] \in {"run", "save"} /\ Budgeted => Len(seen'[b]) < gate.max
    BY <2>1, <2>2 DEF BudgetInv
  <2> QED BY <2>1, <2>3, <2>4, BudgetKept, LenProperties DEF TypeOK
<1>7. ASSUME NEW a \in Agents, ListForDone(a) PROVE BudgetInv'
  <2>1. UNCHANGED <<gate, attempts>> /\ pc[a] = "done_list"
    BY <1>7 DEF ListForDone, project
  <2>2. \A b \in Agents : /\ pc'[b] = IF b = a THEN "done_judge" ELSE pc[b]
                          /\ b # a => seen'[b] = seen[b]
    BY <1>7 DEF ListForDone, Goto, TypeOK
  <2>3. Holding' \subseteq Holding
    BY <2>1, <2>2 DEF Holding
  <2>4. \A b \in Agents : pc'[b] \in {"run", "save"} /\ Budgeted => Len(seen'[b]) < gate.max
    BY <2>1, <2>2 DEF BudgetInv
  <2> QED BY <2>1, <2>3, <2>4, BudgetKept, LenProperties DEF TypeOK
<1>8. ASSUME NEW p \in Paths, NEW c \in Contents, Edit(p, c) PROVE BudgetInv'
  BY <1>1, <1>8 DEF Edit, locals
<1>9. ASSUME NEW S \in SUBSET Paths, Discover(S) PROVE BudgetInv'
  BY <1>1, <1>9 DEF Discover, locals
<1>10. ASSUME NEW s \in Statuses, SetByHand(s) PROVE BudgetInv'
  BY <1>1, <1>10 DEF SetByHand, project, locals
<1>11. CASE UNCHANGED vars
  BY <1>1, <1>11 DEF vars
<1> QED BY <1>2, <1>3, <1>4, <1>5, <1>6, <1>7, <1>8, <1>9, <1>10, <1>11
        DEF Next, DirectWork, ManualReview

(* review.go:147: with N processes, a gate without dedupe is executed at most
   max_attempts + N - 1 times. *)
THEOREM BudgetIsBounded == Spec => []BudgetBound
<1>1. Init => TypeOK /\ BudgetInv
  BY TypeInit, BudgetInit
<1>2. TypeOK /\ BudgetInv /\ [Next]_vars => (TypeOK /\ BudgetInv)'
  BY TypeNext, BudgetNext
<1>3. TypeOK /\ BudgetInv => BudgetBound
  <2> SUFFICES ASSUME TypeOK, BudgetInv, Budgeted
               PROVE  Len(attempts) <= gate.max + Cardinality(Agents) - 1
    BY DEF BudgetBound, Budgeted
  <2>1. Len(attempts) \in Nat /\ gate.max \in Nat
    BY LenProperties, GateAssumption DEF TypeOK
  <2>2. Len(attempts) + Cardinality(Holding) <= gate.max + Cardinality(Agents) - 1
    BY DEF BudgetInv
  <2> QED BY <2>1, <2>2, HoldingType
<1> QED BY <1>1, <1>2, <1>3, PTL DEF Spec

-------------------------------------------------------------------------------
(* The order of the attempts.                                              *)

(* Nothing is stored, and nothing about to be stored, that has not finished yet. *)
ClockInv ==
    /\ \A i \in DOMAIN attempts : attempts[i].at <= clock
    /\ \A a \in Agents : pc[a] = "save" => run[a].at <= clock

(* There is nothing at the start. *)
LEMMA ClockInit == ASSUME Init PROVE ClockInv
  BY EmptySeq DEF Init, ClockInv

(* The attempt a review is about to store. *)
Stored(a) == [fp |-> fp[a], passed |-> run[a].passed, at |-> run[a].at]

(* It is one, and storing it makes the list one longer. *)
LEMMA SaveInserts ==
  ASSUME TypeOK, NEW a \in Agents, Save(a)
  PROVE  /\ Stored(a) \in Attempts /\ attempts \in Seq(Attempts)
         /\ attempts' = InsertByFinish(attempts, Stored(a))
         /\ attempts' \in Seq(Attempts) /\ Len(attempts') = Len(attempts) + 1
         /\ ToSet(attempts') = ToSet(attempts) \cup {Stored(a)}
<1>1. Stored(a) \in Attempts /\ attempts \in Seq(Attempts)
  BY DEF TypeOK, Attempts, Stored
<1>2. attempts' = InsertByFinish(attempts, Stored(a))
  BY DEF Save, Stored
<1> HIDE DEF Stored
<1> QED BY <1>1, <1>2, InsertProperties

(* The clock only moves forward, and a command finishes at its present. *)
LEMMA ClockNext == ASSUME TypeOK, ClockInv, [Next]_vars PROVE ClockInv'
<1>1. ASSUME NEW a \in Agents, Execute(a) PROVE ClockInv'
  <2>1. clock' \in Nat /\ clock \in Nat /\ clock <= clock'
    BY <1>1 DEF Execute, TypeOK
  <2>2. UNCHANGED attempts
    BY <1>1 DEF Execute
  <2>3. \A b \in Agents : b # a => pc'[b] = pc[b] /\ run'[b] = run[b]
    BY <1>1 DEF Execute, Goto, TypeOK
  <2>4. run'[a].at = clock'
    BY <1>1 DEF Execute, TypeOK
  <2>5. \A i \in DOMAIN attempts : attempts[i].at \in Nat
    <3>1. \A i \in DOMAIN attempts : attempts[i] \in Attempts
      BY ElementOfSeq, LenProperties DEF TypeOK
    <3> QED BY <3>1 DEF Attempts
  <2>6. \A b \in Agents : run[b].at \in Nat
    BY DEF TypeOK
  <2> QED BY <2>1, <2>2, <2>3, <2>4, <2>5, <2>6 DEF ClockInv
<1>2. ASSUME NEW a \in Agents, Save(a) PROVE ClockInv'
  <2>1. UNCHANGED <<clock, run>> /\ pc[a] = "save"
    BY <1>2 DEF Save
  <2>2. \A b \in Agents : pc'[b] = "save" => pc[b] = "save"
    BY <1>2 DEF Save, Goto, TypeOK
  <2>3. \A x \in ToSet(attempts') : x.at <= clock
    <3>1. \A x \in ToSet(attempts) : x.at <= clock
      BY DEF ClockInv, ToSet
    <3>2. Stored(a).at <= clock
      BY <2>1 DEF Stored, ClockInv
    <3> QED BY <1>2, <3>1, <3>2, SaveInserts
  <2>4. \A i \in DOMAIN attempts' : attempts'[i] \in ToSet(attempts')
    BY DEF ToSet
  <2> QED BY <2>1, <2>2, <2>3, <2>4 DEF ClockInv
<1>3. ASSUME UNCHANGED <<attempts, clock, run>>,
             \A b \in Agents : pc'[b] = "save" => pc[b] = "save"
      PROVE  ClockInv'
  BY <1>3 DEF ClockInv
<1>4. ASSUME NEW a \in Agents,
             \/ StartReview(a) \/ Assess(a) \/ Snapshot(a) \/ Crash(a)
             \/ StartDone(a) \/ ListForDone(a) \/ Judge(a)
      PROVE  ClockInv'
  BY <1>3, <1>4 DEF StartReview, Assess, Snapshot, Crash, StartDone, ListForDone, Judge,
     Goto, TypeOK, locals
<1>5. ASSUME UNCHANGED <<attempts, clock, run, pc>> PROVE ClockInv'
  BY <1>3, <1>5
<1> QED BY <1>1, <1>2, <1>4, <1>5
        DEF Next, vars, Edit, Discover, DirectWork, ManualReview, SetByHand, locals

(* A review whose attempt finished last and on the fingerprint at hand decides
   what the latest attempt is. *)
LEMMA SaveDecides ==
  ASSUME TypeOK, NEW a \in Agents, Save(a),
         \A i \in DOMAIN attempts : attempts[i].at <= run[a].at
  PROVE  GateHolds(attempts, fp[a])' <=> run[a].passed
<1> DEFINE n == Len(attempts) + 1
<1>1. /\ Stored(a) \in Attempts /\ attempts \in Seq(Attempts)
      /\ attempts' = InsertByFinish(attempts, Stored(a))
      /\ attempts' \in Seq(Attempts) /\ Len(attempts') = n
  BY SaveInserts
<1>2. attempts'[n] = Stored(a)
  <2>1. Stored(a).at = run[a].at
    BY DEF Stored
  <2> QED BY <1>1, <2>1, InsertLast
<1>3. n \in Nat \ {0} /\ n \in DOMAIN attempts' /\ attempts' # <<>>
  BY <1>1, LenProperties, EmptySeq
<1>4. LatestFor(attempts', fp[a]) = n
  <2>1. attempts'[n].fp = fp[a]
    BY <1>2 DEF Stored
  <2>2. LatestFor(attempts', fp[a]) # 0 /\ n <= LatestFor(attempts', fp[a])
    BY <1>1, <1>3, <2>1, LatestForIsLast
  <2>3. LatestFor(attempts', fp[a]) \in 1..n
    BY <1>1, <2>2, LatestForPosition, LenProperties
  <2> QED BY <1>3, <2>2, <2>3
<1>5. attempts'[n].passed = run[a].passed
  BY <1>2 DEF Stored
<1>6. fp' = fp
  BY DEF Save
<1>7. /\ GateHolds(attempts, fp[a])' <=> IF gate'.rerun THEN LatestPassed(attempts', fp[a]) ELSE Last(attempts').passed
      /\ LatestPassed(attempts', fp[a]) <=> run[a].passed
  BY <1>3, <1>4, <1>5, <1>6 DEF GateHolds, LatestPassed
<1>8. Last(attempts').passed = run[a].passed
  BY <1>1, <1>5 DEF Last
<1> QED BY <1>7, <1>8

-------------------------------------------------------------------------------
(* An undisturbed review settles the gate.                                 *)

(* A status that says of the gate what `done` would say now. *)
Right(s) ==
    /\ s = "complete" => GateHolds(attempts, Fingerprint)
    /\ gate.rerun /\ GateHolds(attempts, Fingerprint) => s = "complete"

(* What holds of a review that nobody has disturbed, by the step it is at: what
   it has listed is still the list, its fingerprint is the tree's, and what it
   is about to store, or has stored, is right. *)
Settled(a) ==
    /\ pc[a] = "listed" => seen[a] = attempts
    /\ pc[a] \in {"run", "save"} => fp[a] = Fingerprint
    /\ pc[a] = "save" => \A i \in DOMAIN attempts : attempts[i].at <= run[a].at
    /\ pc[a] = "snapshot" => Right(status[a])
    /\ pc[a] \notin ReviewSteps => Right(item)

SettledInv == \A a \in settled : Settled(a)

(* Nobody is settled at the start. *)
LEMMA SettledInit == ASSUME Init PROVE SettledInv
  BY DEF Init, SettledInv

(* review.go:124-147: what Decide says without executing is right. *)
LEMMA DecisionIsRight ==
  ASSUME TypeOK, NEW d, d = Decide(attempts, Fingerprint), d # "run"
  PROVE  Right(d)
<1>1. LatestPassed(attempts, Fingerprint) => attempts # <<>>
  <2> SUFFICES ASSUME LatestPassed(attempts, Fingerprint) PROVE attempts # <<>>
    OBVIOUS
  <2>1. LatestFor(attempts, Fingerprint) \in 1..Len(attempts)
    BY LatestForPosition, LenProperties DEF LatestPassed, TypeOK
  <2> QED BY <2>1
<1>2. d = "complete" => gate.rerun /\ LatestPassed(attempts, Fingerprint)
  BY DEF Decide
<1>3. d # "complete" => ~(gate.rerun /\ LatestPassed(attempts, Fingerprint))
  BY DEF Decide
<1> QED BY <1>1, <1>2, <1>3 DEF Right, GateHolds

(* Steps that leave the gate, the tree, the list and the item alone keep what is
   right; an agent outside its review stays settled through its other calls. *)
LEMMA SettledKept ==
  ASSUME UNCHANGED <<gate, tree, discovered, attempts, item>>, NEW a, Settled(a),
         \/ UNCHANGED <<pc[a], seen[a], fp[a], run[a], status[a]>>
         \/ pc[a] \notin ReviewSteps /\ pc'[a] \notin ReviewSteps
  PROVE  Settled(a)'
<1>1. Fingerprint' = Fingerprint
  BY DEF Fingerprint
<1>2. Right(status[a])' <=> Right(status'[a])
  BY <1>1 DEF Right, GateHolds
<1>3. Right(item)' <=> Right(item)
  BY <1>1 DEF Right, GateHolds
<1>4. CASE UNCHANGED <<pc[a], seen[a], fp[a], run[a], status[a]>>
  BY <1>1, <1>2, <1>3, <1>4 DEF Settled
<1>5. CASE pc[a] \notin ReviewSteps /\ pc'[a] \notin ReviewSteps
  BY <1>3, <1>5 DEF Settled, ReviewSteps
<1> QED BY <1>4, <1>5

(* Every step keeps what holds of the undisturbed reviews; one that could spoil
   it takes them out of `settled`. *)
LEMMA SettledNext ==
  ASSUME TypeOK, TypeOK', ClockInv, SettledInv, [Next]_vars
  PROVE  SettledInv'
<1>1. ASSUME settled' = {} PROVE SettledInv'
  BY <1>1 DEF SettledInv
<1>2. ASSUME NEW a \in Agents, StartReview(a) PROVE SettledInv'
  <2>1. settled' = {a} /\ pc'[a] = "listed" /\ seen'[a] = attempts'
    BY <1>2 DEF StartReview, Goto, TypeOK
  <2>2. Settled(a)'
    BY <2>1 DEF Settled, ReviewSteps
  <2> QED BY <2>1, <2>2 DEF SettledInv
<1>3. ASSUME NEW a \in Agents, Assess(a) PROVE SettledInv'
  <2>1. UNCHANGED <<gate, tree, discovered, attempts, item, seen, run, settled>>
    BY <1>3 DEF Assess, project
  <2>2. ASSUME NEW b \in settled, b # a PROVE Settled(b)'
    <3>1. b \in Agents
      BY DEF TypeOK
    <3>2. UNCHANGED <<pc[b], seen[b], fp[b], run[b], status[b]>>
      BY <1>3, <2>1, <2>2, <3>1 DEF Assess, Goto, TypeOK
    <3> QED BY <2>1, <3>2, SettledKept DEF SettledInv
  <2>3. ASSUME a \in settled PROVE Settled(a)'
    <3> DEFINE d == Decide(seen[a], Fingerprint)
    <3>1. seen[a] = attempts /\ pc[a] = "listed"
      BY <1>3, <2>3 DEF Assess, SettledInv, Settled
    <3>2. Fingerprint' = Fingerprint
      BY <2>1 DEF Fingerprint
    <3>3. fp'[a] = Fingerprint /\ pc'[a] = IF d = "run" THEN "run" ELSE "snapshot"
      BY <1>3 DEF Assess, Goto, TypeOK
    <3>4. CASE d = "run"
      BY <3>2, <3>3, <3>4 DEF Settled, ReviewSteps
    <3>5. CASE d # "run"
      <4>1. status'[a] = d
        BY <1>3, <3>5 DEF Assess, TypeOK
      <4>2. Right(d)
        BY <3>1, <3>5, DecisionIsRight
      <4>3. Right(status[a])'
        BY <2>1, <3>2, <4>1, <4>2 DEF Right, GateHolds
      <4> QED BY <3>3, <3>5, <4>3 DEF Settled, ReviewSteps
    <3> QED BY <3>4, <3>5
  <2> QED BY <2>1, <2>2, <2>3 DEF SettledInv
<1>4. ASSUME NEW a \in Agents, Execute(a) PROVE SettledInv'
  <2>1. UNCHANGED <<gate, tree, discovered, attempts, item, seen, fp, status, settled>>
    BY <1>4 DEF Execute, project
  <2>2. ASSUME NEW b \in settled, b # a PROVE Settled(b)'
    <3>1. b \in Agents
      BY DEF TypeOK
    <3>2. UNCHANGED <<pc[b], seen[b], fp[b], run[b], status[b]>>
      BY <1>4, <2>1, <2>2, <3>1 DEF Execute, Goto, TypeOK
    <3> QED BY <2>1, <3>2, SettledKept DEF SettledInv
  <2>3. ASSUME a \in settled PROVE Settled(a)'
    <3>1. pc[a] = "run" /\ pc'[a] = "save" /\ fp[a] = Fingerprint
      BY <1>4, <2>3 DEF Execute, Goto, TypeOK, SettledInv, Settled
    <3>2. Fingerprint' = Fingerprint
      BY <2>1 DEF Fingerprint
    <3>3. run'[a].at = clock' /\ clock <= clock' /\ clock \in Nat /\ clock' \in Nat
      BY <1>4 DEF Execute, TypeOK
    <3>4. \A i \in DOMAIN attempts : attempts[i].at \in Nat
      <4>1. \A i \in DOMAIN attempts : attempts[i] \in Attempts
        BY ElementOfSeq, LenProperties DEF TypeOK
      <4> QED BY <4>1 DEF Attempts
    <3>5. \A i \in DOMAIN attempts' : attempts'[i].at <= run'[a].at
      BY <2>1, <3>3, <3>4 DEF ClockInv
    <3> QED BY <2>1, <3>1, <3>2, <3>5 DEF Settled, ReviewSteps
  <2> QED BY <2>1, <2>2, <2>3 DEF SettledInv
<1>5. ASSUME NEW a \in Agents, Save(a) PROVE SettledInv'
  <2>1. UNCHANGED <<gate, tree, discovered, item, run, fp>> /\ settled' = settled \cap {a}
    BY <1>5 DEF Save, project
  <2>2. ASSUME a \in settled PROVE Settled(a)'
    <3>1. /\ pc[a] = "save" /\ pc'[a] = "snapshot" /\ fp[a] = Fingerprint
          /\ \A i \in DOMAIN attempts : attempts[i].at <= run[a].at
      BY <1>5, <2>2 DEF Save, Goto, TypeOK, SettledInv, Settled
    <3>2. Fingerprint' = fp[a]
      BY <2>1, <3>1 DEF Fingerprint
    <3>3. GateHolds(attempts, fp[a])' <=> run[a].passed
      BY <1>5, <3>1, SaveDecides
    <3>4. GateHolds(attempts, Fingerprint)' <=> run[a].passed
      BY <2>1, <3>2, <3>3
    <3>5. status'[a] = IF run[a].passed THEN "complete" ELSE "blocked"
      BY <1>5 DEF Save, TypeOK
    <3>6. Right(status[a])'
      BY <3>4, <3>5 DEF Right
    <3> QED BY <3>1, <3>6 DEF Settled, ReviewSteps
  <2> QED BY <2>1, <2>2 DEF SettledInv
<1>6. ASSUME NEW a \in Agents, Snapshot(a) PROVE SettledInv'
  <2>1. UNCHANGED <<gate, tree, discovered, attempts>> /\ settled' = settled \cap {a}
    BY <1>6 DEF Snapshot, project
  <2>2. ASSUME a \in settled PROVE Settled(a)'
    <3>1. pc[a] = "snapshot" /\ pc'[a] = "idle" /\ item' = status[a]
      BY <1>6 DEF Snapshot, Goto, TypeOK
    <3>2. Fingerprint' = Fingerprint
      BY <2>1 DEF Fingerprint
    <3>3. Right(status[a])
      BY <2>2, <3>1 DEF SettledInv, Settled
    <3>4. Right(item)'
      BY <2>1, <3>1, <3>2, <3>3 DEF Right, GateHolds
    <3> QED BY <3>1, <3>4 DEF Settled
  <2> QED BY <2>1, <2>2 DEF SettledInv
<1>7. ASSUME NEW a \in Agents, Crash(a) PROVE SettledInv'
  <2> SUFFICES ASSUME NEW b \in settled' PROVE Settled(b)'
    BY DEF SettledInv
  <2>1. b \in settled /\ b # a /\ b \in Agents
    BY <1>7 DEF Crash, TypeOK
  <2>2. UNCHANGED <<gate, tree, discovered, attempts, item>>
    BY <1>7 DEF Crash, project
  <2>3. UNCHANGED <<pc[b], seen[b], fp[b], run[b], status[b]>>
    BY <1>7, <2>1 DEF Crash, Goto, TypeOK, locals
  <2> QED BY <2>1, <2>2, <2>3, SettledKept DEF SettledInv
<1>8. ASSUME NEW a \in Agents, StartDone(a) \/ ListForDone(a) \/ Judge(a) PROVE SettledInv'
  <2> SUFFICES ASSUME NEW b \in settled' PROVE Settled(b)'
    BY DEF SettledInv
  <2>1. b \in settled /\ b \in Agents
    BY <1>8 DEF StartDone, ListForDone, Judge, TypeOK
  <2>2. UNCHANGED <<gate, tree, discovered, attempts, item>>
    BY <1>8 DEF StartDone, ListForDone, Judge, project
  <2>3. CASE b # a
    <3>1. UNCHANGED <<pc[b], seen[b], fp[b], run[b], status[b]>>
      BY <1>8, <2>1, <2>3 DEF StartDone, ListForDone, Judge, Goto, TypeOK, locals
    <3> QED BY <2>1, <2>2, <3>1, SettledKept DEF SettledInv
  <2>4. CASE b = a
    <3>1. pc[b] \notin ReviewSteps /\ pc'[b] \notin ReviewSteps
      BY <1>8, <2>4 DEF StartDone, ListForDone, Judge, Goto, TypeOK, ReviewSteps
    <3> QED BY <2>1, <2>2, <3>1, SettledKept DEF SettledInv
  <2> QED BY <2>3, <2>4
<1>9. CASE UNCHANGED vars
  BY <1>9, SettledKept DEF vars, locals, SettledInv
<1> QED BY <1>1, <1>2, <1>3, <1>4, <1>5, <1>6, <1>7, <1>8, <1>9
        DEF Next, Edit, Discover, DirectWork, ManualReview, SetByHand

(* review.go:225-238 and completion.go:196: a review that ran to its end
   undisturbed leaves the item as `done` would judge the gate, whatever crashed
   or was cut short before it. *)
THEOREM SettledReviewsDecide == Spec => []SettledReviewDecides
<1>1. Init => TypeOK /\ ClockInv /\ SettledInv
  BY TypeInit, ClockInit, SettledInit
<1>2. TypeOK /\ ClockInv /\ SettledInv /\ [Next]_vars => (TypeOK /\ ClockInv /\ SettledInv)'
  BY TypeNext, ClockNext, SettledNext
<1>3. SettledInv => SettledReviewDecides
  BY DEF SettledInv, Settled, Right, SettledReviewDecides, ReviewSteps
<1> QED BY <1>1, <1>2, <1>3, PTL DEF Spec

-------------------------------------------------------------------------------
(* A pass is final while reviews follow one another.                       *)

(* At most one review is under way; the list is as it has listed it, no stored
   attempt finishes after its own, and it executes only what has not passed. *)
AloneInv ==
    ~overlapped =>
        /\ \A a, b \in Agents : pc[a] \in ReviewSteps /\ pc[b] \in ReviewSteps => a = b
        /\ \A a \in Agents : pc[a] \in {"listed", "run", "save"} => seen[a] = attempts
        /\ \A a \in Agents : pc[a] = "save" =>
              \A i \in DOMAIN attempts : attempts[i].at <= run[a].at
        /\ \A a \in Agents : pc[a] \in {"run", "save"} /\ gate.rerun =>
              ~LatestPassed(attempts, fp[a])

FinalInv == AloneInv /\ PassIsFinal

(* There are no attempts and no reviews at the start. *)
LEMMA FinalInit == ASSUME Init PROVE FinalInv
<1>1. AloneInv
  BY DEF Init, AloneInv, ReviewSteps
<1>2. DOMAIN attempts = {}
  BY DEF Init
<1> QED BY <1>1, <1>2 DEF FinalInv, PassIsFinal

(* When the latest attempt on a fingerprint failed, all attempts on it did. *)
LEMMA NonePassed ==
  ASSUME TypeOK, PassIsFinal, gate.rerun, ~overlapped, NEW f, ~LatestPassed(attempts, f),
         NEW i \in DOMAIN attempts, attempts[i].fp = f
  PROVE  ~attempts[i].passed
<1> DEFINE l == LatestFor(attempts, f)
<1>1. attempts \in Seq(Attempts)
  BY DEF TypeOK
<1>2. l # 0 /\ i <= l
  BY <1>1, LatestForIsLast
<1>3. l \in DOMAIN attempts /\ attempts[l].fp = f /\ ~attempts[l].passed
  BY <1>1, <1>2, LatestForPosition DEF LatestPassed
<1> HIDE DEF l
<1>4. CASE i = l
  BY <1>3, <1>4
<1>5. CASE i # l
  <2>1. i \in Nat /\ l \in Nat
    BY <1>1, <1>3, LenProperties
  <2>2. i < l
    BY <1>2, <1>5, <2>1
  <2> QED BY <1>3, <2>2 DEF PassIsFinal
<1> QED BY <1>4, <1>5

(* Steps that neither store an attempt nor bring a review further keep it. *)
LEMMA FinalKept ==
  ASSUME FinalInv, UNCHANGED <<gate, attempts, overlapped>>,
         \A a \in Agents :
            \/ UNCHANGED <<pc[a], seen[a], fp[a], run[a]>>
            \/ pc'[a] \notin ReviewSteps
            \/ pc[a] \in ReviewSteps /\ pc'[a] = "snapshot"
  PROVE  FinalInv'
<1>1. PassIsFinal'
  BY DEF FinalInv, PassIsFinal
<1>2. AloneInv'
  BY DEF FinalInv, AloneInv, ReviewSteps
<1> QED BY <1>1, <1>2 DEF FinalInv

(* Only a review that found no pass stores an attempt, and it is the last one. *)
LEMMA FinalNext == ASSUME TypeOK, ClockInv, FinalInv, [Next]_vars PROVE FinalInv'
<1>1. ASSUME NEW a \in Agents, StartReview(a) PROVE FinalInv'
  <2>1. UNCHANGED <<gate, attempts, fp, run>>
    BY <1>1 DEF StartReview, project
  <2>2. \A b \in Agents : /\ pc'[b] = IF b = a THEN "listed" ELSE pc[b]
                          /\ seen'[b] = IF b = a THEN attempts ELSE seen[b]
    BY <1>1 DEF StartReview, Goto, TypeOK
  <2>3. ~overlapped' => ~overlapped /\ \A b \in Agents : pc[b] \notin ReviewSteps
    BY <1>1 DEF StartReview
  <2>4. AloneInv'
    BY <2>1, <2>2, <2>3 DEF FinalInv, AloneInv, ReviewSteps
  <2> QED BY <2>1, <2>3, <2>4 DEF FinalInv, PassIsFinal
<1>2. ASSUME NEW a \in Agents, Assess(a) PROVE FinalInv'
  <2>1. UNCHANGED <<gate, attempts, seen, run, overlapped>> /\ pc[a] = "listed"
    BY <1>2 DEF Assess, project
  <2>2. \A b \in Agents : b # a => pc'[b] = pc[b] /\ fp'[b] = fp[b]
    BY <1>2 DEF Assess, Goto, TypeOK
  <2>3. /\ pc'[a] \in {"run", "snapshot"} /\ fp'[a] = Fingerprint
        /\ pc'[a] = "run" => Decide(seen[a], Fingerprint) = "run"
    BY <1>2 DEF Assess, Goto, TypeOK
  <2>4. ~overlapped /\ gate.rerun /\ pc'[a] = "run" => ~LatestPassed(attempts, fp'[a])
    <3> SUFFICES ASSUME ~overlapped, gate.rerun, pc'[a] = "run"
                 PROVE  ~LatestPassed(attempts, fp'[a])
      OBVIOUS
    <3>1. seen[a] = attempts
      BY <2>1 DEF FinalInv, AloneInv
    <3> QED BY <2>3, <3>1 DEF Decide
  <2>5. AloneInv'
    BY <2>1, <2>2, <2>3, <2>4 DEF FinalInv, AloneInv, ReviewSteps
  <2> QED BY <2>1, <2>5 DEF FinalInv, PassIsFinal
<1>3. ASSUME NEW a \in Agents, Execute(a) PROVE FinalInv'
  <2>1. UNCHANGED <<gate, attempts, seen, fp, overlapped>> /\ pc[a] = "run"
    BY <1>3 DEF Execute, project
  <2>2. \A b \in Agents : b # a => pc'[b] = pc[b] /\ run'[b] = run[b]
    BY <1>3 DEF Execute, Goto, TypeOK
  <2>3. /\ pc'[a] = "save" /\ run'[a].at = clock'
        /\ clock <= clock' /\ clock \in Nat /\ clock' \in Nat
    BY <1>3 DEF Execute, Goto, TypeOK
  <2>4. \A i \in DOMAIN attempts : attempts[i].at \in Nat
    <3>1. \A i \in DOMAIN attempts : attempts[i] \in Attempts
      BY ElementOfSeq, LenProperties DEF TypeOK
    <3> QED BY <3>1 DEF Attempts
  <2>5. \A i \in DOMAIN attempts : attempts[i].at <= run'[a].at
    BY <2>3, <2>4 DEF ClockInv
  <2>6. AloneInv'
    BY <2>1, <2>2, <2>3, <2>5 DEF FinalInv, AloneInv, ReviewSteps
  <2> QED BY <2>1, <2>6 DEF FinalInv, PassIsFinal
<1>4. ASSUME NEW a \in Agents, Save(a) PROVE FinalInv'
  <2> SUFFICES ASSUME ~overlapped PROVE FinalInv'
    BY <1>4 DEF Save, FinalInv, AloneInv, PassIsFinal
  <2>1. UNCHANGED <<gate, fp, run, seen, overlapped>> /\ pc[a] = "save"
    BY <1>4 DEF Save, project
  <2>2. \A b \in Agents : pc'[b] = IF b = a THEN "snapshot" ELSE pc[b]
    BY <1>4 DEF Save, Goto, TypeOK
  <2>3. \A b \in Agents : b # a => pc'[b] \notin ReviewSteps
    BY <2>1, <2>2 DEF FinalInv, AloneInv, ReviewSteps
  <2>4. AloneInv'
    BY <2>2, <2>3 DEF AloneInv, ReviewSteps
  <2>5. /\ attempts \in Seq(Attempts) /\ attempts' \in Seq(Attempts)
        /\ Len(attempts') = Len(attempts) + 1
        /\ \A i \in DOMAIN attempts : attempts'[i] = attempts[i]
        /\ attempts'[Len(attempts) + 1] = Stored(a)
    <3>1. \A i \in DOMAIN attempts : attempts[i].at <= Stored(a).at
      BY <2>1 DEF FinalInv, AloneInv, Stored
    <3> QED BY <1>4, <3>1, SaveInserts, InsertLast
  <2>6. ASSUME gate.rerun, NEW i \in DOMAIN attempts', NEW j \in DOMAIN attempts',
               i < j, attempts'[i].fp = attempts'[j].fp
        PROVE  ~attempts'[i].passed
    <3>1. /\ Len(attempts) \in Nat /\ DOMAIN attempts = 1..Len(attempts)
          /\ DOMAIN attempts' = 1..(Len(attempts) + 1)
      BY <2>5, LenProperties
    <3>2. i \in DOMAIN attempts /\ attempts'[i] = attempts[i]
      BY <2>5, <2>6, <3>1
    <3>3. CASE j \in DOMAIN attempts
      BY <2>5, <2>6, <3>2, <3>3 DEF FinalInv, PassIsFinal
    <3>4. CASE j = Len(attempts) + 1
      <4>1. attempts[i].fp = fp[a]
        BY <2>5, <2>6, <3>2, <3>4 DEF Stored
      <4>2. ~LatestPassed(attempts, fp[a])
        BY <2>1, <2>6 DEF FinalInv, AloneInv
      <4> QED BY <2>6, <3>2, <4>1, <4>2, NonePassed DEF FinalInv
    <3> QED BY <3>1, <3>3, <3>4
  <2> QED BY <2>1, <2>4, <2>6 DEF FinalInv, PassIsFinal
<1>5. ASSUME NEW a \in Agents,
             Snapshot(a) \/ Crash(a) \/ StartDone(a) \/ ListForDone(a) \/ Judge(a)
      PROVE  FinalInv'
  <2>1. UNCHANGED <<gate, attempts, overlapped>>
    BY <1>5 DEF Snapshot, Crash, StartDone, ListForDone, Judge, project
  <2>2. pc'[a] \notin ReviewSteps
    BY <1>5 DEF Snapshot, Crash, StartDone, ListForDone, Judge, Goto, TypeOK, ReviewSteps
  <2>3. \A b \in Agents : b # a => UNCHANGED <<pc[b], seen[b], fp[b], run[b]>>
    BY <1>5 DEF Snapshot, Crash, StartDone, ListForDone, Judge, Goto, TypeOK, locals
  <2> QED BY <2>1, <2>2, <2>3, FinalKept
<1>6. CASE UNCHANGED <<gate, attempts, overlapped, pc, seen, fp, run>>
  BY <1>6, FinalKept
<1> QED BY <1>1, <1>2, <1>3, <1>4, <1>5, <1>6
        DEF Next, vars, Edit, Discover, DirectWork, ManualReview, SetByHand, locals, project

(* review.go:124-145: reviews that do not overlap never execute the command
   again for a fingerprint that has passed, however many crashed in between. *)
THEOREM PassesAreFinal == Spec => []PassIsFinal
<1>1. Init => TypeOK /\ ClockInv /\ FinalInv
  BY TypeInit, ClockInit, FinalInit
<1>2. TypeOK /\ ClockInv /\ FinalInv /\ [Next]_vars => (TypeOK /\ ClockInv /\ FinalInv)'
  BY TypeNext, ClockNext, FinalNext
<1>3. FinalInv => PassIsFinal
  BY DEF FinalInv
<1> QED BY <1>1, <1>2, <1>3, PTL DEF Spec

-------------------------------------------------------------------------------
(* ReviewGate implements GateLedger.                                       *)

(* A review that is about to store a status has one to store. *)
VerdictInv == \A a \in Agents : pc[a] = "snapshot" => status[a] \in Statuses

(* Nobody is about to store anything at the start. *)
LEMMA VerdictInit == ASSUME Init PROVE VerdictInv
  BY DEF Init, VerdictInv

(* Only Assess and Save lead to the snapshot, each with a status. *)
LEMMA VerdictNext == ASSUME TypeOK, VerdictInv, [Next]_vars PROVE VerdictInv'
<1>1. ASSUME NEW a \in Agents, Assess(a) PROVE VerdictInv'
  <2>1. \A b \in Agents : b # a => pc'[b] = pc[b] /\ status'[b] = status[b]
    BY <1>1 DEF Assess, Goto, TypeOK
  <2>2. pc'[a] = "snapshot" => status'[a] \in {"complete", "blocked"}
    BY <1>1, DecideValues DEF Assess, Goto, TypeOK
  <2> QED BY <2>1, <2>2 DEF VerdictInv, Statuses
<1>2. ASSUME NEW a \in Agents, Save(a) PROVE VerdictInv'
  <2>1. \A b \in Agents : b # a => pc'[b] = pc[b] /\ status'[b] = status[b]
    BY <1>2 DEF Save, Goto, TypeOK
  <2>2. status'[a] \in {"complete", "blocked"}
    BY <1>2 DEF Save, TypeOK
  <2> QED BY <2>1, <2>2 DEF VerdictInv, Statuses
<1>3. ASSUME UNCHANGED status,
             \A b \in Agents : pc'[b] = "snapshot" => pc[b] = "snapshot"
      PROVE  VerdictInv'
  BY <1>3 DEF VerdictInv
<1>4. ASSUME NEW a \in Agents,
             \/ StartReview(a) \/ Execute(a) \/ Snapshot(a) \/ Crash(a)
             \/ StartDone(a) \/ ListForDone(a) \/ Judge(a)
      PROVE  VerdictInv'
  BY <1>3, <1>4 DEF StartReview, Execute, Snapshot, Crash, StartDone, ListForDone, Judge,
     Goto, TypeOK, locals
<1>5. ASSUME UNCHANGED <<pc, status>> PROVE VerdictInv'
  BY <1>5 DEF VerdictInv
<1> QED BY <1>1, <1>2, <1>4, <1>5
        DEF Next, vars, Edit, Discover, DirectWork, ManualReview, SetByHand, locals

(* A fingerprint counts as passed when some listed attempt on it passed. *)
LEMMA PassesNotEmpty == Passes # {} <=> SomePass
  BY DEF Passes, SomePass

(* The empty list is the empty ledger. *)
LEMMA LedgerInit == ASSUME Init, TypeOK PROVE Ledger!Init
<1>1. ToSet(attempts) = {}
  BY DEF Init, ToSet
<1>2. Passes = {} /\ Len(attempts) = 0
  BY <1>1 DEF Passes, Init
<1>3. gate.rerun \in BOOLEAN /\ gate.max \in Nat
  BY GateAssumption DEF TypeOK
<1> QED BY <1>2, <1>3 DEF Init, Ledger!Init

(* The one INSERT of a review is one record, and within the budget but for the
   reviews that saw room in it. *)
LEMMA SaveRecords ==
  ASSUME TypeOK, BudgetInv, NEW a \in Agents, Save(a)
  PROVE  Ledger!Record(fp[a])
<1> DEFINE x == [fp |-> fp[a], passed |-> run[a].passed, at |-> run[a].at]
<1>1. x \in Attempts
  BY DEF TypeOK, Attempts
<1>2. Len(attempts') = Len(attempts) + 1 /\ ToSet(attempts') = ToSet(attempts) \cup {x}
  BY <1>1, InsertProperties DEF Save, TypeOK
<1>3. Passes' \in {Passes, Passes \cup {fp[a]}}
  <2>1. x.fp = fp[a]
    OBVIOUS
  <2> HIDE DEF x
  <2>2. CASE x.passed
    <3>1. Passes' = Passes \cup {fp[a]}
      BY <1>2, <2>1, <2>2 DEF Passes
    <3> QED BY <3>1
  <2>3. CASE ~x.passed
    <3>1. Passes' = Passes
      BY <1>2, <2>3 DEF Passes
    <3> QED BY <3>1
  <2> QED BY <2>2, <2>3
<1>4. Budgeted => Len(attempts) + 1 < gate.max + Cardinality(Agents)
  <2> SUFFICES ASSUME Budgeted
               PROVE  Len(attempts) + 1 < gate.max + Cardinality(Agents)
    OBVIOUS
  <2>1. a \in Holding
    BY DEF Holding, BudgetInv, Save
  <2>2. Cardinality(Holding) # 0
    BY <2>1, HoldingType, FS_EmptySet
  <2>3. Len(attempts) \in Nat /\ gate.max \in Nat
    BY LenProperties, GateAssumption DEF TypeOK
  <2>4. Len(attempts) + Cardinality(Holding) <= gate.max + Cardinality(Agents) - 1
    BY DEF BudgetInv
  <2> QED BY <2>2, <2>3, <2>4, HoldingType
<1> QED BY <1>2, <1>3, <1>4 DEF Save, project, Ledger!Record, Budgeted

(* Every step of a call, of an editor or of a crash is a step of the ledger,
   or none. *)
LEMMA LedgerNext ==
  ASSUME TypeOK, HistoryInv, BudgetInv, VerdictInv, [Next]_vars
  PROVE  [Ledger!Next]_(Ledger!vars)
<1>1. ASSUME UNCHANGED <<gate, attempts, item, byhand, accepted>>
      PROVE  UNCHANGED Ledger!vars
  BY <1>1 DEF Ledger!vars, Passes
<1>2. ASSUME NEW a \in Agents, Save(a) PROVE Ledger!Next
  BY <1>2, SaveRecords DEF TypeOK, Ledger!Next
<1>3. ASSUME NEW a \in Agents, Snapshot(a) PROVE Ledger!Next
  <2>1. status[a] \in Statuses
    BY <1>3 DEF VerdictInv, Snapshot
  <2>2. status[a] = "complete" => Passes # {}
    BY <1>3, PassesNotEmpty DEF HistoryInv, Snapshot
  <2>3. UNCHANGED <<gate, attempts, accepted>> /\ item' = status[a] /\ byhand' = FALSE
    BY <1>3 DEF Snapshot, project
  <2>4. Ledger!Report(status[a])
    BY <2>2, <2>3 DEF Ledger!Report, Passes
  <2> QED BY <2>1, <2>4 DEF Ledger!Next
<1>4. ASSUME NEW s \in Statuses, SetByHand(s) PROVE Ledger!Next
  <2>1. Ledger!SetByHand(s)
    BY <1>4 DEF SetByHand, Ledger!SetByHand, project, Passes
  <2> QED BY <2>1 DEF Ledger!Next
<1>5. ASSUME NEW a \in Agents, Judge(a) PROVE Ledger!Next \/ UNCHANGED Ledger!vars
  <2>1. UNCHANGED <<gate, attempts, item, byhand>>
    BY <1>5 DEF Judge, project
  <2>2. CASE GateHolds(seen[a], Fingerprint)
    <3>1. \E y \in ToSet(seen[a]) : y.passed /\ (gate.rerun => y.fp = Fingerprint)
      BY <2>2, HeldGateHasPass DEF TypeOK
    <3>2. Passes # {} /\ (gate.rerun => Fingerprint \in Passes)
      BY <3>1 DEF HistoryInv, Passes
    <3>3. accepted' = accepted \cup {Fingerprint}
      BY <1>5, <2>2 DEF Judge
    <3>4. Ledger!Accept(Fingerprint)
      BY <2>1, <3>2, <3>3 DEF Ledger!Accept, Passes
    <3> QED BY <3>4, FingerprintType DEF Ledger!Next
  <2>3. CASE ~GateHolds(seen[a], Fingerprint)
    BY <1>1, <1>5, <2>1, <2>3 DEF Judge
  <2> QED BY <2>2, <2>3
<1>6. ASSUME NEW a \in Agents,
             \/ StartReview(a) \/ Assess(a) \/ Execute(a) \/ Crash(a)
             \/ StartDone(a) \/ ListForDone(a)
      PROVE  UNCHANGED Ledger!vars
  BY <1>1, <1>6 DEF StartReview, Assess, Execute, Crash, StartDone, ListForDone, project
<1>7. ASSUME NEW p \in Paths, NEW c \in Contents, Edit(p, c) PROVE UNCHANGED Ledger!vars
  BY <1>1, <1>7 DEF Edit
<1>8. ASSUME NEW S \in SUBSET Paths, Discover(S) PROVE UNCHANGED Ledger!vars
  BY <1>1, <1>8 DEF Discover
<1>9. CASE UNCHANGED vars
  BY <1>1, <1>9 DEF vars
<1> QED BY <1>2, <1>3, <1>4, <1>5, <1>6, <1>7, <1>8, <1>9 DEF Next, DirectWork, ManualReview

(* concepts.md:208, review.go:193-238: the gate with its processes, listed
   attempts, edits and crashes is a ledger of attempts on which verdicts and
   accepted runs rest, whatever the number of agents, files and gates. *)
THEOREM GateImplementsLedger == Spec => ImplementsLedger
<1> DEFINE Inv == TypeOK /\ HistoryInv /\ BudgetInv /\ VerdictInv
<1>1. Init => Inv /\ Ledger!Init
  BY TypeInit, HistoryInit, BudgetInit, VerdictInit, LedgerInit
<1>2. Inv /\ [Next]_vars => Inv'
  BY TypeNext, HistoryNext, BudgetNext, VerdictNext
<1>3. Inv /\ [Next]_vars => [Ledger!Next]_(Ledger!vars)
  BY LedgerNext
<1> QED BY <1>1, <1>2, <1>3, PTL DEF Spec, ImplementsLedger, Ledger!Spec

===============================================================================
