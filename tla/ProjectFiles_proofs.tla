------------------------- MODULE ProjectFiles_proofs -------------------------
(***************************************************************************)
(* Theorems about ProjectFiles for every set of files, templates, edits    *)
(* and calls of init: the user's text survives, a call nobody disturbs     *)
(* leaves the project set up, and calling init again changes nothing.      *)
(*                                                                         *)
(* The argument has three parts.  Every operation, looked at alone, makes  *)
(* of a file a content that keeps the user's text (JudgeIsGood); that is   *)
(* the induction over the loops that collect lines and array elements, and *)
(* the merge of JSON documents.  A call writes what it has made of the     *)
(* file as it was when the call read it (GoodCall), so that only an edit   *)
(* between that read and the write can be lost, and such a file is raced.  *)
(* And an operation that has written its file finds nothing more to write  *)
(* (QuietWhenWritten), nor do those of the same call before it             *)
(* (WriteQuiets): the operations of an undisturbed call stay done          *)
(* (CalmCall), whether its result is looked at or it is called again.      *)
(***************************************************************************)
EXTENDS ProjectFiles, WellFoundedInduction, TLAPS

-------------------------------------------------------------------------------
(***************************************************************************)
(* Loops.  Induction on the natural numbers stated with a set of numbers,  *)
(* and what it gives for the folds of the community modules: FoldLeft is   *)
(* defined over the subsets of a sequence's indices, largest index first,  *)
(* by the CHOOSE of a table that has to be shown to exist.                 *)
(* The loops over lines, array elements and templates are such folds, as   *)
(* those of the stores are (Storage_proofs has these lemmas for them).     *)
(***************************************************************************)
(* Every set of natural numbers with an element has a least one. *)
LEMMA LeastNatural ==
  ASSUME NEW T \in SUBSET Nat, T # {}
  PROVE  \E m \in T : \A k \in T : m <= k
<1> DEFINE R == OpToRel(<, Nat)
<1>1. IsWellFoundedOn(R, Nat)
  BY NatLessThanWellFounded, Zenon
<1>2. PICK m \in T : \A k \in T : ~(<<k, m>> \in R)
  <2> HIDE DEF R
  <2> QED BY <1>1, WFMin
<1>3. \A k \in T : ~(k < m)
  BY <1>2 DEF OpToRel
<1> QED BY <1>3

(* Induction over the passes of a loop: a set with 0 and the successor of each of its
   numbers has every natural number. *)
THEOREM Induction ==
  ASSUME NEW T, 0 \in T, \A n \in Nat : n \in T => n + 1 \in T
  PROVE  \A n \in Nat : n \in T
<1> SUFFICES ASSUME NEW c \in Nat, c \notin T PROVE FALSE
  OBVIOUS
<1> DEFINE B == Nat \ T
<1>1. PICK m \in B : \A k \in B : m <= k
  BY LeastNatural
<1>2. m # 0 OBVIOUS
<1>3. m - 1 \in Nat /\ m - 1 \in T
  BY <1>1, <1>2
<1> QED BY <1>3

(* The last index of a set of indices that reaches n + 1. *)
LEMMA MaxOfInterval ==
  ASSUME NEW n \in Nat, NEW s \in SUBSET (1..(n+1)), n + 1 \in s
  PROVE  Max(s) = n + 1
<1>1. \A y \in s : n + 1 >= y OBVIOUS
<1>2. \A x \in s : (\A y \in s : x >= y) => x = n + 1 OBVIOUS
<1> QED BY <1>1, <1>2 DEF Max

(* Max is attained on every set of indices with an element. *)
LEMMA MaxInSet ==
  ASSUME NEW n \in Nat, NEW s \in SUBSET (1..n), s # {}
  PROVE  Max(s) \in s /\ \A y \in s : y <= Max(s)
<1> DEFINE T == {n - x : x \in s}
<1>0. PICK z \in s : TRUE OBVIOUS
<1>1. T \in SUBSET Nat /\ T # {}
  <2>1. n - z \in T OBVIOUS
  <2>2. \A x \in s : n - x \in Nat OBVIOUS
  <2> QED BY <2>1, <2>2
<1>2. PICK m \in T : \A k \in T : m <= k
  <2> HIDE DEF T
  <2> QED BY <1>1, LeastNatural
<1>3. PICK x \in s : m = n - x OBVIOUS
<1>4. ASSUME NEW y \in s PROVE x >= y
  <2>1. n - y \in T OBVIOUS
  <2>2. x \in Int /\ y \in Int OBVIOUS
  <2>3. n - x <= n - y
    <3> HIDE DEF T
    <3> QED BY <1>2, <1>3, <2>1
  <2> QED BY <2>2, <2>3
<1> QED BY <1>4 DEF Max

(* The set of the first k indices, as the fold takes it apart. *)
LEMMA MaxOfPrefix ==
  ASSUME NEW n \in Nat, NEW k \in 1..n
  PROVE  /\ 1..k \in SUBSET (1..n)
         /\ 1..k # {}
         /\ Max(1..k) = k
         /\ (1..k) \ {k} = 1..(k-1)
<1>1. /\ k - 1 \in Nat
      /\ (k - 1) + 1 = k
      /\ 1..k \in SUBSET (1..k)
      /\ k \in 1..k
  OBVIOUS
<1>2. Max(1..k) = k
  BY <1>1, MaxOfInterval, Zenon
<1> QED BY <1>1, <1>2

(* The table FoldLeft chooses: what the loop has made of the elements at any set of
   indices, taken in order; step and its value are functions of one argument. *)
IsFoldTable(f, V, step, base, seq) ==
    /\ f \in [SUBSET (1..Len(seq)) -> V]
    /\ \A s \in SUBSET (1..Len(seq)) :
          f[s] = IF s = {} THEN base ELSE step[f[s \ {Max(s)}]][seq[Max(s)]]

(* A loop over a finite sequence has a result: the table exists when every pass keeps
   the value in V. *)
LEMMA FoldTableExists ==
  ASSUME NEW V, NEW X, NEW step, NEW base, NEW seq,
         step \in [V -> [X -> V]], base \in V, seq \in Seq(X)
  PROVE  \E f : IsFoldTable(f, V, step, base, seq)
<1> DEFINE Table(f, k) == /\ f \in [SUBSET (1..k) -> V]
                          /\ \A s \in SUBSET (1..k) :
                                f[s] = IF s = {} THEN base ELSE step[f[s \ {Max(s)}]][seq[Max(s)]]
           Good(k) == k <= Len(seq) => \E f : Table(f, k)
           T == {k \in Nat : Good(k)}
<1>1. 0 \in T
  <2> DEFINE g == [s \in {{}} |-> base]
  <2>1. 1..0 = {} /\ SUBSET (1..0) = {{}} OBVIOUS
  <2>2. Table(g, 0) BY <2>1
  <2> HIDE DEF Table
  <2> QED BY <2>2
<1>2. ASSUME NEW k \in Nat, k \in T PROVE k + 1 \in T
  <2>a. Good(k) BY <1>2
  <2> SUFFICES ASSUME k + 1 <= Len(seq) PROVE \E f : Table(f, k+1)
    <3> HIDE DEF Table
    <3> QED OBVIOUS
  <2>0. k <= Len(seq) /\ k + 1 \in 1..Len(seq) /\ seq[k+1] \in X
    OBVIOUS
  <2>1. PICK f : Table(f, k)
    <3> HIDE DEF Table
    <3> QED BY <2>a, <2>0
  <2> DEFINE S1 == SUBSET (1..(k+1))
             g == [s \in S1 |-> IF k + 1 \in s THEN step[f[s \ {k+1}]][seq[k+1]] ELSE f[s]]
  <2>2. \A s \in S1 : s \ {k+1} \in SUBSET (1..k)
    OBVIOUS
  <2>3. \A s \in S1 : k+1 \notin s => s \in SUBSET (1..k)
    OBVIOUS
  <2>4. g \in [S1 -> V]
    <3> SUFFICES ASSUME NEW s \in S1 PROVE g[s] \in V
      OBVIOUS
    <3>1. CASE k + 1 \in s
      <4>1. f[s \ {k+1}] \in V BY <2>1, <2>2
      <4>2. step[f[s \ {k+1}]][seq[k+1]] \in V BY <4>1, <2>0
      <4> QED BY <3>1, <4>2
    <3>2. CASE k + 1 \notin s
      <4>1. f[s] \in V BY <2>1, <2>3, <3>2
      <4> QED BY <3>2, <4>1
    <3> QED BY <3>1, <3>2
  <2>5. ASSUME NEW s \in S1
        PROVE  g[s] = IF s = {} THEN base ELSE step[g[s \ {Max(s)}]][seq[Max(s)]]
    <3>1. CASE k + 1 \in s
      <4>1. Max(s) = k + 1 BY <3>1, MaxOfInterval
      <4>2. s \ {k+1} \in S1 /\ k + 1 \notin s \ {k+1} OBVIOUS
      <4>3. g[s \ {k+1}] = f[s \ {k+1}] BY <4>2
      <4> QED BY <3>1, <4>1, <4>3
    <3>2. CASE k + 1 \notin s
      <4>1. s \in SUBSET (1..k) BY <3>2, <2>3
      <4>2. s \ {Max(s)} \in S1 /\ k + 1 \notin s \ {Max(s)} BY <3>2
      <4>3. g[s] = f[s] /\ g[s \ {Max(s)}] = f[s \ {Max(s)}]
        BY <3>2, <4>2
      <4>4. f[s] = IF s = {} THEN base ELSE step[f[s \ {Max(s)}]][seq[Max(s)]]
        BY <2>1, <4>1
      <4> QED BY <4>3, <4>4
    <3> QED BY <3>1, <3>2
  <2>6. Table(g, k+1) BY <2>4, <2>5
  <2> HIDE DEF Table
  <2> QED BY <2>6
<1>3. Len(seq) \in T
  <2>1. Len(seq) \in Nat OBVIOUS
  <2> HIDE DEF T
  <2> QED BY <1>1, <1>2, <2>1, Induction
<1>4. PICK f : Table(f, Len(seq))
  <2> HIDE DEF Table
  <2> QED BY <1>3
<1> QED BY <1>4 DEF IsFoldTable

(* What holds before a loop and is kept by each of its passes holds after it; it[1..k] is
   what the loop has made of the first k elements. *)
LEMMA FoldInvariant ==
  ASSUME NEW n \in Nat, NEW V, NEW it, it[{}] \in V,
         \A k \in 1..n : it[1..(k-1)] \in V => it[1..k] \in V
  PROVE  it[1..n] \in V
<1> DEFINE T == {k \in Nat : k <= n => it[1..k] \in V}
<1>1. 0 \in T
  <2>1. 1..0 = {} OBVIOUS
  <2> QED BY <2>1
<1>2. ASSUME NEW k \in Nat, k \in T PROVE k + 1 \in T
  <2> SUFFICES ASSUME k + 1 <= n PROVE it[1..(k+1)] \in V
    OBVIOUS
  <2>1. k + 1 \in 1..n /\ (k + 1) - 1 = k /\ it[1..k] \in V
    BY <1>2
  <2>2. it[1..((k+1)-1)] \in V
    BY <2>1
  <2> QED BY <2>1, <2>2
<1>3. \A k \in Nat : k \in T
  <2> HIDE DEF T
  <2> QED BY <1>1, <1>2, Induction
<1> QED BY <1>3

-------------------------------------------------------------------------------
(* The content keeps what the user put into the file, or the file is the tag dictionary and
   has tags. *)
Holds(f, c) == User \in Pieces(c) \/ (f = TagsFile /\ HasTags(c))
(* What a file can be: the files the scaffold edits line by line are never JSON. *)
Fits(f, c) == IsContent(c) /\ (f \in TextFiles => c.kind # "json")

(* The operations of a call: those of the scaffold and the tags, and the templates'. *)
GoodOp(op) ==
    /\ op.path \in Paths
    /\ \/ op.type = "append" /\ op.path = ".gitignore" /\ op.content = Text(GitIgnoreLines)
       \/ op.type = "env" /\ op.path = ".env.example" /\ op.content = Text(EnvKeys)
       \/ op.type = "scaffold" /\ op.path \notin TextFiles
            /\ op.content \in {BlankTests, BlankWorkflows, BlankRules}
       \/ op.type = "tags" /\ op.path = TagsFile /\ \E s \in BOOLEAN : op.content = TagsDocument(s)
       \/ \E t \in ToSet(Catalog) : op \in ToSet(t.ops)

(* A call has the fields of Idle. *)
IsCall(c) ==
    c = [pc |-> c.pc, ids |-> c.ids, suggest |-> c.suggest, at |-> c.at, read |-> c.read,
         content |-> c.content, how |-> c.how, mode |-> c.mode, again |-> c.again, calm |-> c.calm]
(* The operation a call is at. *)
OpOf(c) == Ops(c.ids, c.suggest)[c.at]
(* What a call carries from its reads to its write.  The crucial part is the last: a call
   that is about to replace a file holds a content that keeps the user's text if the file
   had it when the call read it. *)
GoodCall(c) ==
    /\ IsCall(c)
    /\ c.suggest \in BOOLEAN
    /\ c.at \in Nat
    /\ c.pc \in {"read", "reread", "temp", "publish"} => c.at \in DOMAIN Ops(c.ids, c.suggest)
    /\ c.pc = "reread" =>
          OpOf(c).type = "append" /\ c.content.kind = "text" /\ IsSeq(c.content.lines)
    /\ c.pc \in {"temp", "publish"} =>
          /\ Fits(OpOf(c).path, c.content)
          /\ c.how # "new" => (Holds(OpOf(c).path, c.read) => Holds(OpOf(c).path, c.content))

(* The inductive invariant.  UserTextSurvives alone is not inductive: that a write is
   harmless depends on what its call has read, and when. *)
IInv ==
    /\ files = [f \in Paths |-> files[f]] /\ \A f \in Paths : Fits(f, files[f])
    /\ calls = [p \in Procs |-> calls[p]] /\ \A p \in Procs : GoodCall(calls[p])
    /\ mine \subseteq Paths
    /\ UserTextSurvives

(* Appending to a sequence loses nothing. *)
LEMMA AppendedSet ==
  ASSUME NEW X, NEW l \in Seq(X), NEW x \in X
  PROVE  /\ Append(l, x) \in Seq(X)
         /\ ToSet(l) \subseteq ToSet(Append(l, x))
         /\ x \in ToSet(Append(l, x))
<1>1. \A i \in DOMAIN l : i \in DOMAIN Append(l, x) /\ Append(l, x)[i] = l[i]
  OBVIOUS
<1>2. Len(l) + 1 \in DOMAIN Append(l, x) /\ Append(l, x)[Len(l) + 1] = x
  OBVIOUS
<1> QED BY <1>1, <1>2 DEF ToSet

(* appendUniqueLines, ensureEnvExample: the loop that collects the missing lines keeps
   elements of the sequence that are wanted, and misses none. *)
LEMMA KeptElements ==
  ASSUME NEW X, NEW seq \in Seq(X), NEW keep
  PROVE  /\ Kept(seq, keep) \in Seq(X \cap keep)
         /\ ToSet(seq) \cap keep \subseteq ToSet(Kept(seq, keep))
<1> DEFINE n == Len(seq)
           D == 1..n
           base0 == <<>>
           V == Seq(X \cap keep)
           X0 == X
           step == [l \in V |-> [x \in X0 |-> IF x \in keep THEN Append(l, x) ELSE l]]
           Folds(f) == f = [s \in SUBSET DOMAIN seq |->
                                IF s = {} THEN <<>>
                                ELSE IF seq[Max(s)] \in keep THEN Append(f[s \ {Max(s)}], seq[Max(s)]) ELSE f[s \ {Max(s)}]]
           it == CHOOSE f : Folds(f)
<1>0. n \in Nat /\ DOMAIN seq = D /\ \A k \in D : seq[k] \in X0
  OBVIOUS
<1>1. Kept(seq, keep) = it[D]
  BY <1>0, Zenon DEF Kept, FoldLeft, MapThenFoldSet
<1>2. \E f : Folds(f)
  <2>0. base0 \in V /\ step \in [V -> [X0 -> V]] /\ seq \in Seq(X0)
    OBVIOUS
  <2>1. PICK f : IsFoldTable(f, V, step, base0, seq)
    <3> HIDE DEF step, base0, V, X0
    <3> QED BY <2>0, FoldTableExists
  <2>2. /\ f \in [SUBSET D -> V]
        /\ \A s \in SUBSET D :
               f[s] = IF s = {} THEN base0 ELSE step[f[s \ {Max(s)}]][seq[Max(s)]]
    <3> HIDE DEF step, base0, V, X0
    <3> QED BY <2>1 DEF IsFoldTable
  <2>3. ASSUME NEW s \in SUBSET D
        PROVE  f[s] = IF s = {} THEN <<>>
                      ELSE IF seq[Max(s)] \in keep THEN Append(f[s \ {Max(s)}], seq[Max(s)]) ELSE f[s \ {Max(s)}]
    <3>1. CASE s # {}
      <4>1. Max(s) \in D BY <3>1, MaxInSet, <1>0
      <4>2. f[s \ {Max(s)}] \in V BY <2>2
      <4>3. f[s] = step[f[s \ {Max(s)}]][seq[Max(s)]] BY <2>2, <3>1
      <4> HIDE DEF V, X0
      <4> QED BY <3>1, <4>1, <4>2, <4>3, <1>0
    <3>2. CASE s = {}
      BY <3>2, <2>2
    <3> QED BY <3>1, <3>2
  <2>4. f = [s \in SUBSET D |-> f[s]]
    <3> HIDE DEF V
    <3> QED BY <2>2
  <2>5. Folds(f)
    <3> HIDE DEF V, step
    <3> QED BY <2>3, <2>4, <1>0
  <2> HIDE DEF Folds
  <2> QED BY <2>5
<1>3. Folds(it)
  <2> HIDE DEF Folds
  <2> QED BY <1>2
<1>4. it[{}] \in V
  <2>1. it[{}] = base0
    <3> HIDE DEF it
    <3> QED BY <1>3, <1>0
  <2>2. base0 \in V
    OBVIOUS
  <2> HIDE DEF it, V, base0
  <2> QED BY <2>1, <2>2
<1>5. ASSUME NEW k \in D
      PROVE  it[1..k] = IF seq[k] \in keep THEN Append(it[1..(k-1)], seq[k]) ELSE it[1..(k-1)]
  <2>1. /\ 1..k \in SUBSET D /\ 1..k # {}
        /\ Max(1..k) = k /\ (1..k) \ {k} = 1..(k-1)
    BY <1>0, MaxOfPrefix
  <2>2. it[1..k] = IF seq[Max(1..k)] \in keep THEN Append(it[(1..k) \ {Max(1..k)}], seq[Max(1..k)]) ELSE it[(1..k) \ {Max(1..k)}]
    <3> HIDE DEF it
    <3> QED BY <1>0, <1>3, <2>1
  <2> HIDE DEF it
  <2> QED BY <2>1, <2>2
<1>6. ASSUME NEW k \in D, it[1..(k-1)] \in V PROVE it[1..k] \in V
  <2> DEFINE l == it[1..(k-1)]
             x == seq[k]
  <2>1. x \in X0 /\ l \in V
    BY <1>0, <1>6
  <2>2. it[1..k] = IF x \in keep THEN Append(l, x) ELSE l
    BY <1>5
  <2> HIDE DEF it, l, x
  <2> QED BY <2>1, <2>2
<1>7. ASSUME NEW k \in 0..n PROVE it[1..k] \in V
  <2> HIDE DEF it, V
  <2> QED BY <1>0, <1>4, <1>6, FoldInvariant
<1> DEFINE good == [s \in SUBSET D |-> \A j \in s : seq[j] \in keep => seq[j] \in ToSet(it[s])]
<1>8. ASSUME NEW k \in D, good[1..(k-1)] PROVE good[1..k]
  <2> DEFINE l == it[1..(k-1)]
             x == seq[k]
  <2>0. /\ 1..k \in SUBSET D /\ 1..(k-1) \in SUBSET D /\ k - 1 \in 0..n
        /\ \A j \in 1..k : j \in 1..(k-1) \/ j = k
    BY <1>0
  <2>1. x \in X0 /\ l \in V /\ \A j \in 1..(k-1) : seq[j] \in keep => seq[j] \in ToSet(l)
    BY <1>0, <1>7, <1>8, <2>0
  <2>2. it[1..k] = IF x \in keep THEN Append(l, x) ELSE l
    BY <1>5
  <2>3. x \in keep => ToSet(l) \subseteq ToSet(Append(l, x)) /\ x \in ToSet(Append(l, x))
    <3> HIDE DEF l, x, it
    <3> QED BY <2>1, AppendedSet
  <2>4. \A j \in 1..k : seq[j] \in keep => seq[j] \in ToSet(it[1..k])
    <3> HIDE DEF l, it
    <3> QED BY <2>0, <2>1, <2>2, <2>3
  <2> HIDE DEF it
  <2> QED BY <2>0, <2>4
<1>9. good[D]
  <2>1. good[{}]
    OBVIOUS
  <2> DEFINE Yes == {TRUE}
  <2>2. \A s \in SUBSET D : good[s] \in BOOLEAN
    <3> HIDE DEF it
    <3> QED OBVIOUS
  <2>3. \A k \in D : 1..k \in SUBSET D /\ 1..(k-1) \in SUBSET D
    BY <1>0
  <2> HIDE DEF good
  <2>4. good[{}] \in Yes /\ \A k \in 1..n : good[1..(k-1)] \in Yes => good[1..k] \in Yes
    BY <1>8, <2>1, <2>2, <2>3
  <2> HIDE DEF Yes
  <2>5. good[1..n] \in Yes
    BY <1>0, <2>4, FoldInvariant
  <2> QED BY <2>5 DEF Yes
<1>10. ToSet(seq) \cap keep \subseteq ToSet(it[D])
  <2>1. \A j \in D : seq[j] \in keep => seq[j] \in ToSet(it[D])
    <3> HIDE DEF it
    <3> QED BY <1>9
  <2> HIDE DEF it
  <2> QED BY <1>0, <2>1 DEF ToSet
<1>11. it[D] \in V
  <2>1. n \in 0..n
    BY <1>0
  <2> HIDE DEF it, V
  <2> QED BY <2>1, <1>7
<1> HIDE DEF it, D
<1> QED BY <1>1, <1>10, <1>11

(* mergeInitJSONValues on arrays (templates.go:709-725): the loop loses no element of
   the target and leaves out none of the source, and adds none the target has. *)
LEMMA AppendKeeps ==
  ASSUME NEW X, NEW a \in Seq(X), NEW b \in Seq(X)
  PROVE  /\ AppendNew(a, b) \in Seq(X)
         /\ ToSet(a) \cup ToSet(b) \subseteq ToSet(AppendNew(a, b))
         /\ ToSet(b) \subseteq ToSet(a) => AppendNew(a, b) = a
<1> DEFINE n == Len(b)
           D == 1..n
           base0 == a
           V == {l \in Seq(X) : ToSet(a) \subseteq ToSet(l)}
           X0 == X
           step == [l \in V |-> [x \in X0 |-> IF x \in ToSet(l) THEN l ELSE Append(l, x)]]
           Folds(f) == f = [s \in SUBSET DOMAIN b |->
                                IF s = {} THEN a
                                ELSE IF b[Max(s)] \in ToSet(f[s \ {Max(s)}]) THEN f[s \ {Max(s)}] ELSE Append(f[s \ {Max(s)}], b[Max(s)])]
           it == CHOOSE f : Folds(f)
<1>0. n \in Nat /\ DOMAIN b = D /\ \A k \in D : b[k] \in X0
  OBVIOUS
<1>1. AppendNew(a, b) = it[D]
  BY <1>0, Zenon DEF AppendNew, FoldLeft, MapThenFoldSet
<1>2. \E f : Folds(f)
  <2>0. base0 \in V /\ step \in [V -> [X0 -> V]] /\ b \in Seq(X0)
    BY AppendedSet
  <2>1. PICK f : IsFoldTable(f, V, step, base0, b)
    <3> HIDE DEF step, base0, V, X0
    <3> QED BY <2>0, FoldTableExists
  <2>2. /\ f \in [SUBSET D -> V]
        /\ \A s \in SUBSET D :
               f[s] = IF s = {} THEN base0 ELSE step[f[s \ {Max(s)}]][b[Max(s)]]
    <3> HIDE DEF step, base0, V, X0
    <3> QED BY <2>1 DEF IsFoldTable
  <2>3. ASSUME NEW s \in SUBSET D
        PROVE  f[s] = IF s = {} THEN a
                      ELSE IF b[Max(s)] \in ToSet(f[s \ {Max(s)}]) THEN f[s \ {Max(s)}] ELSE Append(f[s \ {Max(s)}], b[Max(s)])
    <3>1. CASE s # {}
      <4>1. Max(s) \in D BY <3>1, MaxInSet, <1>0
      <4>2. f[s \ {Max(s)}] \in V BY <2>2
      <4>3. f[s] = step[f[s \ {Max(s)}]][b[Max(s)]] BY <2>2, <3>1
      <4> HIDE DEF V, X0
      <4> QED BY <3>1, <4>1, <4>2, <4>3, <1>0
    <3>2. CASE s = {}
      BY <3>2, <2>2
    <3> QED BY <3>1, <3>2
  <2>4. f = [s \in SUBSET D |-> f[s]]
    <3> HIDE DEF V
    <3> QED BY <2>2
  <2>5. Folds(f)
    <3> HIDE DEF V, step
    <3> QED BY <2>3, <2>4, <1>0
  <2> HIDE DEF Folds
  <2> QED BY <2>5
<1>3. Folds(it)
  <2> HIDE DEF Folds
  <2> QED BY <1>2
<1>4. it[{}] \in V
  <2>1. it[{}] = base0
    <3> HIDE DEF it
    <3> QED BY <1>3, <1>0
  <2>2. base0 \in V
    BY AppendedSet
  <2> HIDE DEF it, V, base0
  <2> QED BY <2>1, <2>2
<1>5. ASSUME NEW k \in D
      PROVE  it[1..k] = IF b[k] \in ToSet(it[1..(k-1)]) THEN it[1..(k-1)] ELSE Append(it[1..(k-1)], b[k])
  <2>1. /\ 1..k \in SUBSET D /\ 1..k # {}
        /\ Max(1..k) = k /\ (1..k) \ {k} = 1..(k-1)
    BY <1>0, MaxOfPrefix
  <2>2. it[1..k] = IF b[Max(1..k)] \in ToSet(it[(1..k) \ {Max(1..k)}]) THEN it[(1..k) \ {Max(1..k)}] ELSE Append(it[(1..k) \ {Max(1..k)}], b[Max(1..k)])
    <3> HIDE DEF it
    <3> QED BY <1>0, <1>3, <2>1
  <2> HIDE DEF it
  <2> QED BY <2>1, <2>2
<1>6. ASSUME NEW k \in D, it[1..(k-1)] \in V PROVE it[1..k] \in V
  <2> DEFINE l == it[1..(k-1)]
             x == b[k]
  <2>1. x \in X0 /\ l \in V
    BY <1>0, <1>6
  <2>2. it[1..k] = IF x \in ToSet(l) THEN l ELSE Append(l, x)
    BY <1>5
  <2> HIDE DEF it, l, x
  <2> QED BY <2>1, <2>2, AppendedSet
<1>7. ASSUME NEW k \in 0..n PROVE it[1..k] \in V
  <2> HIDE DEF it, V
  <2> QED BY <1>0, <1>4, <1>6, FoldInvariant
<1> DEFINE good == [s \in SUBSET D |-> \A j \in s : b[j] \in ToSet(it[s])]
<1>8. ASSUME NEW k \in D, good[1..(k-1)] PROVE good[1..k]
  <2> DEFINE l == it[1..(k-1)]
             x == b[k]
  <2>0. /\ 1..k \in SUBSET D /\ 1..(k-1) \in SUBSET D /\ k - 1 \in 0..n
        /\ \A j \in 1..k : j \in 1..(k-1) \/ j = k
    BY <1>0
  <2>1. x \in X0 /\ l \in V /\ \A j \in 1..(k-1) : b[j] \in ToSet(l)
    BY <1>0, <1>7, <1>8, <2>0
  <2>2. it[1..k] = IF x \in ToSet(l) THEN l ELSE Append(l, x)
    BY <1>5
  <2>3. ToSet(l) \subseteq ToSet(Append(l, x)) /\ x \in ToSet(Append(l, x))
    <3> HIDE DEF l, x, it
    <3> QED BY <2>1, AppendedSet
  <2>4. \A j \in 1..k : b[j] \in ToSet(it[1..k])
    <3> HIDE DEF l, it
    <3> QED BY <2>0, <2>1, <2>2, <2>3
  <2> HIDE DEF it
  <2> QED BY <2>0, <2>4
<1>9. good[D]
  <2>1. good[{}]
    OBVIOUS
  <2> DEFINE Yes == {TRUE}
  <2>2. \A s \in SUBSET D : good[s] \in BOOLEAN
    <3> HIDE DEF it
    <3> QED OBVIOUS
  <2>3. \A k \in D : 1..k \in SUBSET D /\ 1..(k-1) \in SUBSET D
    BY <1>0
  <2> HIDE DEF good
  <2>4. good[{}] \in Yes /\ \A k \in 1..n : good[1..(k-1)] \in Yes => good[1..k] \in Yes
    BY <1>8, <2>1, <2>2, <2>3
  <2> HIDE DEF Yes
  <2>5. good[1..n] \in Yes
    BY <1>0, <2>4, FoldInvariant
  <2> QED BY <2>5 DEF Yes
<1>10. ToSet(b) \subseteq ToSet(it[D])
  <2>1. \A j \in D : b[j] \in ToSet(it[D])
    <3> HIDE DEF it
    <3> QED BY <1>9
  <2> HIDE DEF it
  <2> QED BY <1>0, <2>1 DEF ToSet
<1>11. it[D] \in V
  <2>1. n \in 0..n
    BY <1>0
  <2> HIDE DEF it, V
  <2> QED BY <2>1, <1>7
<1>12. ASSUME ToSet(b) \subseteq ToSet(a) PROVE it[D] = a
  <2> DEFINE Same == {a}
  <2>1. it[{}] \in Same
    <3> HIDE DEF it
    <3> QED BY <1>3, <1>0
  <2>2. ASSUME NEW k \in D, it[1..(k-1)] \in Same PROVE it[1..k] \in Same
    <3>1. b[k] \in ToSet(a) BY <1>0, <1>12 DEF ToSet
    <3>2. it[1..k] = IF b[k] \in ToSet(it[1..(k-1)]) THEN it[1..(k-1)] ELSE Append(it[1..(k-1)], b[k])
      BY <1>5
    <3> HIDE DEF it
    <3> QED BY <3>1, <3>2, <2>2
  <2>3. it[D] \in Same
    <3> HIDE DEF it, Same
    <3> QED BY <1>0, <2>1, <2>2, FoldInvariant
  <2> HIDE DEF it
  <2> QED BY <2>3
<1> HIDE DEF it, D
<1> QED BY <1>1, <1>10, <1>11, <1>12

(* The operations of the scaffold and the tags are what scaffold.go and tags.go write. *)
LEMMA BasicsElements ==
  ASSUME NEW suggest \in BOOLEAN
  PROVE  /\ Basics(suggest) \in Seq(ToSet(Basics(suggest)))
         /\ \A op \in ToSet(Basics(suggest)) : GoodOp(op)
<1> DEFINE all == Scaffold \o Tags(suggest)
           X == ToSet(all)
           keep == {op \in X : op.path \in Paths}
<1>1. all \in Seq(X)
  BY DEF Scaffold, Tags, ToSet
<1>2. Basics(suggest) \in Seq(X \cap keep)
  <2> HIDE DEF all, X, keep
  <2>1. Kept(all, keep) \in Seq(X \cap keep) BY <1>1, KeptElements
  <2> QED BY <2>1 DEF Basics, all, X, keep
<1>3. ASSUME NEW op \in X, op.path \in Paths PROVE GoodOp(op)
  <2>1. op \in {Scaffold[1], Scaffold[2], Scaffold[3], Scaffold[4], Scaffold[5], Tags(suggest)[1]}
    BY DEF Scaffold, Tags, ToSet
  <2>2. CASE op \in {Scaffold[1], Scaffold[2]}
    BY <1>3, <2>2 DEF Scaffold, Op, GoodOp
  <2>3. CASE op \in {Scaffold[3], Scaffold[4], Scaffold[5]}
    BY <1>3, <2>3 DEF Scaffold, Op, GoodOp, TextFiles
  <2>4. CASE op = Tags(suggest)[1]
    BY <1>3, <2>4 DEF Tags, Op, GoodOp
  <2> QED BY <2>1, <2>2, <2>3, <2>4
<1>4. ToSet(Basics(suggest)) \subseteq X \cap keep
  <2> HIDE DEF X, keep
  <2> QED BY <1>2 DEF ToSet
<1>5. Basics(suggest) \in Seq(ToSet(Basics(suggest)))
  <2> HIDE DEF X, keep
  <2> QED BY <1>2 DEF ToSet
<1> QED BY <1>3, <1>4, <1>5

(* A call's operations are those of the scaffold and the tags, then those of the templates. *)
TemplateOps == UNION {ToSet(t.ops) : t \in ToSet(Catalog)}
InOrder(l) == \A i, j \in DOMAIN l : i < j /\ IsTemplateOp(l[i]) => IsTemplateOp(l[j])

(* No two operations of the scaffold and the tags are about one file (scaffold.go, tags.go). *)
LEMMA BasicsApart ==
  ASSUME NEW suggest \in BOOLEAN
  PROVE  /\ \A op \in ToSet(Basics(suggest)) : ~IsTemplateOp(op)
         /\ \A a, b \in ToSet(Basics(suggest)) : a.path = b.path => a = b
<1> DEFINE all == Scaffold \o Tags(suggest)
           X == ToSet(all)
           keep == {op \in X : op.path \in Paths}
<1>1. all \in Seq(X)
  BY DEF Scaffold, Tags, ToSet
<1>2. Basics(suggest) \in Seq(X \cap keep)
  <2> HIDE DEF all, X, keep
  <2>1. Kept(all, keep) \in Seq(X \cap keep) BY <1>1, KeptElements
  <2> QED BY <2>1 DEF Basics, all, X, keep
<1>3. ToSet(Basics(suggest)) \subseteq X
  <2> HIDE DEF X, keep
  <2> QED BY <1>2 DEF ToSet
<1>4. X = {Scaffold[1], Scaffold[2], Scaffold[3], Scaffold[4], Scaffold[5], Tags(suggest)[1]}
  BY DEF Scaffold, Tags, ToSet
<1>5. /\ Scaffold[1].path = ".gitignore" /\ Scaffold[1].type = "append"
      /\ Scaffold[2].path = ".env.example" /\ Scaffold[2].type = "env"
      /\ Scaffold[3].path = ".awm/awm-tests.yaml" /\ Scaffold[3].type = "scaffold"
      /\ Scaffold[4].path = ".awm/awm-workflows.yaml" /\ Scaffold[4].type = "scaffold"
      /\ Scaffold[5].path = ".awm/awm-rules.yaml" /\ Scaffold[5].type = "scaffold"
      /\ Tags(suggest)[1].path = ".awm/awm-tags.yaml" /\ Tags(suggest)[1].type = "tags"
  BY DEF Scaffold, Tags, Op, TagsFile
<1> HIDE DEF X
<1>6. \A op \in X : ~IsTemplateOp(op)
  BY <1>4, <1>5 DEF IsTemplateOp
<1>7. \A a, b \in X : a.path = b.path => a = b
  BY <1>4, <1>5
<1> QED BY <1>3, <1>6, <1>7

(* The operations of a template come after others of their kind only. *)
LEMMA AppendedInOrder ==
  ASSUME NEW Y, NEW l \in Seq(Y), NEW m \in Seq(Y), InOrder(l),
         \A i \in DOMAIN m : IsTemplateOp(m[i])
  PROVE  l \o m \in Seq(Y) /\ InOrder(l \o m)
<1>1. l \o m \in Seq(Y) /\ Len(l \o m) = Len(l) + Len(m) /\ Len(l) \in Nat /\ Len(m) \in Nat
  OBVIOUS
<1>2. \A i \in 1..Len(l) : (l \o m)[i] = l[i]
  OBVIOUS
<1>3. \A i \in Len(l)+1..Len(l)+Len(m) : i - Len(l) \in DOMAIN m /\ (l \o m)[i] = m[i - Len(l)]
  OBVIOUS
<1>4. DOMAIN l = 1..Len(l) /\ DOMAIN (l \o m) = 1..(Len(l) + Len(m))
  OBVIOUS
<1>5. ASSUME NEW i \in DOMAIN (l \o m), NEW j \in DOMAIN (l \o m), i < j, IsTemplateOp((l \o m)[i])
      PROVE  IsTemplateOp((l \o m)[j])
  <2>1. CASE j \in 1..Len(l)
    <3>1. i \in 1..Len(l) BY <1>1, <1>4, <1>5, <2>1
    <3>2. (l \o m)[i] = l[i] /\ (l \o m)[j] = l[j] BY <3>1, <2>1, <1>2
    <3>3. i \in DOMAIN l /\ j \in DOMAIN l BY <3>1, <2>1, <1>4
    <3> QED BY <3>2, <3>3, <1>5 DEF InOrder
  <2>2. CASE j \in Len(l)+1..Len(l)+Len(m)
    BY <2>2, <1>3
  <2> QED BY <2>1, <2>2, <1>1, <1>4, <1>5
<1> QED BY <1>1, <1>5 DEF InOrder

(* What the loop over the templates starts from and appends. *)
LEMMA OpsParts ==
  ASSUME NEW suggest \in BOOLEAN,
         NEW Y, Y = ToSet(Basics(suggest)) \cup TemplateOps
  PROVE  /\ Basics(suggest) \in Seq(Y) /\ InOrder(Basics(suggest))
         /\ \A t \in ToSet(Catalog) : t.ops \in Seq(Y) /\ \A i \in DOMAIN t.ops : IsTemplateOp(t.ops[i])
<1>1. Basics(suggest) \in Seq(ToSet(Basics(suggest)))
  BY BasicsElements
<1>2. ASSUME NEW t \in ToSet(Catalog)
      PROVE  t.ops \in Seq(Y) /\ \A i \in DOMAIN t.ops : IsTemplateOp(t.ops[i])
  <2>1. t.ops \in Seq(ToSet(t.ops)) /\ ToSet(t.ops) \subseteq Y
    BY ProjectAssumption DEF IsSeq, TemplateOps
  <2>2. \A op \in ToSet(t.ops) : IsTemplateOp(op)
    BY ProjectAssumption DEF IsTemplateOp
  <2> QED BY <2>1, <2>2
<1>3. \A i \in DOMAIN Basics(suggest) : Basics(suggest)[i] \in ToSet(Basics(suggest))
  BY DEF ToSet
<1>4. InOrder(Basics(suggest))
  BY <1>3, BasicsApart DEF InOrder
<1> QED BY <1>1, <1>2, <1>4

(* ApplyTemplates (templates.go:303-323): the loop over the templates yields operations of
   the scaffold, the tags and the templates, and no others, those of the templates last. *)
LEMMA OpsElements ==
  ASSUME NEW ids, NEW suggest \in BOOLEAN
  PROVE  /\ Ops(ids, suggest) \in Seq(ToSet(Basics(suggest)) \cup TemplateOps)
         /\ InOrder(Ops(ids, suggest))
<1> DEFINE n == Len(Catalog)
           D == 1..n
           base0 == Basics(suggest)
           Y == ToSet(Basics(suggest)) \cup TemplateOps
           V == {l \in Seq(Y) : InOrder(l)}
           X0 == ToSet(Catalog)
           step == [l \in V |-> [x \in X0 |-> IF x.id \in ids THEN l \o x.ops ELSE l]]
           Folds(f) == f = [s \in SUBSET DOMAIN Catalog |->
                                IF s = {} THEN Basics(suggest)
                                ELSE IF Catalog[Max(s)].id \in ids THEN f[s \ {Max(s)}] \o Catalog[Max(s)].ops ELSE f[s \ {Max(s)}]]
           it == CHOOSE f : Folds(f)
<1>0. n \in Nat /\ DOMAIN Catalog = D /\ \A k \in D : Catalog[k] \in X0
  BY ProjectAssumption DEF IsSeq
<1>0a. base0 \in V
  <2>1. Basics(suggest) \in Seq(Y) /\ InOrder(Basics(suggest))
    BY OpsParts
  <2> HIDE DEF Y
  <2> QED BY <2>1
<1>0b. ASSUME NEW l \in V, NEW t \in X0 PROVE l \o t.ops \in V
  <2>1. t.ops \in Seq(Y) /\ \A i \in DOMAIN t.ops : IsTemplateOp(t.ops[i])
    BY OpsParts
  <2> HIDE DEF Y
  <2> QED BY <2>1, AppendedInOrder
<1>1. Ops(ids, suggest) = it[D]
  BY <1>0, Zenon DEF Ops, FoldLeft, MapThenFoldSet
<1>2. \E f : Folds(f)
  <2>0. base0 \in V /\ step \in [V -> [X0 -> V]] /\ Catalog \in Seq(X0)
    BY <1>0a, <1>0b, ProjectAssumption DEF IsSeq
  <2>1. PICK f : IsFoldTable(f, V, step, base0, Catalog)
    <3> HIDE DEF step, base0, V, X0
    <3> QED BY <2>0, FoldTableExists
  <2>2. /\ f \in [SUBSET D -> V]
        /\ \A s \in SUBSET D :
               f[s] = IF s = {} THEN base0 ELSE step[f[s \ {Max(s)}]][Catalog[Max(s)]]
    <3> HIDE DEF step, base0, V, X0
    <3> QED BY <2>1 DEF IsFoldTable
  <2>3. ASSUME NEW s \in SUBSET D
        PROVE  f[s] = IF s = {} THEN Basics(suggest)
                      ELSE IF Catalog[Max(s)].id \in ids THEN f[s \ {Max(s)}] \o Catalog[Max(s)].ops ELSE f[s \ {Max(s)}]
    <3>1. CASE s # {}
      <4>1. Max(s) \in D BY <3>1, MaxInSet, <1>0
      <4>2. f[s \ {Max(s)}] \in V BY <2>2
      <4>3. f[s] = step[f[s \ {Max(s)}]][Catalog[Max(s)]] BY <2>2, <3>1
      <4> HIDE DEF V, X0
      <4> QED BY <3>1, <4>1, <4>2, <4>3, <1>0
    <3>2. CASE s = {}
      BY <3>2, <2>2
    <3> QED BY <3>1, <3>2
  <2>4. f = [s \in SUBSET D |-> f[s]]
    <3> HIDE DEF V
    <3> QED BY <2>2
  <2>5. Folds(f)
    <3> HIDE DEF V, step
    <3> QED BY <2>3, <2>4, <1>0
  <2> HIDE DEF Folds
  <2> QED BY <2>5
<1>3. Folds(it)
  <2> HIDE DEF Folds
  <2> QED BY <1>2
<1>4. it[{}] \in V
  <2>1. it[{}] = base0
    <3> HIDE DEF it
    <3> QED BY <1>3, <1>0
  <2>2. base0 \in V
    BY <1>0a
  <2> HIDE DEF it, V, base0
  <2> QED BY <2>1, <2>2
<1>5. ASSUME NEW k \in D, it[1..(k-1)] \in V PROVE it[1..k] \in V
  <2> DEFINE l == it[1..(k-1)]
             x == Catalog[k]
  <2>1. /\ 1..k \in SUBSET D /\ 1..k # {}
        /\ Max(1..k) = k /\ (1..k) \ {k} = 1..(k-1)
    BY <1>0, MaxOfPrefix
  <2>2. it[1..k] = IF Catalog[Max(1..k)].id \in ids THEN it[(1..k) \ {Max(1..k)}] \o Catalog[Max(1..k)].ops ELSE it[(1..k) \ {Max(1..k)}]
    <3> HIDE DEF it
    <3> QED BY <1>0, <1>3, <2>1
  <2>3. it[1..k] = IF x.id \in ids THEN l \o x.ops ELSE l
    <3> HIDE DEF it
    <3> QED BY <2>1, <2>2
  <2>4. x \in X0 /\ l \in V
    BY <1>0, <1>5
  <2> HIDE DEF it, l, x
  <2> QED BY <2>3, <2>4, <1>0b
<1>6. it[D] \in V
  <2> HIDE DEF it, V
  <2> QED BY <1>0, <1>4, <1>5, FoldInvariant
<1> HIDE DEF it, D
<1> QED BY <1>1, <1>6

(* Every operation of a call is a good one. *)
LEMMA OpsAreGood ==
  ASSUME NEW ids, NEW suggest \in BOOLEAN
  PROVE  /\ Len(Ops(ids, suggest)) \in Nat
         /\ DOMAIN Ops(ids, suggest) = 1..Len(Ops(ids, suggest))
         /\ \A i \in DOMAIN Ops(ids, suggest) : GoodOp(Ops(ids, suggest)[i])
<1> DEFINE Y == ToSet(Basics(suggest)) \cup TemplateOps
           ops == Ops(ids, suggest)
<1>1. ops \in Seq(Y)
  BY OpsElements
<1>2. ASSUME NEW op \in Y PROVE GoodOp(op)
  <2>1. CASE op \in ToSet(Basics(suggest))
    BY <2>1, BasicsElements
  <2>2. CASE \E t \in ToSet(Catalog) : op \in ToSet(t.ops)
    BY <2>2, ProjectAssumption DEF GoodOp
  <2> QED BY <2>1, <2>2 DEF TemplateOps
<1> HIDE DEF Y, ops
<1> QED BY <1>1, <1>2 DEF ops

(* A sequence is one of every set that has its elements. *)
LEMMA SeqOfLarger ==
  ASSUME NEW s, IsSeq(s), NEW X, ToSet(s) \subseteq X
  PROVE  s \in Seq(X)
BY DEF IsSeq

(* A sequence of any set is a sequence of its own elements. *)
LEMMA SeqIsSeq ==
  ASSUME NEW X, NEW s \in Seq(X)
  PROVE  IsSeq(s)
<1>1. \A i \in DOMAIN s : s[i] \in ToSet(s)
  BY DEF ToSet
<1> QED BY <1>1 DEF IsSeq

(* Lines added at the end of a text leave its lines. *)
LEMMA TextGrows ==
  ASSUME NEW a, NEW b, IsSeq(a), IsSeq(b)
  PROVE  IsSeq(a \o b) /\ ToSet(a) \subseteq ToSet(a \o b)
<1> DEFINE X == ToSet(a) \cup ToSet(b)
<1>0. a \in Seq(X) /\ b \in Seq(X)
  BY SeqOfLarger
<1>1. \A i \in DOMAIN a : i \in DOMAIN (a \o b) /\ (a \o b)[i] = a[i]
  <2> HIDE DEF X
  <2> QED BY <1>0
<1>2. a \o b \in Seq(X)
  BY <1>0
<1>3. ToSet(a) \subseteq ToSet(a \o b)
  BY <1>1 DEF ToSet
<1> HIDE DEF X
<1> QED BY <1>2, <1>3, SeqIsSeq

(* mergeInitJSONValues: when the merge succeeds, every key, leaf and array element of the
   target is in the result. *)
LEMMA MergeKeeps ==
  ASSUME NEW v, NEW w, Mergeable(v, w),
         \A p \in DOMAIN v : IsNode(v[p]), \A p \in DOMAIN w : IsNode(w[p])
  PROVE  /\ IsContent(Json(Merge(v, w)))
         /\ Pieces(Json(v)) \subseteq Pieces(Json(Merge(v, w)))
<1> DEFINE m == Merge(v, w)
<1>1. ASSUME NEW p \in DOMAIN v
      PROVE  p \in DOMAIN m /\ IsNode(m[p]) /\ NodePieces(v[p]) \subseteq NodePieces(m[p])
  <2>1. CASE p \in DOMAIN w /\ w[p].k = "arr"
    <3> DEFINE a == v[p].a
               b == w[p].a
    <3>1. v[p].k = "arr" /\ IsSeq(a) /\ IsSeq(b)
      BY <2>1 DEF Mergeable, IsNode
    <3> HIDE DEF a, b
    <3> DEFINE X == ToSet(a) \cup ToSet(b)
    <3>2. a \in Seq(X) /\ b \in Seq(X)
      BY <3>1, SeqOfLarger
    <3> HIDE DEF X
    <3>3. IsSeq(AppendNew(a, b)) /\ ToSet(a) \subseteq ToSet(AppendNew(a, b))
      BY <3>2, AppendKeeps, SeqIsSeq
    <3>4. p \in DOMAIN m /\ m[p] = Arr(AppendNew(a, b))
      BY <2>1 DEF Merge, a, b
    <3>5. m[p].k = "arr" /\ m[p].a = AppendNew(a, b)
      BY <3>4 DEF Arr
    <3> HIDE DEF m
    <3> QED BY <3>1, <3>3, <3>4, <3>5 DEF NodePieces, IsNode, a
  <2>2. CASE ~(p \in DOMAIN w /\ w[p].k = "arr")
    <3>1. p \in DOMAIN m /\ m[p] = v[p]
      BY <2>2 DEF Merge
    <3> QED BY <3>1
  <2> QED BY <2>1, <2>2
<1>2. ASSUME NEW p \in DOMAIN m
      PROVE  IsNode(m[p])
  <2>1. CASE p \in DOMAIN v
    BY <2>1, <1>1
  <2>2. CASE p \notin DOMAIN v
    <3>1. p \in DOMAIN w /\ m[p] = w[p]
      BY <2>2 DEF Merge
    <3> QED BY <3>1
  <2> QED BY <2>1, <2>2
<1>3. IsContent(Json(m))
  <2> HIDE DEF m
  <2> QED BY <1>2 DEF IsContent, Json
<1>4. Pieces(Json(v)) \subseteq Pieces(Json(m))
  <2> HIDE DEF m
  <2> QED BY <1>1 DEF Pieces, Json
<1> QED BY <1>3, <1>4

(* What the judgement of a file guarantees: a replacement keeps the user's text. *)
GoodVerdict(op, v) ==
    LET f == op.path
    IN  /\ v.does \in {"skip", "conflict", "fail", "reread", "new", "replace"}
        /\ v.does = "reread" => /\ op.type = "append"
                                /\ v.content.kind = "text" /\ IsSeq(v.content.lines)
        /\ v.does \in {"new", "replace"} => Fits(f, v.content)
        /\ v.does = "replace" /\ Holds(f, files[f]) => Holds(f, v.content)

(* Which file an operation of each type is about. *)
LEMMA PathsOfTemplates ==
  ASSUME NEW op, GoodOp(op)
  PROVE  /\ op.type = "append" => op.path = ".gitignore" /\ op.content = Text(GitIgnoreLines)
         /\ op.type = "env" => op.path = ".env.example" /\ op.content = Text(EnvKeys)
         /\ op.type = "scaffold" => op.path \notin TextFiles /\ op.content \in {BlankTests, BlankWorkflows, BlankRules}
         /\ op.type = "tags" => op.path = TagsFile /\ \E s \in BOOLEAN : op.content = TagsDocument(s)
         /\ IsTemplateOp(op) =>
              /\ op.path \notin TextFiles \cup {TagsFile}
              /\ IsContent(op.content)
              /\ op.type = "merge_json" => op.content.kind = "json"
              /\ \A c \in op.pristine : User \notin Pieces(c)
         /\ op.type \in {"append", "env", "scaffold", "tags", "create_if_missing",
               "replace_if_pristine", "create_or_replace_if_pristine", "merge_json"}
<1>1. CASE \E t \in ToSet(Catalog) : op \in ToSet(t.ops)
  BY <1>1, ProjectAssumption DEF IsTemplateOp
<1>2. CASE ~\E t \in ToSet(Catalog) : op \in ToSet(t.ops)
  BY <1>2 DEF GoodOp, IsTemplateOp
<1> QED BY <1>1, <1>2

(* The missing lines are a sequence. *)
LEMMA LinesMissingType ==
  ASSUME NEW c, NEW want, IsSeq(want)
  PROVE  IsSeq(LinesMissing(c, want))
<1> DEFINE keep == ToSet(want) \ Pieces(c)
           X == ToSet(want)
<1>1. want \in Seq(X)
  BY DEF IsSeq
<1> HIDE DEF X, keep
<1>2. Kept(want, keep) \in Seq(X \cap keep)
  BY <1>1, KeptElements
<1>3. LinesMissing(c, want) \in Seq(X \cap keep)
  BY <1>2 DEF LinesMissing, keep
<1> QED BY <1>3, SeqIsSeq

(* A text fits every file. *)
LEMMA TextFits ==
  ASSUME NEW f, NEW l, IsSeq(l)
  PROVE  Fits(f, Text(l))
BY DEF Fits, IsContent, Text

(* The literal texts of the scaffold are sequences. *)
LEMMA ShortTexts ==
  ASSUME NEW x, NEW y
  PROVE  IsSeq(<<x>>) /\ IsSeq(<<x, y>>)
<1>1. <<x>> \in Seq({x}) /\ <<x, y>> \in Seq({x, y})
  OBVIOUS
<1> QED BY <1>1, SeqIsSeq

(* The blank scaffold files and the tag dictionary fit every file. *)
LEMMA FixedTextsFit ==
  ASSUME NEW f
  PROVE  /\ \A d \in {BlankTests, BlankWorkflows, BlankRules} : Fits(f, d)
         /\ \A s \in BOOLEAN : Fits(f, TagsDocument(s))
<1>1. \A d \in {BlankTests, BlankWorkflows, BlankRules} : Fits(f, d)
  BY ShortTexts, TextFits DEF BlankTests, BlankWorkflows, BlankRules
<1>2. TagsDocument(TRUE) = Text(<<"tags_version", "tags">>)
      /\ TagsDocument(FALSE) = Text(<<"tags_version">>)
  BY DEF TagsDocument
<1>3. Fits(f, TagsDocument(TRUE)) /\ Fits(f, TagsDocument(FALSE))
  BY <1>2, ShortTexts, TextFits
<1> QED BY <1>1, <1>3

(* No operation of init decides to replace a file by a content that loses the user's text,
   whatever the file holds: one step per type of operation. *)
LEMMA JudgeIsGood ==
  ASSUME NEW op, GoodOp(op), Fits(op.path, files[op.path])
  PROVE  GoodVerdict(op, Judge(op))
<1> DEFINE c == files[op.path]
           f == op.path
           v == Judge(op)
<1>0. /\ GoodVerdict(op, Skip) /\ GoodVerdict(op, Conflict) /\ GoodVerdict(op, Verdict("fail", Absent))
  BY DEF GoodVerdict, Skip, Conflict, Verdict
<1>0n. ASSUME NEW d, Fits(f, d) PROVE GoodVerdict(op, Verdict("new", d))
  BY <1>0n DEF GoodVerdict, Verdict
<1>0r. ASSUME NEW d, Fits(f, d), Holds(f, c) => Holds(f, d) PROVE GoodVerdict(op, Verdict("replace", d))
  BY <1>0r DEF GoodVerdict, Verdict
<1>1. CASE op.type = "append"
  <2>1. op.content = Text(GitIgnoreLines) BY <1>1, PathsOfTemplates
  <2>2. IsSeq(LinesMissing(c, op.content.lines))
    BY <2>1, LinesMissingType, ProjectAssumption DEF Text
  <2>3. v = JudgeAppend(op, c) BY <1>1 DEF Judge
  <2> HIDE DEF c, f, v
  <2> QED BY <1>0, <1>1, <2>2, <2>3 DEF JudgeAppend, GoodVerdict, Verdict, Text, v
<1>2. CASE op.type = "env"
  <2>1. op.content = Text(EnvKeys) /\ f = ".env.example" BY <1>2, PathsOfTemplates
  <2> DEFINE missing == LinesMissing(c, op.content.lines)
  <2>2. IsSeq(missing) /\ IsSeq(EnvKeys)
    BY <2>1, LinesMissingType, ProjectAssumption DEF Text
  <2>3. v = JudgeEnv(op, c) BY <1>2 DEF Judge
  <2>4. f \in TextFiles /\ f # TagsFile BY <2>1 DEF TextFiles, TagsFile
  <2>5. Fits(f, op.content) BY <2>1, <2>2, TextFits
  <2>6. ASSUME c # Absent
        PROVE  Fits(f, Text(c.lines \o missing)) /\ (Holds(f, c) => Holds(f, Text(c.lines \o missing)))
    <3>1. c.kind = "text" /\ IsSeq(c.lines)
      BY <2>6, <2>4 DEF Fits, IsContent
    <3>2. IsSeq(c.lines \o missing) /\ ToSet(c.lines) \subseteq ToSet(c.lines \o missing)
      BY <3>1, <2>2, TextGrows
    <3> HIDE DEF c, f, missing
    <3> QED BY <3>1, <3>2, <2>4 DEF Fits, IsContent, Text, Holds, Pieces
  <2>7. JudgeEnv(op, c) = IF c \in {Absent, Text(<<>>)} THEN Verdict("new", op.content)
                          ELSE IF missing = <<>> THEN Skip
                          ELSE Verdict("replace", Text(c.lines \o missing))
    BY DEF JudgeEnv
  <2> HIDE DEF c, f, v, missing
  <2>8. GoodVerdict(op, JudgeEnv(op, c))
    BY <1>0, <1>0n, <1>0r, <2>5, <2>6, <2>7
  <2> QED BY <2>3, <2>8 DEF v
<1>3. CASE op.type = "scaffold"
  <2>1. f \notin TextFiles /\ op.content \in {BlankTests, BlankWorkflows, BlankRules}
    BY <1>3, PathsOfTemplates
  <2>2. Fits(f, op.content)
    BY <2>1, FixedTextsFit
  <2> QED BY <1>0, <1>0n, <1>3, <2>2 DEF Judge, JudgeScaffold
<1>4. CASE op.type = "tags"
  <2>1. f = TagsFile /\ \E s \in BOOLEAN : op.content = TagsDocument(s)
    BY <1>4, PathsOfTemplates
  <2>2. Fits(f, op.content)
    BY <2>1, FixedTextsFit
  <2>3. HasTags(op.content) => Holds(f, op.content)
    BY <2>1 DEF Holds
  <2>4. v = JudgeTags(op, c) BY <1>4 DEF Judge
  <2> HIDE DEF c, f, v
  <2>5. GoodVerdict(op, JudgeTags(op, c))
    BY <1>0, <1>0n, <1>0r, <2>2, <2>3 DEF JudgeTags
  <2> QED BY <2>4, <2>5 DEF v
<1>5. CASE IsTemplateOp(op)
  <2>1. /\ f \notin TextFiles \cup {TagsFile} /\ IsContent(op.content)
        /\ op.type = "merge_json" => op.content.kind = "json"
        /\ \A d \in op.pristine : User \notin Pieces(d)
        /\ op.type \in {"create_if_missing",
               "replace_if_pristine", "create_or_replace_if_pristine", "merge_json"}
    BY <1>5, PathsOfTemplates DEF IsTemplateOp
  <2>2. Fits(f, op.content) BY <2>1 DEF Fits
  <2>3. GoodVerdict(op, JudgePristine(op, c))
    <3>1. c \in op.pristine => ~Holds(f, c)
      BY <2>1 DEF Holds
    <3> HIDE DEF c, f
    <3> QED BY <1>0, <1>0r, <2>2, <3>1 DEF JudgePristine
  <2>4. CASE op.type = "create_if_missing"
    BY <1>0, <1>0n, <2>2, <2>4 DEF Judge, JudgeCreate
  <2>5. CASE op.type = "replace_if_pristine"
    BY <1>0, <2>3, <2>5 DEF Judge, JudgeReplace
  <2>6. CASE op.type = "create_or_replace_if_pristine"
    BY <1>0, <1>0n, <2>2, <2>3, <2>6 DEF Judge, JudgeCreateOrReplace
  <2>7. CASE op.type = "merge_json"
    <3> DEFINE merged == Json(Merge(c.value, op.content.value))
    <3>1. ASSUME c # Absent, c.kind = "json", Mergeable(c.value, op.content.value)
          PROVE  Fits(f, merged) /\ (Holds(f, c) => Holds(f, merged))
      <4>1. \A p \in DOMAIN c.value : IsNode(c.value[p])
        BY <3>1 DEF Fits, IsContent
      <4>2. \A p \in DOMAIN op.content.value : IsNode(op.content.value[p])
        BY <2>1, <2>7 DEF IsContent, Absent
      <4>3. /\ IsContent(merged)
            /\ Pieces(Json(c.value)) \subseteq Pieces(merged)
        <5> DEFINE a == c.value
                   b == op.content.value
        <5> HIDE DEF a, b
        <5>1. IsContent(Json(Merge(a, b))) /\ Pieces(Json(a)) \subseteq Pieces(Json(Merge(a, b)))
          BY <4>1, <4>2, <3>1, MergeKeeps DEF a, b
        <5> QED BY <5>1 DEF a, b
      <4>4. Pieces(Json(c.value)) = Pieces(c)
        BY <3>1 DEF Pieces, Json
      <4> HIDE DEF merged, c
      <4> QED BY <4>3, <4>4, <2>1 DEF Fits, Holds
    <3>2. v = JudgeMerge(op, c) BY <2>7 DEF Judge
    <3>3. JudgeMerge(op, c) =
             IF c = Absent THEN Verdict("new", op.content)
             ELSE IF c.kind # "json" \/ ~Mergeable(c.value, op.content.value) THEN Conflict
             ELSE IF merged = c THEN Skip ELSE Verdict("replace", merged)
      BY DEF JudgeMerge
    <3> HIDE DEF c, f, v, merged
    <3>4. GoodVerdict(op, JudgeMerge(op, c))
      BY <1>0, <1>0n, <1>0r, <2>2, <3>1, <3>3
    <3> QED BY <3>2, <3>4 DEF v
  <2> QED BY <2>1, <2>4, <2>5, <2>6, <2>7
<1> QED BY <1>1, <1>2, <1>3, <1>4, <1>5 DEF IsTemplateOp

(* The call stays good when it goes to its next operation. *)
LEMMA OnwardGood ==
  ASSUME NEW c, IsCall(c), c.suggest \in BOOLEAN,
         c.at = 0 \/ c.at \in DOMAIN Ops(c.ids, c.suggest)
  PROVE  GoodCall(Onward(c))
<1> DEFINE ops == Ops(c.ids, c.suggest)
<1>1. Len(ops) \in Nat /\ DOMAIN ops = 1..Len(ops)
  BY OpsAreGood
<1>2. CASE c.at = Len(ops)
  <2>1. Onward(c) = [c EXCEPT !.pc = "done"] BY <1>2 DEF Onward
  <2> QED BY <1>1, <1>2, <2>1 DEF GoodCall, IsCall
<1>3. CASE c.at # Len(ops)
  <2>1. Onward(c) = [c EXCEPT !.pc = "read", !.at = @ + 1] BY <1>3 DEF Onward
  <2>2. c.at + 1 \in DOMAIN ops /\ c.at + 1 \in Nat
    <3> HIDE DEF ops
    <3> QED BY <1>1, <1>3 DEF ops
  <2> QED BY <2>1, <2>2 DEF GoodCall, IsCall
<1> QED BY <1>2, <1>3

(* A disturbance changes one field of a call. *)
LEMMA CalmChanged ==
  ASSUME NEW c, IsCall(c), NEW x, NEW d, d = [c EXCEPT !.calm = x]
  PROVE  /\ IsCall(d)
         /\ d.pc = c.pc /\ d.ids = c.ids /\ d.suggest = c.suggest /\ d.at = c.at
         /\ d.read = c.read /\ d.content = c.content /\ d.how = c.how
BY DEF IsCall

(* The call stays good when somebody else changes the tree. *)
LEMMA DisturbedGood ==
  ASSUME NEW c, GoodCall(c)
  PROVE  GoodCall([c EXCEPT !.calm = FALSE])
<1> DEFINE d == [c EXCEPT !.calm = FALSE]
<1>1. /\ IsCall(d) /\ d.pc = c.pc /\ d.ids = c.ids /\ d.suggest = c.suggest /\ d.at = c.at
      /\ d.read = c.read /\ d.content = c.content /\ d.how = c.how
  BY CalmChanged DEF GoodCall
<1>2. OpOf(d) = OpOf(c)
  BY <1>1 DEF OpOf
<1> HIDE DEF d
<1>3. GoodCall(d)
  BY <1>1, <1>2 DEF GoodCall
<1> QED BY <1>3 DEF d

(* A process without a call. *)
LEMMA IdleGood == GoodCall(Idle) /\ IsCall(Idle)
BY DEF GoodCall, Idle, IsCall

(* The empty tree. *)
LEMMA InitIInv == Init => IInv
<1> SUFFICES ASSUME Init PROVE IInv
  OBVIOUS
<1>1. files = [f \in Paths |-> files[f]] /\ \A f \in Paths : files[f] = Absent
  BY DEF Init
<1>2. \A f \in Paths : Fits(f, files[f])
  BY <1>1 DEF Fits, IsContent, Absent
<1>3. calls = [p \in Procs |-> calls[p]] /\ \A p \in Procs : GoodCall(calls[p])
  BY IdleGood DEF Init
<1>4. mine = {}
  BY DEF Init
<1> QED BY <1>1, <1>2, <1>3, <1>4 DEF IInv, UserTextSurvives

(* The invariant in the terms of Holds. *)
LEMMA HoldsOf ==
  IInv => \A f \in mine \ raced : f \in Paths /\ Holds(f, files[f])
BY DEF IInv, UserTextSurvives, Holds

(* The property of the next state in the terms of Holds. *)
LEMMA SurvivesPrime ==
  ASSUME \A f \in mine' \ raced' : Holds(f, files'[f])
  PROVE  UserTextSurvives'
BY DEF UserTextSurvives, Holds

(* The user's edit decides anew whose text the file has. *)
LEMMA EditStep ==
  ASSUME IInv, NEW f \in Paths, NEW c \in UserEdits[f], Edit(f, c)
  PROVE  IInv'
<1>1. files' = [files EXCEPT ![f] = c]
  BY DEF Edit
<1>2. Fits(f, c)
  BY ProjectAssumption DEF Fits
<1>3. files' = [g \in Paths |-> files'[g]] /\ \A g \in Paths : Fits(g, files'[g])
  BY <1>1, <1>2 DEF IInv
<1>4. calls' = [p \in Procs |-> calls'[p]] /\ \A p \in Procs : GoodCall(calls'[p])
  BY DisturbedGood DEF IInv, Edit
<1>5. mine' \subseteq Paths
  BY DEF IInv, Edit
<1>6. ASSUME NEW g \in mine' \ raced' PROVE Holds(g, files'[g])
  <2>1. CASE g = f
    <3>1. User \in Pieces(c) BY <1>6, <2>1 DEF Edit
    <3>2. files'[g] = c BY <1>1, <2>1 DEF IInv
    <3> QED BY <3>1, <3>2 DEF Holds
  <2>2. CASE g # f
    <3>1. g \in mine \ raced BY <1>6, <2>2 DEF Edit
    <3>2. files'[g] = files[g] /\ Holds(g, files[g])
      BY <1>1, <2>2, <3>1, HoldsOf DEF IInv
    <3> QED BY <3>2
  <2> QED BY <2>1, <2>2
<1>7. UserTextSurvives' BY <1>6, SurvivesPrime
<1> QED BY <1>3, <1>4, <1>5, <1>7 DEF IInv

(* Steps that change calls only. *)
LEMMA CallsOnly ==
  ASSUME IInv, UNCHANGED <<files, mine, raced>>,
         calls' = [p \in Procs |-> calls'[p]], \A p \in Procs : GoodCall(calls'[p])
  PROVE  IInv'
BY DEF IInv, UserTextSurvives

(* Steps that move one call on and may disturb the others. *)
LEMMA OneCall ==
  ASSUME IInv, UNCHANGED <<files, mine, raced>>, NEW p \in Procs, NEW c, GoodCall(c),
         \/ calls' = [calls EXCEPT ![p] = c]
         \/ calls' = [Disturbed(p) EXCEPT ![p] = c]
  PROVE  IInv'
<1>1. calls' = [q \in Procs |-> calls'[q]]
  BY DEF IInv, Disturbed
<1>2. ASSUME NEW q \in Procs PROVE GoodCall(calls'[q])
  <2>1. \/ calls'[q] = c
        \/ calls'[q] = calls[q]
        \/ calls'[q] = [calls[q] EXCEPT !.calm = FALSE]
    BY DEF IInv, Disturbed
  <2> QED BY <2>1, DisturbedGood DEF IInv
<1> QED BY <1>1, <1>2, CallsOnly

(* Init is called. *)
LEMMA StartStep ==
  ASSUME IInv, NEW p \in Procs, NEW ids, NEW suggest \in BOOLEAN, StartInit(p, ids, suggest)
  PROVE  IInv'
<1> DEFINE c == [Idle EXCEPT !.ids = ids, !.suggest = suggest,
                             !.again = <<ids, suggest>> \in settled,
                             !.calm = \A q \in Procs \ {p} : ~Running(q)]
<1>1. IsCall(c) /\ c.suggest = suggest /\ c.at = 0
  <2> DEFINE again == <<ids, suggest>> \in settled
             calm == \A q \in Procs \ {p} : ~Running(q)
  <2> HIDE DEF again, calm
  <2>1. PICK d : d = [Idle EXCEPT !.ids = ids, !.suggest = suggest, !.again = again, !.calm = calm]
    OBVIOUS
  <2>2. IsCall(d) /\ d.suggest = suggest /\ d.at = 0
    BY <2>1 DEF Idle, IsCall
  <2>3. c = d
    BY <2>1, Zenon DEF again, calm
  <2> HIDE DEF c
  <2> QED BY <2>2, <2>3
<1>2. GoodCall(Onward(c))
  <2> HIDE DEF c
  <2> QED BY <1>1, OnwardGood
<1>3. calls' = [calls EXCEPT ![p] = Onward(c)]
  BY DEF StartInit
<1> HIDE DEF c
<1> QED BY <1>2, <1>3, OneCall DEF StartInit

(* The file is read and judged. *)
LEMMA ReadStep ==
  ASSUME IInv, NEW p \in Procs, Read(p)
  PROVE  IInv'
<1> DEFINE c == calls[p]
           op == CurrentOp(p)
           v == Judge(op)
           c1 == CASE v.does \in {"skip", "conflict"} -> Onward(c)
                   [] v.does = "fail"   -> [c EXCEPT !.pc = "failed"]
                   [] v.does = "reread" -> [c EXCEPT !.pc = "reread", !.content = v.content]
                   [] OTHER -> [c EXCEPT !.pc = "temp", !.how = v.does, !.content = v.content,
                                         !.read = files[op.path]]
<1>1. GoodCall(c) /\ c.pc = "read"
  BY DEF IInv, Read
<1>2. /\ IsCall(c) /\ c.suggest \in BOOLEAN /\ c.at \in DOMAIN Ops(c.ids, c.suggest) /\ c.at \in Nat
      /\ op = OpOf(c)
  BY <1>1 DEF GoodCall, CurrentOp, OpOf
<1>3. GoodOp(op)
  BY <1>2, OpsAreGood DEF OpOf
<1>4. Fits(op.path, files[op.path])
  BY <1>3 DEF GoodOp, IInv
<1>5. GoodVerdict(op, v)
  BY <1>3, <1>4, JudgeIsGood
<1> DEFINE file == files[op.path]
<1>6. GoodCall(c1)
  <2> HIDE DEF v, c, op, file
  <2>1. CASE v.does \in {"skip", "conflict"}
    <3>1. c1 = Onward(c) BY <2>1
    <3> HIDE DEF c1
    <3> QED BY <3>1, <1>2, OnwardGood
  <2>2. CASE v.does = "fail"
    <3>1. c1 = [c EXCEPT !.pc = "failed"] BY <2>2
    <3> HIDE DEF c1
    <3> QED BY <3>1, <1>2 DEF GoodCall, IsCall
  <2>3. CASE v.does = "reread"
    <3>1. c1 = [c EXCEPT !.pc = "reread", !.content = v.content] BY <2>3
    <3>2. op.type = "append" /\ v.content.kind = "text" /\ IsSeq(v.content.lines)
      BY <1>5, <2>3 DEF GoodVerdict
    <3> HIDE DEF c1
    <3> QED BY <3>1, <3>2, <1>2 DEF GoodCall, IsCall, OpOf
  <2>4. CASE v.does \in {"new", "replace"}
    <3>1. c1 = [c EXCEPT !.pc = "temp", !.how = v.does, !.content = v.content, !.read = file]
      BY <2>4 DEF file
    <3>2. /\ Fits(op.path, v.content)
          /\ v.does # "new" => (Holds(op.path, file) => Holds(op.path, v.content))
      BY <1>5, <2>4 DEF GoodVerdict, file
    <3> HIDE DEF c1
    <3> QED BY <3>1, <3>2, <1>2 DEF GoodCall, IsCall, OpOf
  <2> QED BY <1>5, <2>1, <2>2, <2>3, <2>4 DEF GoodVerdict
<1>7. \/ calls' = [calls EXCEPT ![p] = c1]
      \/ calls' = [Disturbed(p) EXCEPT ![p] = c1]
  BY DEF Read, Disturbed, IInv
<1> HIDE DEF c1
<1> QED BY <1>6, <1>7, OneCall DEF Read

(* The second read of appendUniqueLines: what is written is what it reads now, and the lines
   missing before. *)
LEMMA RereadStep ==
  ASSUME IInv, NEW p \in Procs, Reread(p)
  PROVE  IInv'
<1> DEFINE c == calls[p]
           op == CurrentOp(p)
           file == files[op.path]
           text == Text((IF file = Absent THEN <<>> ELSE file.lines) \o c.content.lines)
           c1 == [c EXCEPT !.pc = "temp", !.how = "replace", !.read = file, !.content = text]
<1>1. GoodCall(c) /\ c.pc = "reread"
  BY DEF IInv, Reread
<1>2. /\ IsCall(c) /\ c.suggest \in BOOLEAN /\ c.at \in DOMAIN Ops(c.ids, c.suggest) /\ c.at \in Nat
      /\ op = OpOf(c) /\ op.type = "append" /\ IsSeq(c.content.lines)
  BY <1>1 DEF GoodCall, CurrentOp, OpOf
<1>3. GoodOp(op)
  BY <1>2, OpsAreGood DEF OpOf
<1>4. op.path \in TextFiles /\ op.path # TagsFile /\ Fits(op.path, file)
  BY <1>2, <1>3, PathsOfTemplates DEF GoodOp, IInv, TextFiles, TagsFile
<1>5. Fits(op.path, text) /\ (Holds(op.path, file) => Holds(op.path, text))
  <2> HIDE DEF c, op, file
  <2>1. CASE file = Absent
    <3>1. IsSeq(<<>>)
      BY SeqIsSeq, <<>> \in Seq({})
    <3>2. IsSeq(<<>> \o c.content.lines)
      BY <1>2, <3>1, TextGrows
    <3>3. ~Holds(op.path, file)
      BY <2>1, <1>4 DEF Holds, Pieces, Absent
    <3> QED BY <2>1, <3>2, <3>3, TextFits
  <2>2. CASE file # Absent
    <3>1. file.kind = "text" /\ IsSeq(file.lines)
      BY <1>4, <2>2 DEF Fits, IsContent
    <3>2. IsSeq(file.lines \o c.content.lines) /\ ToSet(file.lines) \subseteq ToSet(file.lines \o c.content.lines)
      BY <1>2, <3>1, TextGrows
    <3>3. Fits(op.path, text)
      BY <2>2, <3>2, TextFits
    <3>4. Pieces(file) \subseteq Pieces(text)
      BY <2>2, <3>1, <3>2 DEF Pieces, Text
    <3> HIDE DEF text
    <3> QED BY <3>3, <3>4, <1>4 DEF Holds
  <2> QED BY <2>1, <2>2
<1>6. GoodCall(c1)
  <2> HIDE DEF c, op, file, text
  <2>1. /\ IsCall(c1) /\ c1.pc = "temp" /\ c1.ids = c.ids /\ c1.suggest = c.suggest /\ c1.at = c.at
        /\ c1.read = file /\ c1.content = text
    <3>0. IsCall(c)
      BY <1>2
    <3>1. PICK d : d = [c EXCEPT !.pc = "temp", !.how = "replace", !.read = file, !.content = text]
      OBVIOUS
    <3>2. /\ IsCall(d) /\ d.pc = "temp" /\ d.ids = c.ids /\ d.suggest = c.suggest /\ d.at = c.at
          /\ d.read = file /\ d.content = text
      BY <3>0, <3>1 DEF IsCall
    <3>3. c1 = d
      BY <3>1, Zenon
    <3> HIDE DEF c1
    <3> QED BY <3>2, <3>3
  <2>2. OpOf(c1) = op
    BY <1>2, <2>1 DEF OpOf
  <2> HIDE DEF c1
  <2> QED BY <1>2, <1>5, <2>1, <2>2 DEF GoodCall
<1>7. calls' = [calls EXCEPT ![p] = c1]
  BY DEF Reread, IInv
<1> HIDE DEF c1
<1> QED BY <1>6, <1>7, OneCall DEF Reread

(* The temporary file is written: no file of the project changes. *)
LEMMA MakeTempStep ==
  ASSUME IInv, NEW p \in Procs, MakeTemp(p)
  PROVE  IInv'
<1> DEFINE c == calls[p]
<1>1. GoodCall(c) /\ c.pc = "temp"
  BY DEF IInv, MakeTemp
<1>2. IsCall(c) /\ c.suggest \in BOOLEAN /\ c.at \in DOMAIN Ops(c.ids, c.suggest) /\ c.at \in Nat
  BY <1>1 DEF GoodCall
<1>3. PICK c1 : /\ calls' = [calls EXCEPT ![p] = c1]
                /\ \/ c1 = Onward(c) \/ c1 = [c EXCEPT !.pc = "failed"]
                   \/ \E m : c1 = [c EXCEPT !.pc = "publish", !.mode = m]
  BY DEF MakeTemp, IInv
<1>4. GoodCall(c1)
  <2> HIDE DEF c
  <2>1. CASE c1 = Onward(c)
    BY <2>1, <1>2, OnwardGood
  <2>2. CASE c1 = [c EXCEPT !.pc = "failed"]
    BY <2>2, <1>2 DEF GoodCall, IsCall
  <2>3. CASE \E m : c1 = [c EXCEPT !.pc = "publish", !.mode = m]
    BY <2>3, <1>1 DEF GoodCall, IsCall, OpOf
  <2> QED BY <1>3, <2>1, <2>2, <2>3
<1> QED BY <1>3, <1>4, OneCall DEF MakeTemp

(* rename or link: the file the call has read is replaced by what it made of it, a file that
   has changed since counts as raced, and a new file takes no other's place. *)
LEMMA PublishStep ==
  ASSUME IInv, NEW p \in Procs, Publish(p)
  PROVE  IInv'
<1> DEFINE c == calls[p]
           op == CurrentOp(p)
           f == op.path
           taken == c.how = "new" /\ files[f] # Absent
<1>1. GoodCall(c) /\ c.pc = "publish"
  BY DEF IInv, Publish
<1>2. /\ IsCall(c) /\ c.suggest \in BOOLEAN /\ c.at \in DOMAIN Ops(c.ids, c.suggest) /\ c.at \in Nat
      /\ op = OpOf(c)
      /\ Fits(f, c.content)
      /\ c.how # "new" => (Holds(f, c.read) => Holds(f, c.content))
  BY <1>1 DEF GoodCall, CurrentOp, OpOf
<1>3. f \in Paths
  BY <1>2, OpsAreGood DEF OpOf, GoodOp
<1>4. GoodCall(Onward(c)) /\ GoodCall([c EXCEPT !.pc = "failed"])
  <2> HIDE DEF c
  <2>1. GoodCall(Onward(c)) BY <1>2, OnwardGood
  <2>2. GoodCall([c EXCEPT !.pc = "failed"]) BY <1>2 DEF GoodCall, IsCall
  <2> QED BY <2>1, <2>2
<1>5. CASE taken
  <2>1. /\ UNCHANGED <<files, mine, raced>>
        /\ \/ calls' = [calls EXCEPT ![p] = Onward(c)]
           \/ calls' = [calls EXCEPT ![p] = [c EXCEPT !.pc = "failed"]]
    BY <1>5 DEF Publish, IInv
  <2> HIDE DEF c
  <2> QED BY <1>4, <2>1, OneCall
<1>6. CASE ~taken
  <2>1. /\ files' = [files EXCEPT ![f] = c.content]
        /\ raced' = IF files[f] # c.read THEN raced \cup {f} ELSE raced
        /\ mine' = mine
        /\ calls' = [Disturbed(p) EXCEPT ![p] = Onward(c)]
    BY <1>6 DEF Publish, IInv, Disturbed
  <2>2. calls' = [q \in Procs |-> calls'[q]] /\ \A q \in Procs : GoodCall(calls'[q])
    BY <2>1, <1>4, DisturbedGood DEF Disturbed, IInv
  <2>3. files' = [g \in Paths |-> files'[g]] /\ \A g \in Paths : Fits(g, files'[g])
    BY <2>1, <1>2, <1>3 DEF IInv
  <2>4. ASSUME NEW g \in mine' \ raced' PROVE Holds(g, files'[g])
    <3>1. g \in mine \ raced /\ g \in Paths /\ Holds(g, files[g])
      BY <2>4, <2>1, HoldsOf
    <3>2. CASE g # f
      BY <3>1, <3>2, <2>1, <1>3 DEF IInv
    <3>3. CASE g = f
      <4>1. files[f] = c.read
        BY <3>3, <2>1, <2>4
      <4>2. files[f] # Absent
        BY <3>1, <3>3 DEF Holds, HasTags, Pieces, Absent
      <4>3. c.how # "new"
        BY <1>6, <4>2
      <4>4. files'[g] = c.content
        BY <2>1, <3>3, <1>3 DEF IInv
      <4> QED BY <4>1, <4>3, <4>4, <3>1, <3>3, <1>2
    <3> QED BY <3>2, <3>3
  <2>5. UserTextSurvives'
    BY <2>4, SurvivesPrime
  <2>6. mine' \subseteq Paths
    BY <2>1 DEF IInv
  <2> QED BY <2>2, <2>3, <2>5, <2>6 DEF IInv
<1> QED BY <1>5, <1>6

(* Every step keeps the invariant. *)
LEMMA StepIInv == IInv /\ [Next]_vars => IInv'
<1> SUFFICES ASSUME IInv, [Next]_vars PROVE IInv'
  OBVIOUS
<1>1. ASSUME NEW f \in Paths, NEW c \in UserEdits[f], Edit(f, c) PROVE IInv'
  BY <1>1, EditStep
<1>2. ASSUME NEW f \in Paths, NEW m, Chmod(f, m) PROVE IInv'
  <2>1. calls' = [p \in Procs |-> calls'[p]] /\ \A p \in Procs : GoodCall(calls'[p])
    BY <1>2, DisturbedGood DEF IInv, Chmod
  <2> QED BY <1>2, <2>1, CallsOnly DEF Chmod
<1>3. ASSUME NEW p \in Procs, NEW ids, NEW suggest \in BOOLEAN, StartInit(p, ids, suggest) PROVE IInv'
  BY <1>3, StartStep
<1>4. ASSUME NEW p \in Procs, Read(p) PROVE IInv'
  BY <1>4, ReadStep
<1>5. ASSUME NEW p \in Procs, Reread(p) PROVE IInv'
  BY <1>5, RereadStep
<1>6. ASSUME NEW p \in Procs, MakeTemp(p) PROVE IInv'
  BY <1>6, MakeTempStep
<1>7. ASSUME NEW p \in Procs, Publish(p) PROVE IInv'
  BY <1>7, PublishStep
<1>8. ASSUME NEW p \in Procs, Return(p) \/ Crash(p) PROVE IInv'
  BY <1>8, IdleGood, OneCall DEF Return, Crash
<1>9. CASE UNCHANGED vars
  BY <1>9 DEF vars, IInv, UserTextSurvives
<1> QED BY <1>1, <1>2, <1>3, <1>4, <1>5, <1>6, <1>7, <1>8, <1>9 DEF Next

(* For every set of files, templates, edits, processes and calls, under ProjectAssumption:
   init never removes what the user has put into a file (fswrite.go, templates.go,
   scaffold.go, tags.go), unless the edit fell between a call's last read and its write. *)
THEOREM UserTextIsKept == Spec => []UserTextSurvives
<1>1. Init => IInv
  BY InitIInv
<1>2. IInv /\ [Next]_vars => IInv'
  BY StepIInv
<1>3. IInv => UserTextSurvives
  BY DEF IInv
<1> QED BY <1>1, <1>2, <1>3, PTL DEF Spec

(* The operation finds nothing to write: it skips the file or reports a conflict, or the file is
   the .env.example the user has emptied.  A file created as it is has its mode. *)
Quiet(op) ==
    /\ \/ Judge(op).does \in {"skip", "conflict"}
       \/ op.type = "env" /\ files[op.path] = Text(<<>>)
    /\ op.type = "create_if_missing" /\ files[op.path] = op.content => modes[op.path] = op.mode
(* The first n operations of a call find nothing to write. *)
QuietUpTo(c, n) == \A i \in 1..n : Quiet(Ops(c.ids, c.suggest)[i])
Length(c) == Len(Ops(c.ids, c.suggest))

(* What a call is about to write is what its operation makes of the file as it is now. *)
Pending(c) ==
    LET op == OpOf(c)
        file == files[op.path]
    IN  /\ c.how \in {"new", "replace"}
        /\ op.type = "append" =>
              /\ c.how = "replace"
              /\ c.content = Text((IF file = Absent THEN <<>> ELSE file.lines)
                                      \o LinesMissing(file, op.content.lines))
        /\ op.type # "append" => Judge(op) = Verdict(c.how, c.content)
        /\ c.pc = "publish" /\ c.how = "new" => file = Absent /\ c.mode = op.mode

(* A call nobody disturbs has left every operation behind it with nothing to write; and if the
   tree was the result of the same call when it began, it still is and the call writes nothing. *)
CalmCall(c) ==
    c.calm =>
        /\ c.pc \in {"read", "reread", "temp", "publish"} => QuietUpTo(c, c.at - 1)
        /\ c.pc = "done" => QuietUpTo(c, Length(c))
        /\ c.pc = "reread" =>
              c.content = Text(LinesMissing(files[OpOf(c).path], OpOf(c).content.lines))
        /\ c.pc \in {"temp", "publish"} => Pending(c)
        /\ c.again =>
              /\ QuietUpTo(c, Length(c))
              /\ c.pc \notin {"reread", "publish", "failed"}
              /\ c.pc = "temp" => c.how = "new" /\ OpOf(c).type = "env" /\ files[OpOf(c).path] # Absent

(* Only the user empties .env.example. *)
EnvCall(c) ==
    c.pc \in {"temp", "publish"} /\ OpOf(c).type = "env" => c.content # Text(<<>>) \/ EnvKeys = <<>>
EnvFile ==
    /\ edits \in Nat
    /\ ".env.example" \in Paths /\ files[".env.example"] = Text(<<>>) => edits > 0 \/ EnvKeys = <<>>

(* No operation of a call finds anything to write. *)
QuietAll(x) == \A i \in DOMAIN Ops(x[1], x[2]) : Quiet(Ops(x[1], x[2])[i])

(* The inductive invariant of the properties about undisturbed calls. *)
CalmInv ==
    /\ modes = [f \in Paths |-> modes[f]]
    /\ EnvFile
    /\ \A p \in Procs : EnvCall(calls[p]) /\ CalmCall(calls[p])
    /\ \A x \in settled : QuietAll(x)

(* Where the operations of a call come from. *)
LEMMA OpsOrigin ==
  ASSUME NEW ids, NEW suggest \in BOOLEAN
  PROVE  /\ \A i \in DOMAIN Ops(ids, suggest) :
               IF IsTemplateOp(Ops(ids, suggest)[i]) THEN Ops(ids, suggest)[i] \in TemplateOps
               ELSE Ops(ids, suggest)[i] \in ToSet(Basics(suggest))
         /\ InOrder(Ops(ids, suggest))
<1> DEFINE Y == ToSet(Basics(suggest)) \cup TemplateOps
           ops == Ops(ids, suggest)
<1>1. ops \in Seq(Y) /\ InOrder(ops)
  BY OpsElements
<1>2. \A op \in TemplateOps : IsTemplateOp(op)
  BY ProjectAssumption DEF TemplateOps, IsTemplateOp
<1>3. ASSUME NEW op \in Y
      PROVE  IF IsTemplateOp(op) THEN op \in TemplateOps ELSE op \in ToSet(Basics(suggest))
  <2>1. \A b \in ToSet(Basics(suggest)) : ~IsTemplateOp(b)
    BY BasicsApart
  <2> QED BY <1>2, <2>1
<1>4. \A i \in DOMAIN ops : ops[i] \in Y
  <2> HIDE DEF ops, Y
  <2> QED BY <1>1
<1> HIDE DEF Y
<1> QED BY <1>1, <1>3, <1>4

(* The catalog, in the terms of the templates' operations. *)
LEMMA TemplatesApart ==
  ASSUME NEW a \in TemplateOps
  PROVE  /\ a.content # Absent /\ a.content \notin a.pristine /\ Absent \notin a.pristine
         /\ a.type = "merge_json" =>
               /\ a.content = Json([p \in DOMAIN a.content.value |-> a.content.value[p]])
               /\ \A p \in DOMAIN a.content.value :
                      a.content.value[p].k = "arr" => a.content.value[p] = Arr(a.content.value[p].a)
         /\ \A b \in TemplateOps : a.path = b.path /\ a # b =>
               /\ a.type = "replace_if_pristine" /\ b.type = "replace_if_pristine"
               /\ b.content \in a.pristine => b.pristine \subseteq a.pristine
<1>1. /\ a.content # Absent /\ a.content \notin a.pristine /\ Absent \notin a.pristine
      /\ a.type = "merge_json" =>
            /\ a.content = Json([p \in DOMAIN a.content.value |-> a.content.value[p]])
            /\ \A p \in DOMAIN a.content.value :
                   a.content.value[p].k = "arr" => a.content.value[p] = Arr(a.content.value[p].a)
  BY CatalogAssumption DEF TemplateOps
<1>2. ASSUME NEW b \in TemplateOps, a.path = b.path, a # b
      PROVE  /\ a.type = "replace_if_pristine" /\ b.type = "replace_if_pristine"
             /\ b.content \in a.pristine => b.pristine \subseteq a.pristine
  <2>1. PICK s \in ToSet(Catalog) : a \in ToSet(s.ops)
    BY DEF TemplateOps
  <2>2. PICK t \in ToSet(Catalog) : b \in ToSet(t.ops)
    BY DEF TemplateOps
  <2>3. /\ a.path = b.path /\ a # b => a.type = "replace_if_pristine"
        /\ b.path = a.path /\ b # a => b.type = "replace_if_pristine"
    BY <2>1, <2>2, CatalogAssumption, Zenon
  <2>4. a.path = b.path /\ a # b => (b.content \in a.pristine => b.pristine \subseteq a.pristine)
    BY <2>1, <2>2, CatalogAssumption, Zenon
  <2> QED BY <1>2, <2>3, <2>4
<1> QED BY <1>1, <1>2

(* Nothing is missing from a text that has it all. *)
LEMMA NothingMissing ==
  ASSUME NEW c, NEW want, IsSeq(want)
  PROVE  LinesMissing(c, want) = <<>> <=> ToSet(want) \subseteq Pieces(c)
<1> DEFINE keep == ToSet(want) \ Pieces(c)
           X == ToSet(want)
           missing == Kept(want, keep)
<1>1. want \in Seq(X)
  BY DEF IsSeq
<1>2. missing \in Seq(X \cap keep) /\ ToSet(want) \cap keep \subseteq ToSet(missing)
  <2> HIDE DEF X, keep
  <2> QED BY <1>1, KeptElements
<1>3. LinesMissing(c, want) = missing
  BY DEF LinesMissing
<1>4. ASSUME ToSet(want) \subseteq Pieces(c) PROVE missing = <<>>
  <2>1. X \cap keep = {} BY <1>4
  <2> HIDE DEF missing, X, keep
  <2>2. missing \in Seq({}) BY <1>2, <2>1
  <2> QED BY <2>2
<1>5. ASSUME missing = <<>> PROVE ToSet(want) \subseteq Pieces(c)
  <2>1. ToSet(missing) = {} BY <1>5 DEF ToSet
  <2>2. ToSet(want) \cap keep = {}
    <3> HIDE DEF missing, keep
    <3> QED BY <1>2, <2>1
  <2> QED BY <2>2
<1> HIDE DEF missing
<1> QED BY <1>3, <1>4, <1>5

(* The lines of a text made of two. *)
LEMMA ConcatSet ==
  ASSUME NEW a, NEW b, IsSeq(a), IsSeq(b)
  PROVE  ToSet(a \o b) = ToSet(a) \cup ToSet(b)
<1> DEFINE X == ToSet(a) \cup ToSet(b)
<1>0. a \in Seq(X) /\ b \in Seq(X)
  BY SeqOfLarger
<1> HIDE DEF X
<1>1. /\ DOMAIN (a \o b) = 1..(Len(a) + Len(b)) /\ Len(a) \in Nat /\ Len(b) \in Nat
      /\ DOMAIN a = 1..Len(a) /\ DOMAIN b = 1..Len(b)
  BY <1>0
<1>2. \A i \in DOMAIN a : i \in DOMAIN (a \o b) /\ (a \o b)[i] = a[i]
  BY <1>0
<1>3. \A i \in DOMAIN b : Len(a) + i \in DOMAIN (a \o b) /\ (a \o b)[Len(a) + i] = b[i]
  BY <1>0
<1>4. \A i \in DOMAIN (a \o b) : i \in DOMAIN a \/ i - Len(a) \in DOMAIN b
  BY <1>1
<1>5. \A i \in DOMAIN (a \o b) : i \notin DOMAIN a => (a \o b)[i] = b[i - Len(a)]
  BY <1>0, <1>1
<1>6. ASSUME NEW i \in DOMAIN (a \o b) PROVE (a \o b)[i] \in ToSet(a) \cup ToSet(b)
  BY <1>2, <1>4, <1>5 DEF ToSet
<1>7. ToSet(a) \subseteq ToSet(a \o b)
  BY <1>2 DEF ToSet
<1>8. ToSet(b) \subseteq ToSet(a \o b)
  BY <1>3 DEF ToSet
<1>9. ToSet(a \o b) \subseteq ToSet(a) \cup ToSet(b)
  BY <1>6 DEF ToSet
<1> QED BY <1>7, <1>8, <1>9

(* appendUniqueLines, ensureEnvExample: a text to which the missing lines are added has all. *)
LEMMA NothingMissingAfter ==
  ASSUME NEW c, NEW l, IsSeq(l), Pieces(c) \subseteq ToSet(l), NEW want, IsSeq(want)
  PROVE  ToSet(want) \subseteq Pieces(Text(l \o LinesMissing(c, want)))
<1> DEFINE keep == ToSet(want) \ Pieces(c)
           X == ToSet(want)
           missing == LinesMissing(c, want)
<1>1. want \in Seq(X)
  BY DEF IsSeq
<1>2. ToSet(want) \cap keep \subseteq ToSet(missing) /\ IsSeq(missing)
  <2>1. IsSeq(missing) BY LinesMissingType
  <2>2. ToSet(want) \cap keep \subseteq ToSet(Kept(want, keep))
    <3> HIDE DEF X, keep
    <3> QED BY <1>1, KeptElements
  <2> QED BY <2>1, <2>2 DEF LinesMissing
<1> HIDE DEF missing
<1>3. ToSet(l \o missing) = ToSet(l) \cup ToSet(missing)
  BY <1>2, ConcatSet
<1>4. Pieces(Text(l \o missing)) = ToSet(l \o missing)
  BY DEF Pieces, Text
<1>5. ToSet(want) \subseteq Pieces(Text(l \o missing))
  BY <1>2, <1>3, <1>4
<1> QED BY <1>5 DEF missing

(* mergeInitJSONValues: what has been merged stays merged. *)
LEMMA MergeAgain ==
  ASSUME NEW v, NEW w, Mergeable(v, w),
         \A p \in DOMAIN v : IsNode(v[p]), \A p \in DOMAIN w : IsNode(w[p]),
         \A p \in DOMAIN w : w[p].k = "arr" => w[p] = Arr(w[p].a)
  PROVE  Merge(Merge(v, w), w) = Merge(v, w)
<1> DEFINE m == Merge(v, w)
           M == Merge(m, w)
<1>1. /\ DOMAIN m = DOMAIN v \cup DOMAIN w /\ DOMAIN M = DOMAIN m
      /\ m = [p \in DOMAIN m |-> m[p]] /\ M = [p \in DOMAIN M |-> M[p]]
  BY DEF Merge
<1>2. ASSUME NEW p \in DOMAIN m PROVE M[p] = m[p]
  <2>1. CASE p \in DOMAIN w /\ w[p].k = "arr"
    <3> DEFINE b == w[p].a
               a == IF p \in DOMAIN v THEN v[p].a ELSE b
               X == ToSet(a) \cup ToSet(b)
               l == AppendNew(a, b)
    <3>1. IsSeq(a) /\ IsSeq(b)
      BY <2>1 DEF Mergeable, IsNode
    <3>2. a \in Seq(X) /\ b \in Seq(X)
      <4> HIDE DEF a, b
      <4> QED BY <3>1, SeqOfLarger
    <3>3. l \in Seq(X) /\ ToSet(b) \subseteq ToSet(l) /\ (a = b => l = b)
      <4> HIDE DEF a, b, X
      <4> QED BY <3>2, AppendKeeps
    <3>4. AppendNew(l, b) = l
      <4> HIDE DEF a, b, X, l
      <4> QED BY <3>2, <3>3, AppendKeeps
    <3>5. m[p] = Arr(l)
      <4>1. CASE p \in DOMAIN v
        BY <2>1, <4>1 DEF Merge
      <4>2. CASE p \notin DOMAIN v
        <5>1. m[p] = w[p] BY <2>1, <4>2 DEF Merge
        <5>2. l = b BY <3>3, <4>2
        <5>3. w[p] = Arr(b) BY <2>1
        <5> HIDE DEF m, l, b
        <5> QED BY <5>1, <5>2, <5>3
      <4> QED BY <4>1, <4>2
    <3>6. M[p] = Arr(AppendNew(m[p].a, b))
      <4> HIDE DEF m
      <4> QED BY <2>1, <1>1 DEF Merge
    <3>7. m[p].a = l
      <4> HIDE DEF m, l
      <4> QED BY <3>5 DEF Arr
    <3> HIDE DEF m, M, l, b
    <3> QED BY <3>4, <3>5, <3>6, <3>7
  <2>2. CASE ~(p \in DOMAIN w /\ w[p].k = "arr")
    <3> HIDE DEF m
    <3> QED BY <2>2 DEF Merge
  <2> QED BY <2>1, <2>2
<1> HIDE DEF m, M
<1>3. M = m
  BY <1>1, <1>2
<1> QED BY <1>3 DEF m, M

(* A document merged with itself is the document. *)
LEMMA MergeSame ==
  ASSUME NEW w, w = [p \in DOMAIN w |-> w[p]], \A p \in DOMAIN w : IsNode(w[p]),
         \A p \in DOMAIN w : w[p].k = "arr" => w[p] = Arr(w[p].a)
  PROVE  Merge(w, w) = w
<1> DEFINE m == Merge(w, w)
<1>1. m = [p \in DOMAIN m |-> m[p]] /\ DOMAIN m = DOMAIN w
  BY DEF Merge
<1>2. ASSUME NEW p \in DOMAIN w PROVE m[p] = w[p]
  <2>1. CASE w[p].k = "arr"
    <3> DEFINE a == w[p].a
    <3>1. IsSeq(a) BY <2>1 DEF IsNode
    <3>2. m[p] = Arr(AppendNew(a, a)) BY <2>1 DEF Merge
    <3>3. AppendNew(a, a) = a
      <4> HIDE DEF a
      <4>1. a \in Seq(ToSet(a)) BY <3>1 DEF IsSeq
      <4> DEFINE X == ToSet(a)
      <4> HIDE DEF X
      <4>2. a \in Seq(X) BY <4>1 DEF X
      <4> QED BY <4>2, AppendKeeps
    <3>4. w[p] = Arr(a) BY <2>1
    <3> HIDE DEF m, a
    <3> QED BY <3>2, <3>3, <3>4
  <2>2. CASE w[p].k # "arr"
    BY <2>2 DEF Merge
  <2> QED BY <2>1, <2>2
<1> HIDE DEF m
<1>3. m = w
  BY <1>1, <1>2
<1> QED BY <1>3 DEF m

(* An operation on another file has nothing more to write than before. *)
LEMMA QuietElsewhere ==
  ASSUME NEW a, GoodOp(a), Quiet(a),
         files'[a.path] = files[a.path],
         a.type = "scaffold" /\ a.other \in Paths =>
             files'[a.other] = files[a.other] \/ files'[a.other] # Absent,
         a.type = "create_if_missing" => modes'[a.path] = modes[a.path] \/ modes'[a.path] = a.mode
  PROVE  Quiet(a)'
<1>1. CASE a.type = "scaffold"
  <2>1. Judge(a) = JudgeScaffold(a) /\ (Judge(a))' = (JudgeScaffold(a))'
    BY <1>1 DEF Judge
  <2>2. Judge(a).does \in {"skip", "conflict"}
    BY <1>1 DEF Quiet
  <2>3. files[a.path] # Absent \/ (a.other \in Paths /\ files[a.other] # Absent)
    BY <2>1, <2>2 DEF JudgeScaffold, Skip, Verdict
  <2>4. (JudgeScaffold(a))' = Skip
    BY <1>1, <2>3 DEF JudgeScaffold
  <2>5. Judge(a)'.does = "skip"
    BY <2>1, <2>4 DEF Skip, Verdict
  <2> QED BY <1>1, <2>5 DEF Quiet
<1>2. CASE a.type # "scaffold"
  <2>1. (Judge(a))' = Judge(a)
    BY <1>2, PathsOfTemplates DEF Judge, IsTemplateOp
  <2> QED BY <2>1 DEF Quiet
<1> QED BY <1>1, <1>2

(* What a call is about to write into the file of its operation. *)
Writes(op, how, content) ==
    /\ how \in {"new", "replace"}
    /\ op.type = "append" =>
          content = Text((IF files[op.path] = Absent THEN <<>> ELSE files[op.path].lines)
                             \o LinesMissing(files[op.path], op.content.lines))
    /\ op.type # "append" => Judge(op) = Verdict(how, content)

(* A verdict is what it was made of. *)
LEMMA VerdictParts ==
  ASSUME NEW d, NEW x, NEW e, NEW y, Verdict(d, x) = Verdict(e, y)
  PROVE  d = e /\ x = y
BY DEF Verdict

(* An operation that has written its file has nothing more to write to it: one step per type. *)
LEMMA QuietWhenWritten ==
  ASSUME NEW op, GoodOp(op), IsTemplateOp(op) => op \in TemplateOps,
         Fits(op.path, files[op.path]), NEW how, NEW content, Writes(op, how, content),
         files'[op.path] = content,
         op.type = "create_if_missing" => modes'[op.path] = op.mode
  PROVE  Quiet(op)' /\ content # Absent
<1> DEFINE c == files[op.path]
           want == op.content.lines
<1>0. ASSUME content # Absent,
             \/ Judge(op)' \in {Skip, Conflict}
             \/ op.type = "env" /\ content = Text(<<>>)
      PROVE  Quiet(op)' /\ content # Absent
  <2>1. Judge(op)' \in {Skip, Conflict} => Judge(op)'.does \in {"skip", "conflict"}
    BY DEF Skip, Conflict, Verdict
  <2> QED BY <1>0, <2>1 DEF Quiet
<1>t. \A l : Text(l) # Absent /\ Text(l).kind = "text" /\ Text(l).lines = l
  BY DEF Text, Absent
<1>m. ASSUME op.type \in {"append", "env"}, IsSeq(want),
             content = Text((IF c = Absent THEN <<>> ELSE c.lines) \o LinesMissing(c, want))
      PROVE  LinesMissing(content, want) = <<>>
  <2>1. op.path \in TextFiles
    BY <1>m, PathsOfTemplates DEF TextFiles
  <2>2. c = Absent \/ (c.kind = "text" /\ IsSeq(c.lines))
    BY <2>1 DEF Fits, IsContent
  <2> DEFINE l == IF c = Absent THEN <<>> ELSE c.lines
  <2>3. IsSeq(l)
    <3>1. IsSeq(<<>>) BY SeqIsSeq, <<>> \in Seq({})
    <3> QED BY <2>2, <3>1
  <2>4. Pieces(c) \subseteq ToSet(l)
    BY <2>2 DEF Pieces, Absent
  <2> HIDE DEF c, l, want
  <2>5. ToSet(want) \subseteq Pieces(Text(l \o LinesMissing(c, want)))
    BY <1>m, <2>3, <2>4, NothingMissingAfter
  <2>6. content = Text(l \o LinesMissing(c, want))
    BY <1>m DEF l
  <2> QED BY <1>m, <2>5, <2>6, NothingMissing
<1>1. CASE op.type = "append"
  <2>1. op.content = Text(GitIgnoreLines) BY <1>1, PathsOfTemplates
  <2>2. IsSeq(want) BY <2>1, <1>t, ProjectAssumption
  <2>3. content = Text((IF c = Absent THEN <<>> ELSE c.lines) \o LinesMissing(c, want))
    BY <1>1 DEF Writes
  <2>4. LinesMissing(content, want) = <<>> BY <1>1, <1>m, <2>2, <2>3
  <2>5. content # Absent BY <2>3, <1>t
  <2>6. (Judge(op))' = JudgeAppend(op, content)
    BY <1>1 DEF Judge
  <2>7. JudgeAppend(op, content) = Skip
    BY <2>4 DEF JudgeAppend
  <2> QED BY <1>0, <2>5, <2>6, <2>7
<1>2. CASE op.type = "env"
  <2>1. op.content = Text(EnvKeys) BY <1>2, PathsOfTemplates
  <2>2. IsSeq(want) /\ want = EnvKeys BY <2>1, <1>t, ProjectAssumption
  <2>3. JudgeEnv(op, c) = Verdict(how, content) /\ how \in {"new", "replace"}
    BY <1>2 DEF Writes, Judge
  <2>4. \/ content = op.content
        \/ c # Absent /\ content = Text(c.lines \o LinesMissing(c, want))
    <3>1. JudgeEnv(op, c) \in {Verdict("new", op.content), Skip,
                               Verdict("replace", Text(c.lines \o LinesMissing(c, want)))}
      BY DEF JudgeEnv
    <3>2. c = Absent => JudgeEnv(op, c) = Verdict("new", op.content)
      BY DEF JudgeEnv
    <3> HIDE DEF c, want
    <3> QED BY <2>3, <3>1, <3>2, VerdictParts DEF Skip
  <2>5. content # Absent BY <2>1, <2>4, <1>t
  <2>6. LinesMissing(content, want) = <<>>
    <3>1. CASE content = op.content
      <4>1. Pieces(content) = ToSet(want) BY <3>1, <2>1, <1>t DEF Pieces
      <4> HIDE DEF want
      <4> QED BY <4>1, <2>2, NothingMissing
    <3>2. CASE c # Absent /\ content = Text(c.lines \o LinesMissing(c, want))
      BY <1>2, <1>m, <2>2, <3>2
    <3> QED BY <2>4, <3>1, <3>2
  <2>7. (Judge(op))' = JudgeEnv(op, content)
    BY <1>2 DEF Judge
  <2>8. content # Text(<<>>) => JudgeEnv(op, content) = Skip
    BY <2>5, <2>6 DEF JudgeEnv
  <2> QED BY <1>0, <1>2, <2>5, <2>7, <2>8
<1>3. CASE op.type = "scaffold"
  <2>1. op.content \in {BlankTests, BlankWorkflows, BlankRules} BY <1>3, PathsOfTemplates
  <2>2. JudgeScaffold(op) = Verdict(how, content) /\ how # "skip"
    BY <1>3 DEF Writes, Judge
  <2>3. content = op.content
    <3>1. JudgeScaffold(op) \in {Skip, Verdict("new", op.content)} BY DEF JudgeScaffold
    <3> QED BY <2>2, <3>1, VerdictParts DEF Skip
  <2>4. content # Absent BY <2>1, <2>3, <1>t DEF BlankTests, BlankWorkflows, BlankRules
  <2>5. (Judge(op))' = (JudgeScaffold(op))' BY <1>3 DEF Judge
  <2>6. (JudgeScaffold(op))' = Skip BY <2>4 DEF JudgeScaffold
  <2> QED BY <1>0, <2>4, <2>5, <2>6
<1>4. CASE op.type = "tags"
  <2>1. PICK s \in BOOLEAN : op.content = TagsDocument(s) BY <1>4, PathsOfTemplates
  <2>2. JudgeTags(op, c) = Verdict(how, content) /\ how \in {"new", "replace"}
    BY <1>4 DEF Writes, Judge
  <2>3. content = op.content
    <3>1. JudgeTags(op, c) \in {Skip, Verdict("fail", Absent), Verdict("new", op.content),
                                Verdict("replace", op.content)}
      BY DEF JudgeTags
    <3> HIDE DEF c
    <3> QED BY <2>2, <3>1, VerdictParts DEF Skip
  <2>4. content = Text(<<"tags_version", "tags">>) \/ content = Text(<<"tags_version">>)
    BY <2>1, <2>3 DEF TagsDocument
  <2>5. content # Absent /\ ParsesAsTags(content)
    BY <2>4, <1>t DEF ParsesAsTags
  <2>6. (Judge(op))' = JudgeTags(op, content) BY <1>4 DEF Judge
  <2>7. JudgeTags(op, content) = Skip BY <2>3, <2>5 DEF JudgeTags
  <2> QED BY <1>0, <2>5, <2>6, <2>7
<1>5. CASE op.type = "create_if_missing"
  <2>1. op \in TemplateOps BY <1>5 DEF IsTemplateOp
  <2>2. JudgeCreate(op, c) = Verdict(how, content) /\ how \in {"new", "replace"}
    BY <1>5 DEF Writes, Judge
  <2>3. content = op.content
    <3>1. JudgeCreate(op, c) \in {Skip, Conflict, Verdict("new", op.content)} BY DEF JudgeCreate
    <3> HIDE DEF c
    <3> QED BY <2>2, <3>1, VerdictParts DEF Skip, Conflict
  <2>4. content # Absent BY <2>1, <2>3, TemplatesApart
  <2>5. (Judge(op))' = JudgeCreate(op, content) BY <1>5 DEF Judge
  <2>6. JudgeCreate(op, content) = Skip BY <2>3, <2>4 DEF JudgeCreate
  <2> QED BY <1>0, <2>4, <2>5, <2>6
<1>6. CASE op.type \in {"replace_if_pristine", "create_or_replace_if_pristine"}
  <2>1. op \in TemplateOps BY <1>6 DEF IsTemplateOp
  <2>2. /\ Judge(op) = Verdict(how, content) /\ how \in {"new", "replace"}
        /\ Judge(op) \in {JudgeReplace(op, c), JudgeCreateOrReplace(op, c)}
    BY <1>6 DEF Writes, Judge
  <2>3. content = op.content
    <3>1. Judge(op) \in {Skip, Conflict, Verdict("new", op.content), Verdict("replace", op.content)}
      BY <2>2 DEF JudgeReplace, JudgeCreateOrReplace, JudgePristine
    <3> HIDE DEF c
    <3> QED BY <2>2, <3>1, VerdictParts DEF Skip, Conflict
  <2>4. content # Absent BY <2>1, <2>3, TemplatesApart
  <2>5. (Judge(op))' \in {JudgeReplace(op, content), JudgeCreateOrReplace(op, content)}
    BY <1>6 DEF Judge
  <2>6. JudgeReplace(op, content) = Skip /\ JudgeCreateOrReplace(op, content) = Skip
    BY <2>3, <2>4 DEF JudgeReplace, JudgeCreateOrReplace, JudgePristine
  <2> QED BY <1>0, <2>4, <2>5, <2>6
<1>7. CASE op.type = "merge_json"
  <2> DEFINE w == op.content.value
  <2>1. op \in TemplateOps BY <1>7 DEF IsTemplateOp
  <2>j. \A v : Json(v) # Absent /\ Json(v).kind = "json" /\ Json(v).value = v
    BY DEF Json, Absent
  <2>2. /\ op.content = Json([p \in DOMAIN w |-> w[p]])
        /\ \A p \in DOMAIN w : w[p].k = "arr" => w[p] = Arr(w[p].a)
    BY <1>7, <2>1, TemplatesApart
  <2>3. w = [p \in DOMAIN w |-> w[p]] /\ op.content = Json(w) /\ op.content.kind = "json"
    BY <2>2, <2>j
  <2>4. \A p \in DOMAIN w : IsNode(w[p])
    <3>1. IsContent(op.content) BY <1>7, PathsOfTemplates DEF IsTemplateOp
    <3> QED BY <3>1, <2>3, <2>j DEF IsContent, Absent
  <2>5. JudgeMerge(op, c) = Verdict(how, content) /\ how \in {"new", "replace"}
    BY <1>7 DEF Writes, Judge
  <2>6. \/ content = op.content
        \/ /\ c # Absent /\ c.kind = "json" /\ Mergeable(c.value, w)
           /\ content = Json(Merge(c.value, w))
    <3>1. \/ JudgeMerge(op, c) \in {Skip, Conflict, Verdict("new", op.content)}
          \/ /\ c # Absent /\ c.kind = "json" /\ Mergeable(c.value, w)
             /\ JudgeMerge(op, c) = Verdict("replace", Json(Merge(c.value, w)))
      BY DEF JudgeMerge
    <3> HIDE DEF c, w
    <3> QED BY <2>5, <3>1, VerdictParts DEF Skip, Conflict
  <2>7. \E m : content = Json(m) /\ Merge(m, w) = m
    <3>1. CASE content = op.content
      <4> HIDE DEF w
      <4>1. Merge(w, w) = w BY <2>2, <2>3, <2>4, MergeSame
      <4> QED BY <3>1, <4>1, <2>3
    <3>2. CASE /\ c # Absent /\ c.kind = "json" /\ Mergeable(c.value, w)
               /\ content = Json(Merge(c.value, w))
      <4> DEFINE v == c.value
      <4>1. \A p \in DOMAIN v : IsNode(v[p]) BY <3>2 DEF Fits, IsContent
      <4>2. Mergeable(v, w) BY <3>2
      <4>3. Merge(Merge(v, w), w) = Merge(v, w)
        <5> HIDE DEF v, w
        <5> QED BY <2>2, <2>4, <4>1, <4>2, MergeAgain
      <4>4. content = Json(Merge(v, w)) BY <3>2
      <4> HIDE DEF v, w
      <4> QED BY <4>3, <4>4
    <3> QED BY <2>6, <3>1, <3>2
  <2>8. PICK m : content = Json(m) /\ Merge(m, w) = m
    <3> HIDE DEF w
    <3> QED BY <2>7
  <2>9. content # Absent /\ content.kind = "json" /\ content.value = m
    BY <2>8, <2>j
  <2>10. (Judge(op))' = JudgeMerge(op, content) BY <1>7 DEF Judge
  <2>11. JudgeMerge(op, content) = IF ~Mergeable(m, w) THEN Conflict
                                   ELSE IF Json(Merge(m, w)) = content THEN Skip
                                   ELSE Verdict("replace", Json(Merge(m, w)))
    BY <2>9 DEF JudgeMerge
  <2>12. JudgeMerge(op, content) \in {Skip, Conflict}
    <3> HIDE DEF w
    <3> QED BY <2>8, <2>11
  <2> QED BY <1>0, <2>9, <2>10, <2>12
<1> QED BY <1>1, <1>2, <1>3, <1>4, <1>5, <1>6, <1>7, PathsOfTemplates

(* A judgement is a verdict. *)
LEMMA JudgeForm ==
  ASSUME NEW op, GoodOp(op)
  PROVE  Judge(op) = Verdict(Judge(op).does, Judge(op).content)
<1> DEFINE c == files[op.path]
<1>1. \E d, x : JudgeAppend(op, c) = Verdict(d, x) BY DEF JudgeAppend, Skip
<1>2. \E d, x : JudgeEnv(op, c) = Verdict(d, x) BY DEF JudgeEnv, Skip
<1>3. \E d, x : JudgeScaffold(op) = Verdict(d, x) BY DEF JudgeScaffold, Skip
<1>4. \E d, x : JudgeTags(op, c) = Verdict(d, x) BY DEF JudgeTags, Skip
<1>5. \E d, x : JudgeCreate(op, c) = Verdict(d, x) BY DEF JudgeCreate, Skip, Conflict
<1>6. \E d, x : JudgePristine(op, c) = Verdict(d, x) BY DEF JudgePristine, Skip, Conflict
<1>7. \E d, x : JudgeReplace(op, c) = Verdict(d, x) BY <1>6 DEF JudgeReplace, Skip
<1>8. \E d, x : JudgeCreateOrReplace(op, c) = Verdict(d, x) BY <1>6 DEF JudgeCreateOrReplace
<1>9. \E d, x : JudgeMerge(op, c) = Verdict(d, x) BY DEF JudgeMerge, Skip, Conflict
<1>10. Judge(op) \in {JudgeAppend(op, c), JudgeEnv(op, c), JudgeScaffold(op), JudgeTags(op, c),
                      JudgeCreate(op, c), JudgeReplace(op, c), JudgeCreateOrReplace(op, c),
                      JudgeMerge(op, c)}
  BY PathsOfTemplates DEF Judge
<1>11. \E d, x : Judge(op) = Verdict(d, x)
  <2>1. \A v \in {JudgeAppend(op, c), JudgeEnv(op, c), JudgeScaffold(op), JudgeTags(op, c),
                  JudgeCreate(op, c), JudgeReplace(op, c), JudgeCreateOrReplace(op, c),
                  JudgeMerge(op, c)} : \E d, x : v = Verdict(d, x)
    BY <1>1, <1>2, <1>3, <1>4, <1>5, <1>7, <1>8, <1>9
  <2> QED BY <2>1, <1>10
<1>12. PICK d, x : Judge(op) = Verdict(d, x)
  BY <1>11, Zenon
<1>13. Judge(op).does = d /\ Judge(op).content = x
  BY <1>12 DEF Verdict
<1> QED BY <1>12, <1>13

(* Only ensureEnvExample makes a new file of one that exists: of an empty one. *)
LEMMA NewOverFile ==
  ASSUME NEW op, GoodOp(op), Judge(op).does = "new", files[op.path] # Absent
  PROVE  op.type = "env" /\ files[op.path] = Text(<<>>)
<1> DEFINE c == files[op.path]
<1>0. /\ \A d, x : Verdict(d, x).does = d
      /\ Skip.does = "skip" /\ Conflict.does = "conflict"
  BY DEF Verdict, Skip, Conflict
<1>1. CASE op.type = "env"
  BY <1>0, <1>1 DEF Judge, JudgeEnv
<1>2. CASE op.type = "append"
  BY <1>0, <1>2 DEF Judge, JudgeAppend
<1>3. CASE op.type = "scaffold"
  BY <1>0, <1>3 DEF Judge, JudgeScaffold
<1>4. CASE op.type = "tags"
  BY <1>0, <1>4 DEF Judge, JudgeTags
<1>5. CASE op.type = "create_if_missing"
  BY <1>0, <1>5 DEF Judge, JudgeCreate
<1>6. CASE op.type = "replace_if_pristine"
  BY <1>0, <1>6 DEF Judge, JudgeReplace, JudgePristine
<1>7. CASE op.type = "create_or_replace_if_pristine"
  BY <1>0, <1>7 DEF Judge, JudgeCreateOrReplace, JudgePristine
<1>8. CASE op.type = "merge_json"
  BY <1>0, <1>8 DEF Judge, JudgeMerge
<1> QED BY <1>1, <1>2, <1>3, <1>4, <1>5, <1>6, <1>7, <1>8, PathsOfTemplates

(* Nothing is judged differently while the files and their modes stay as they are. *)
LEMMA QuietSame ==
  ASSUME NEW op, files' = files, modes' = modes
  PROVE  Judge(op)' = Judge(op) /\ (Quiet(op)' <=> Quiet(op))
<1>1. Judge(op)' = Judge(op)
  BY DEF Judge, JudgeScaffold
<1> QED BY <1>1 DEF Quiet

(* Nor does a call's promise change. *)
LEMMA CalmSame ==
  ASSUME NEW c, files' = files, modes' = modes
  PROVE  /\ CalmCall(c)' <=> CalmCall(c)
         /\ \A n : QuietUpTo(c, n)' <=> QuietUpTo(c, n)
<1>1. ASSUME NEW n PROVE QuietUpTo(c, n)' <=> QuietUpTo(c, n)
  BY QuietSame DEF QuietUpTo
<1>2. Pending(c)' <=> Pending(c)
  <2>1. Judge(OpOf(c))' = Judge(OpOf(c))
    BY QuietSame
  <2> QED BY <2>1 DEF Pending, OpOf
<1>3. CalmCall(c)' <=> CalmCall(c)
  BY <1>1, <1>2 DEF CalmCall, Length, OpOf
<1> QED BY <1>1, <1>3

(* The operations of one call do not work against each other: what one of them writes leaves
   nothing to write for it and for those before it. *)
LEMMA WriteQuiets ==
  ASSUME IInv, modes = [f \in Paths |-> modes[f]],
         NEW ids, NEW suggest \in BOOLEAN,
         NEW k \in DOMAIN Ops(ids, suggest), NEW i \in 1..k,
         NEW how, NEW content, NEW m,
         Writes(Ops(ids, suggest)[k], how, content),
         Ops(ids, suggest)[k].type = "create_if_missing" => m = Ops(ids, suggest)[k].mode,
         files' = [files EXCEPT ![Ops(ids, suggest)[k].path] = content],
         modes' = [modes EXCEPT ![Ops(ids, suggest)[k].path] = m],
         i # k => Quiet(Ops(ids, suggest)[i])
  PROVE  Quiet(Ops(ids, suggest)[i])'
<1> DEFINE ops == Ops(ids, suggest)
           a == ops[i]
           b == ops[k]
<1> SUFFICES Quiet(a)'
  OBVIOUS
<1>1. DOMAIN ops = 1..Len(ops) /\ Len(ops) \in Nat
  BY OpsAreGood
<1>2. i \in DOMAIN ops /\ i \in Nat /\ k \in Nat /\ (i # k => i < k)
  <2> HIDE DEF ops
  <2> QED BY <1>1 DEF ops
<1>3. GoodOp(a) /\ GoodOp(b)
  BY <1>2, OpsAreGood
<1>4. /\ IF IsTemplateOp(a) THEN a \in TemplateOps ELSE a \in ToSet(Basics(suggest))
      /\ IF IsTemplateOp(b) THEN b \in TemplateOps ELSE b \in ToSet(Basics(suggest))
      /\ i # k /\ IsTemplateOp(a) => IsTemplateOp(b)
  BY <1>2, OpsOrigin DEF InOrder
<1>5. i # k => Quiet(a)
  OBVIOUS
<1>6. /\ Writes(b, how, content)
      /\ b.type = "create_if_missing" => m = b.mode
      /\ files' = [files EXCEPT ![b.path] = content]
      /\ modes' = [modes EXCEPT ![b.path] = m]
  OBVIOUS
<1>7. i = k => a = b
  OBVIOUS
<1> HIDE DEF ops, a, b
<1>8. a.path \in Paths /\ b.path \in Paths
  BY <1>3 DEF GoodOp
<1>9. /\ files'[b.path] = content /\ modes'[b.path] = m
      /\ \A f \in Paths \ {b.path} : files'[f] = files[f] /\ modes'[f] = modes[f]
  BY <1>6, <1>8 DEF IInv
<1>10. Quiet(b)' /\ content # Absent
  <2>1. Fits(b.path, files[b.path])
    BY <1>8 DEF IInv
  <2> QED BY <1>3, <1>4, <1>6, <1>9, <2>1, QuietWhenWritten
<1>11. CASE a = b
  BY <1>10, <1>11
<1>12. CASE a # b /\ a.path # b.path
  <2>1. Quiet(a) BY <1>5, <1>7, <1>12
  <2>2. files'[a.path] = files[a.path] /\ modes'[a.path] = modes[a.path]
    BY <1>8, <1>9, <1>12
  <2>3. a.other \in Paths => files'[a.other] = files[a.other] \/ files'[a.other] # Absent
    BY <1>9, <1>10
  <2> QED BY <1>3, <2>1, <2>2, <2>3, QuietElsewhere
<1>13. CASE a # b /\ a.path = b.path
  <2>0. i # k /\ Quiet(a) BY <1>5, <1>7, <1>13
  <2>1. CASE ~IsTemplateOp(b)
    <3>1. ~IsTemplateOp(a) BY <2>0, <2>1, <1>4
    <3> QED BY <2>1, <3>1, <1>4, <1>13, BasicsApart
  <2>2. CASE IsTemplateOp(b) /\ ~IsTemplateOp(a)
    <3>1. a.type = "scaffold"
      BY <1>3, <1>13, <2>2, PathsOfTemplates DEF IsTemplateOp, TextFiles, TagsFile
    <3>2. (JudgeScaffold(a))' = Skip
      BY <1>9, <1>10, <1>13 DEF JudgeScaffold
    <3>3. (Judge(a))' = Skip
      BY <3>1, <3>2 DEF Judge
    <3> QED BY <3>1, <3>3 DEF Quiet, Skip, Verdict
  <2>3. CASE IsTemplateOp(b) /\ IsTemplateOp(a)
    <3>1. a \in TemplateOps /\ b \in TemplateOps
      BY <2>3, <1>4
    <3>2. /\ a.type = "replace_if_pristine" /\ b.type = "replace_if_pristine"
          /\ b.content \in a.pristine => b.pristine \subseteq a.pristine
      BY <3>1, <1>13, TemplatesApart
    <3> DEFINE c == files[a.path]
    <3>3. Judge(a) = JudgeReplace(a, c) /\ Judge(b) = JudgeReplace(b, c)
      BY <3>2, <1>13 DEF Judge
    <3>4. Judge(b) = Verdict(how, content) /\ how \in {"new", "replace"}
      BY <1>6, <3>2 DEF Writes
    <3>5. content = b.content /\ c \in b.pristine /\ c # Absent
      <4> HIDE DEF c
      <4>1. c # Absent
        BY <3>3, <3>4, VerdictParts DEF JudgeReplace, Skip
      <4>2. JudgePristine(b, c) = Verdict(how, content)
        BY <3>3, <3>4, <4>1 DEF JudgeReplace
      <4>3. c # b.content
        BY <4>2, <3>4, VerdictParts DEF JudgePristine, Skip
      <4>4. c \in b.pristine
        BY <4>2, <4>3, <3>4, VerdictParts DEF JudgePristine, Conflict
      <4>5. Verdict("replace", b.content) = Verdict(how, content)
        BY <4>2, <4>3, <4>4 DEF JudgePristine
      <4>6. content = b.content BY <4>5, VerdictParts
      <4> QED BY <4>1, <4>4, <4>6
    <3>6. c = a.content \/ c \notin a.pristine
      <4>1. Judge(a).does \in {"skip", "conflict"} BY <2>0, <3>2 DEF Quiet
      <4> QED BY <4>1, <3>3, <3>5 DEF JudgeReplace, JudgePristine, Verdict
    <3>7. a.content \notin a.pristine
      BY <3>1, TemplatesApart
    <3>8. b.content \notin a.pristine
      BY <3>2, <3>5, <3>6, <3>7
    <3>9. (Judge(a))' = JudgeReplace(a, b.content)
      BY <3>2, <3>5, <1>9, <1>13 DEF Judge
    <3>10. JudgeReplace(a, b.content) \in {Skip, Conflict}
      BY <3>8 DEF JudgeReplace, JudgePristine
    <3> QED BY <3>2, <3>9, <3>10 DEF Quiet, Skip, Conflict, Verdict
  <2> QED BY <2>1, <2>2, <2>3
<1> QED BY <1>11, <1>12, <1>13

(* A call that goes on has an operation more behind it. *)
LEMMA OnwardCalm ==
  ASSUME NEW c, IsCall(c), c.suggest \in BOOLEAN,
         c.at = 0 \/ c.at \in DOMAIN Ops(c.ids, c.suggest),
         c.calm => QuietUpTo(c, c.at)',
         c.calm /\ c.again => QuietUpTo(c, Length(c))'
  PROVE  CalmCall(Onward(c))' /\ EnvCall(Onward(c))
<1> DEFINE d == Onward(c)
<1>1. Len(Ops(c.ids, c.suggest)) \in Nat /\ DOMAIN Ops(c.ids, c.suggest) = 1..Len(Ops(c.ids, c.suggest))
  BY OpsAreGood
<1>2. c.at \in Nat
  BY <1>1
<1>3. /\ d.ids = c.ids /\ d.suggest = c.suggest /\ d.calm = c.calm /\ d.again = c.again
      /\ \/ d.pc = "done" /\ c.at = Length(c)
         \/ d.pc = "read" /\ d.at = c.at + 1
  BY <1>2 DEF Onward, IsCall, Length
<1> HIDE DEF d
<1>4. \A n : QuietUpTo(d, n)' <=> QuietUpTo(c, n)'
  BY <1>3 DEF QuietUpTo
<1>5. Length(d) = Length(c)
  BY <1>3 DEF Length
<1>6. EnvCall(d)
  BY <1>3 DEF EnvCall
<1>7. ASSUME d.calm PROVE CalmCall(d)'
  <2>1. QuietUpTo(d, c.at)'
    BY <1>3, <1>4, <1>7
  <2>2. d.pc = "read" => d.at - 1 = c.at
    BY <1>2, <1>3
  <2>3. d.pc = "done" => QuietUpTo(d, Length(d))'
    BY <2>1, <1>3, <1>5
  <2>4. d.again => QuietUpTo(d, Length(d))'
    BY <1>3, <1>4, <1>5, <1>7
  <2> QED BY <2>1, <2>2, <2>3, <2>4, <1>3, <1>5 DEF CalmCall, Length
<1>8. ~d.calm => CalmCall(d)'
  BY DEF CalmCall
<1> QED BY <1>6, <1>7, <1>8 DEF d

(* The next operation behind a call. *)
LEMMA QuietUpToNext ==
  ASSUME NEW c, c.at \in Nat \ {0}, QuietUpTo(c, c.at - 1)', Quiet(OpOf(c))'
  PROVE  QuietUpTo(c, c.at)'
<1>1. \A i \in 1..c.at : i \in 1..(c.at - 1) \/ i = c.at
  OBVIOUS
<1> QED BY <1>1 DEF QuietUpTo, OpOf

(* A disturbed call promises nothing. *)
LEMMA DisturbedCalm ==
  ASSUME NEW c, IsCall(c), EnvCall(c), NEW d, d = [c EXCEPT !.calm = FALSE]
  PROVE  EnvCall(d) /\ CalmCall(d)'
<1>1. /\ d.calm = FALSE /\ d.pc = c.pc /\ d.ids = c.ids /\ d.suggest = c.suggest /\ d.at = c.at
      /\ d.content = c.content
  BY DEF IsCall
<1> QED BY <1>1 DEF EnvCall, CalmCall, OpOf

(* Steps that move one call on: the tree stays as it is, or the other calls are disturbed and no
   call is settled any more. *)
LEMMA OneMoves ==
  ASSUME IInv, CalmInv, modes' = [f \in Paths |-> modes'[f]], EnvFile',
         NEW p \in Procs, NEW c, EnvCall(c), CalmCall(c)',
         \/ UNCHANGED <<files, modes>> /\ calls' = [calls EXCEPT ![p] = c]
         \/ calls' = [Disturbed(p) EXCEPT ![p] = c],
         \A x \in settled' : QuietAll(x)'
  PROVE  CalmInv'
<1>1. ASSUME NEW q \in Procs PROVE EnvCall(calls[q])' /\ CalmCall(calls[q])'
  <2>0. IsCall(calls[q]) /\ EnvCall(calls[q]) /\ CalmCall(calls[q])
    BY DEF IInv, CalmInv, GoodCall
  <2>2. PICK d : d = calls'[q]
    OBVIOUS
  <2>3. EnvCall(d) /\ CalmCall(d)'
    <3>1. CASE q = p
      <4>1. d = c BY <2>2, <3>1 DEF IInv, Disturbed
      <4> QED BY <4>1
    <3>2. CASE q # p /\ UNCHANGED <<files, modes>> /\ d = calls[q]
      <4>1. EnvCall(d) /\ CalmCall(d) BY <2>0, <3>2
      <4>2. CalmCall(d)' <=> CalmCall(d) BY <3>2, CalmSame
      <4> QED BY <4>1, <4>2
    <3>3. CASE q # p /\ d = [calls[q] EXCEPT !.calm = FALSE]
      <4>1. PICK e : e = calls[q] OBVIOUS
      <4>2. IsCall(e) /\ EnvCall(e) /\ d = [e EXCEPT !.calm = FALSE] BY <4>1, <2>0, <3>3
      <4> QED BY <4>2, DisturbedCalm
    <3> QED BY <2>2, <3>1, <3>2, <3>3 DEF IInv, Disturbed
  <2> QED BY <2>2, <2>3 DEF EnvCall
<1> QED BY <1>1 DEF CalmInv

(* The empty tree. *)
LEMMA InitCalmInv == Init => CalmInv
<1> SUFFICES ASSUME Init PROVE CalmInv
  OBVIOUS
<1>1. modes = [f \in Paths |-> modes[f]] /\ settled = {} /\ edits \in Nat
  BY DEF Init
<1>2. ".env.example" \in Paths => files[".env.example"] = Absent
  BY DEF Init
<1>3. EnvFile
  BY <1>1, <1>2 DEF EnvFile, Absent, Text
<1>4. ASSUME NEW p \in Procs PROVE EnvCall(calls[p]) /\ CalmCall(calls[p])
  <2>1. calls[p] = Idle BY DEF Init
  <2>2. Idle.pc = "idle" /\ Idle.calm = FALSE BY DEF Idle
  <2> QED BY <2>1, <2>2 DEF EnvCall, CalmCall
<1> QED BY <1>1, <1>3, <1>4 DEF CalmInv

(* The user's edits disturb every call. *)
LEMMA AllDisturbed ==
  ASSUME IInv, CalmInv, modes' = [f \in Paths |-> modes'[f]], EnvFile', settled' = {},
         calls' = [q \in Procs |-> [calls[q] EXCEPT !.calm = FALSE]]
  PROVE  CalmInv'
<1>1. ASSUME NEW q \in Procs PROVE EnvCall(calls[q])' /\ CalmCall(calls[q])'
  <2>1. PICK e : e = calls[q] OBVIOUS
  <2>2. PICK d : d = calls'[q] OBVIOUS
  <2>3. IsCall(e) /\ EnvCall(e) /\ d = [e EXCEPT !.calm = FALSE]
    BY <2>1, <2>2 DEF IInv, CalmInv, GoodCall
  <2>4. EnvCall(d) /\ CalmCall(d)'
    BY <2>3, DisturbedCalm
  <2> QED BY <2>2, <2>4 DEF EnvCall
<1> QED BY <1>1 DEF CalmInv

(* The user edits a file, or changes its mode. *)
LEMMA EditCalm ==
  ASSUME IInv, CalmInv, NEW f \in Paths,
         (\E c \in UserEdits[f] : Edit(f, c)) \/ (\E m : Chmod(f, m))
  PROVE  CalmInv'
<1>1. CASE \E c \in UserEdits[f] : Edit(f, c)
  <2>1. modes' = modes /\ edits' = edits + 1 /\ edits \in Nat
    BY <1>1 DEF Edit, CalmInv, EnvFile
  <2>2. EnvFile' BY <2>1 DEF EnvFile
  <2>3. modes' = [g \in Paths |-> modes'[g]] BY <2>1 DEF CalmInv
  <2> QED BY <1>1, <2>2, <2>3, AllDisturbed DEF Edit
<1>2. CASE \E m : Chmod(f, m)
  <2>1. files' = files /\ edits' = edits + 1 /\ edits \in Nat
    BY <1>2 DEF Chmod, CalmInv, EnvFile
  <2>2. EnvFile' BY <2>1 DEF EnvFile
  <2>3. modes' = [g \in Paths |-> modes'[g]] BY <1>2 DEF CalmInv, Chmod
  <2> QED BY <1>2, <2>2, <2>3, AllDisturbed DEF Chmod
<1> QED BY <1>1, <1>2

(* Steps that leave the tree alone and move one call on. *)
LEMMA OneMovesStill ==
  ASSUME IInv, CalmInv, UNCHANGED <<files, modes, edits, settled>>,
         NEW p \in Procs, NEW c, EnvCall(c), CalmCall(c)', calls' = [calls EXCEPT ![p] = c]
  PROVE  CalmInv'
<1>1. EnvFile' /\ modes' = [f \in Paths |-> modes'[f]]
  BY DEF EnvFile, CalmInv
<1>2. ASSUME NEW x \in settled' PROVE QuietAll(x)'
  <2>1. QuietAll(x) BY DEF CalmInv
  <2> QED BY <2>1, QuietSame DEF QuietAll
<1> QED BY <1>1, <1>2, OneMoves

(* Init is called: again, when the same call has just set the project up. *)
LEMMA StartCalm ==
  ASSUME IInv, CalmInv, NEW p \in Procs, NEW ids, NEW suggest \in BOOLEAN, StartInit(p, ids, suggest)
  PROVE  CalmInv'
<1> DEFINE again == <<ids, suggest>> \in settled
           calm == \A q \in Procs \ {p} : ~Running(q)
           c == [Idle EXCEPT !.ids = ids, !.suggest = suggest, !.again = again, !.calm = calm]
<1>1. calls' = [calls EXCEPT ![p] = Onward(c)]
  BY DEF StartInit
<1>2. /\ IsCall(c) /\ c.suggest = suggest /\ c.ids = ids /\ c.at = 0
      /\ c.again = again
  <2> HIDE DEF again, calm
  <2>1. PICK d : d = [Idle EXCEPT !.ids = ids, !.suggest = suggest, !.again = again, !.calm = calm]
    OBVIOUS
  <2>2. IsCall(d) /\ d.suggest = suggest /\ d.ids = ids /\ d.at = 0 /\ d.again = again
    BY <2>1 DEF Idle, IsCall
  <2>3. c = d
    BY <2>1, Zenon
  <2> HIDE DEF c
  <2> QED BY <2>2, <2>3
<1>3. UNCHANGED <<files, modes, edits, settled>>
  BY DEF StartInit
<1>4. again => QuietAll(<<ids, suggest>>)'
  <2>1. again => QuietAll(<<ids, suggest>>) BY DEF CalmInv
  <2> QED BY <2>1, <1>3, QuietSame DEF QuietAll
<1> HIDE DEF c
<1>5. PICK d : d = c OBVIOUS
<1>6. QuietUpTo(d, 0)'
  BY DEF QuietUpTo
<1>7. d.again => QuietUpTo(d, Length(d))'
  <2>1. DOMAIN Ops(ids, suggest) = 1..Len(Ops(ids, suggest))
    BY OpsAreGood
  <2> QED BY <2>1, <1>2, <1>4, <1>5 DEF QuietUpTo, QuietAll, Length
<1>8. CalmCall(Onward(d))' /\ EnvCall(Onward(d))
  BY <1>2, <1>5, <1>6, <1>7, OnwardCalm
<1> QED BY <1>1, <1>3, <1>5, <1>8, OneMovesStill

(* Where a call stands. *)
LEMMA CallStands ==
  ASSUME IInv, CalmInv, NEW p \in Procs, calls[p].pc \in {"read", "reread", "temp", "publish"}
  PROVE  \E c : /\ c = calls[p] /\ GoodCall(c) /\ EnvCall(c) /\ CalmCall(c)
                /\ IsCall(c) /\ c.suggest \in BOOLEAN /\ c.at \in Nat \ {0}
                /\ c.at \in DOMAIN Ops(c.ids, c.suggest) /\ c.at \in 1..Length(c)
                /\ CurrentOp(p) = OpOf(c) /\ GoodOp(OpOf(c))
                /\ IF IsTemplateOp(OpOf(c)) THEN OpOf(c) \in TemplateOps
                   ELSE OpOf(c) \in ToSet(Basics(c.suggest))
<1>1. PICK c : c = calls[p]
  OBVIOUS
<1>2. /\ GoodCall(c) /\ EnvCall(c) /\ CalmCall(c) /\ IsCall(c) /\ c.suggest \in BOOLEAN
      /\ c.at \in DOMAIN Ops(c.ids, c.suggest)
  BY <1>1 DEF IInv, CalmInv, GoodCall
<1>3. DOMAIN Ops(c.ids, c.suggest) = 1..Length(c) /\ Length(c) \in Nat /\ GoodOp(OpOf(c))
  BY <1>2, OpsAreGood DEF Length, OpOf
<1>4. c.at \in Nat \ {0} /\ c.at \in 1..Length(c)
  BY <1>2, <1>3
<1>5. IF IsTemplateOp(OpOf(c)) THEN OpOf(c) \in TemplateOps ELSE OpOf(c) \in ToSet(Basics(c.suggest))
  BY <1>2, OpsOrigin DEF OpOf
<1>6. CurrentOp(p) = OpOf(c)
  BY <1>1 DEF CurrentOp, OpOf
<1> QED BY <1>1, <1>2, <1>3, <1>4, <1>5, <1>6

(* A call comes to its end: what it has left with nothing to write is settled. *)
LEMMA EndCalm ==
  ASSUME IInv, CalmInv, NEW p \in Procs, Return(p) \/ Crash(p)
  PROVE  CalmInv'
<1>1. UNCHANGED <<files, modes, edits>> /\ calls' = [calls EXCEPT ![p] = Idle]
  BY DEF Return, Crash
<1>2. EnvFile' /\ modes' = [f \in Paths |-> modes'[f]]
  BY <1>1 DEF EnvFile, CalmInv
<1>3. EnvCall(Idle) /\ CalmCall(Idle)'
  BY DEF EnvCall, CalmCall, Idle
<1>4. ASSUME NEW x \in settled' PROVE QuietAll(x)'
  <2>1. CASE x \in settled
    <3>1. QuietAll(x) BY <2>1 DEF CalmInv
    <3> QED BY <1>1, <3>1, QuietSame DEF QuietAll
  <2>2. CASE x \notin settled
    <3>1. PICK c : c = calls[p] OBVIOUS
    <3>2. c.calm /\ c.pc = "done" /\ x = <<c.ids, c.suggest>>
      BY <2>2, <3>1 DEF Return, Crash
    <3>3. CalmCall(c) /\ c.suggest \in BOOLEAN
      BY <3>1 DEF IInv, CalmInv, GoodCall
    <3>4. QuietUpTo(c, Length(c))
      BY <3>2, <3>3 DEF CalmCall
    <3>5. DOMAIN Ops(c.ids, c.suggest) = 1..Len(Ops(c.ids, c.suggest))
      BY <3>3, OpsAreGood
    <3>6. QuietAll(x)
      BY <3>2, <3>4, <3>5 DEF QuietUpTo, QuietAll, Length
    <3> QED BY <1>1, <3>6, QuietSame DEF QuietAll
  <2> QED BY <2>1, <2>2
<1> QED BY <1>1, <1>2, <1>3, <1>4, OneMoves

(* The second read of appendUniqueLines finds what the first one found. *)
LEMMA RereadCalm ==
  ASSUME IInv, CalmInv, NEW p \in Procs, Reread(p)
  PROVE  CalmInv'
<1>1. PICK c : /\ c = calls[p] /\ GoodCall(c) /\ EnvCall(c) /\ CalmCall(c) /\ IsCall(c)
               /\ CurrentOp(p) = OpOf(c)
  BY CallStands DEF Reread
<1>2. c.pc = "reread" /\ OpOf(c).type = "append"
  BY <1>1 DEF Reread, GoodCall
<1> DEFINE file == files[OpOf(c).path]
           text == Text((IF file = Absent THEN <<>> ELSE file.lines) \o c.content.lines)
           c1 == [c EXCEPT !.pc = "temp", !.how = "replace", !.content = text, !.read = file]
<1>3. calls' = [calls EXCEPT ![p] = c1] /\ UNCHANGED <<files, modes, edits, settled>>
  BY <1>1 DEF Reread, IInv
<1>4. PICK d : d = c1 OBVIOUS
<1>5. /\ d.pc = "temp" /\ d.ids = c.ids /\ d.suggest = c.suggest /\ d.at = c.at
      /\ d.again = c.again /\ d.calm = c.calm /\ d.how = "replace" /\ d.content = text
  <2> HIDE DEF file, text
  <2> QED BY <1>1, <1>4 DEF IsCall
<1>6. OpOf(d) = OpOf(c) /\ \A n : QuietUpTo(d, n) <=> QuietUpTo(c, n)
  BY <1>5 DEF OpOf, QuietUpTo
<1>7. EnvCall(d)
  BY <1>2, <1>6 DEF EnvCall
<1>8. ASSUME d.calm PROVE CalmCall(d)
  <2>1. /\ QuietUpTo(c, c.at - 1) /\ ~c.again
        /\ c.content = Text(LinesMissing(file, OpOf(c).content.lines))
    BY <1>1, <1>2, <1>5, <1>8 DEF CalmCall
  <2>2. c.content.lines = LinesMissing(file, OpOf(c).content.lines)
    <3> HIDE DEF file
    <3> QED BY <2>1 DEF Text
  <2>3. Pending(d)
    BY <1>2, <1>5, <1>6, <2>2 DEF Pending
  <2> QED BY <1>5, <1>6, <2>1, <2>3 DEF CalmCall
<1>9. CalmCall(d)'
  <2>1. CalmCall(d) BY <1>8 DEF CalmCall
  <2> QED BY <2>1, <1>3, CalmSame
<1> QED BY <1>3, <1>4, <1>7, <1>9, OneMovesStill

(* AtomicNew looks whether the file exists: for a call nobody disturbs it does only if it is an
   empty .env.example, which stays as it is. *)
LEMMA MakeTempCalm ==
  ASSUME IInv, CalmInv, NEW p \in Procs, MakeTemp(p)
  PROVE  CalmInv'
<1>1. PICK c : /\ c = calls[p] /\ GoodCall(c) /\ EnvCall(c) /\ CalmCall(c) /\ IsCall(c)
               /\ c.suggest \in BOOLEAN /\ c.at \in Nat \ {0}
               /\ c.at \in DOMAIN Ops(c.ids, c.suggest)
               /\ CurrentOp(p) = OpOf(c) /\ GoodOp(OpOf(c))
  BY CallStands DEF MakeTemp
<1> DEFINE op == OpOf(c)
           taken == c.how = "new" /\ files[op.path] # Absent
           m == IF files[op.path] # Absent THEN modes[op.path] ELSE op.mode
<1>2. c.pc = "temp" /\ UNCHANGED <<files, modes, edits, settled>>
  BY <1>1 DEF MakeTemp
<1>3. calls' = [calls EXCEPT ![p] =
            IF taken THEN IF IsTemplateOp(op) THEN [c EXCEPT !.pc = "failed"] ELSE Onward(c)
            ELSE [c EXCEPT !.pc = "publish", !.mode = m]]
  BY <1>1 DEF MakeTemp, IInv
<1>4. c.calm => QuietUpTo(c, c.at - 1) /\ Pending(c)
  BY <1>1, <1>2 DEF CalmCall
<1>5. c.calm /\ taken => op.type = "env" /\ files[op.path] = Text(<<>>)
  <2>1. c.calm /\ taken => op.type # "append"
    BY <1>4 DEF Pending
  <2>2. c.calm /\ taken => Judge(op) = Verdict("new", c.content)
    BY <1>4, <2>1 DEF Pending
  <2>3. Verdict("new", c.content).does = "new"
    BY DEF Verdict
  <2> QED BY <1>1, <2>2, <2>3, NewOverFile
<1>6. c.calm /\ c.again => QuietUpTo(c, Length(c)) /\ taken
  BY <1>1, <1>2 DEF CalmCall
<1> HIDE DEF op, m
<1>7. CASE taken /\ IsTemplateOp(op)
  <2>1. PICK d : d = [c EXCEPT !.pc = "failed"] OBVIOUS
  <2>2. d.pc = "failed" /\ d.calm = c.calm
    BY <1>1, <2>1 DEF IsCall
  <2>3. ~d.calm
    BY <1>5, <1>7, <2>2 DEF IsTemplateOp
  <2>4. EnvCall(d) /\ CalmCall(d)'
    BY <2>2, <2>3 DEF EnvCall, CalmCall
  <2>5. calls' = [calls EXCEPT ![p] = d]
    BY <1>3, <1>7, <2>1
  <2> QED BY <1>2, <2>4, <2>5, OneMovesStill
<1>8. CASE taken /\ ~IsTemplateOp(op)
  <2>1. c.calm => Quiet(op)
    BY <1>5, <1>8 DEF Quiet
  <2>2. c.calm => QuietUpTo(c, c.at)'
    <3>1. c.calm => QuietUpTo(c, c.at - 1)' /\ Quiet(op)'
      BY <1>2, <1>4, <2>1, CalmSame, QuietSame
    <3> QED BY <1>1, <3>1, QuietUpToNext DEF op
  <2>3. c.calm /\ c.again => QuietUpTo(c, Length(c))'
    BY <1>2, <1>6, CalmSame
  <2>4. CalmCall(Onward(c))' /\ EnvCall(Onward(c))
    BY <1>1, <2>2, <2>3, OnwardCalm
  <2>5. calls' = [calls EXCEPT ![p] = Onward(c)]
    BY <1>3, <1>8
  <2> QED BY <1>2, <2>4, <2>5, OneMovesStill
<1>9. CASE ~taken
  <2>1. PICK d : d = [c EXCEPT !.pc = "publish", !.mode = m] OBVIOUS
  <2>2. /\ d.pc = "publish" /\ d.ids = c.ids /\ d.suggest = c.suggest /\ d.at = c.at
        /\ d.again = c.again /\ d.calm = c.calm /\ d.how = c.how /\ d.content = c.content /\ d.mode = m
    BY <1>1, <2>1 DEF IsCall
  <2>3. OpOf(d) = op /\ \A n : QuietUpTo(d, n) <=> QuietUpTo(c, n)
    BY <2>2 DEF OpOf, QuietUpTo, op
  <2>4. EnvCall(d)
    BY <1>1, <1>2, <2>2, <2>3 DEF EnvCall, op
  <2>5. ASSUME d.calm PROVE CalmCall(d)
    <3>1. c.calm /\ ~c.again BY <1>6, <1>9, <2>2, <2>5
    <3>2. Pending(d)
      <4>1. d.how = "new" => files[op.path] = Absent /\ d.mode = op.mode
        BY <1>9, <2>2 DEF m
      <4>2. Pending(c) BY <1>4, <3>1
      <4> QED BY <2>2, <2>3, <4>1, <4>2 DEF Pending, op
    <3> QED BY <1>4, <2>2, <2>3, <3>1, <3>2 DEF CalmCall
  <2>6. CalmCall(d)'
    <3>1. CalmCall(d) BY <2>5 DEF CalmCall
    <3> QED BY <3>1, <1>2, CalmSame
  <2>7. calls' = [calls EXCEPT ![p] = d]
    BY <1>3, <1>9, <2>1
  <2> QED BY <1>2, <2>4, <2>6, <2>7, OneMovesStill
<1> QED BY <1>7, <1>8, <1>9

(* rename or link: the call writes what its operation makes of the file as it is, if nobody
   disturbs it. *)
LEMMA PublishCalm ==
  ASSUME IInv, CalmInv, NEW p \in Procs, Publish(p)
  PROVE  CalmInv'
<1>1. PICK c : /\ c = calls[p] /\ GoodCall(c) /\ EnvCall(c) /\ CalmCall(c) /\ IsCall(c)
               /\ c.suggest \in BOOLEAN /\ c.at \in Nat \ {0} /\ c.at \in 1..Length(c)
               /\ c.at \in DOMAIN Ops(c.ids, c.suggest)
               /\ CurrentOp(p) = OpOf(c) /\ GoodOp(OpOf(c))
  BY CallStands DEF Publish
<1> DEFINE op == OpOf(c)
           f == op.path
           taken == c.how = "new" /\ files[f] # Absent
<1>2. c.pc = "publish" /\ edits' = edits /\ f \in Paths
  BY <1>1 DEF Publish, GoodOp
<1>3. c.calm => QuietUpTo(c, c.at - 1) /\ Pending(c) /\ ~c.again
  BY <1>1, <1>2 DEF CalmCall
<1>4. c.calm => ~taken
  BY <1>2, <1>3 DEF Pending
<1>5. CASE taken
  <2>1. PICK d : d = IF IsTemplateOp(op) THEN [c EXCEPT !.pc = "failed"] ELSE Onward(c)
    OBVIOUS
  <2>2. calls' = [calls EXCEPT ![p] = d] /\ UNCHANGED <<files, modes, settled>>
    BY <1>1, <1>5, <2>1 DEF Publish, IInv
  <2>3. EnvCall(d) /\ CalmCall(d)'
    <3>1. CASE IsTemplateOp(op)
      <4>1. d = [c EXCEPT !.pc = "failed"] BY <2>1, <3>1
      <4>2. d.pc = "failed" /\ d.calm = c.calm
        BY <1>1, <4>1 DEF IsCall
      <4> QED BY <1>4, <1>5, <4>2 DEF EnvCall, CalmCall
    <3>2. CASE ~IsTemplateOp(op)
      <4>1. d = Onward(c) BY <2>1, <3>2
      <4> QED BY <1>1, <1>4, <1>5, <4>1, OnwardCalm
    <3> QED BY <3>1, <3>2
  <2> QED BY <1>2, <2>2, <2>3, OneMovesStill
<1>6. CASE ~taken
  <2>1. /\ files' = [files EXCEPT ![f] = c.content]
        /\ modes' = [modes EXCEPT ![f] = c.mode]
        /\ settled' = {}
        /\ calls' = [Disturbed(p) EXCEPT ![p] = Onward(c)]
    BY <1>1, <1>6 DEF Publish, IInv, Disturbed
  <2>2. modes' = [g \in Paths |-> modes'[g]]
    BY <2>1 DEF CalmInv
  <2>3. EnvFile'
    <3>1. CASE f = ".env.example"
      <4>1. op.type = "env"
        BY <1>1, <3>1, PathsOfTemplates DEF TextFiles, TagsFile, IsTemplateOp
      <4>2. c.content # Text(<<>>) \/ EnvKeys = <<>>
        BY <1>1, <1>2, <4>1 DEF EnvCall
      <4>3. files'[f] = c.content
        BY <1>2, <2>1 DEF IInv
      <4> QED BY <1>2, <3>1, <4>2, <4>3 DEF EnvFile, CalmInv
    <3>2. CASE f # ".env.example"
      <4>1. ".env.example" \in Paths => files'[".env.example"] = files[".env.example"]
        BY <2>1, <3>2 DEF IInv
      <4> QED BY <1>2, <4>1 DEF EnvFile, CalmInv
    <3> QED BY <3>1, <3>2
  <2>4. c.calm => QuietUpTo(c, c.at)'
    <3> SUFFICES ASSUME c.calm, NEW i \in 1..c.at
                 PROVE  Quiet(Ops(c.ids, c.suggest)[i])'
      BY DEF QuietUpTo
    <3>1. i # c.at => Quiet(Ops(c.ids, c.suggest)[i])
      <4>1. i # c.at => i \in 1..(c.at - 1) BY <1>1
      <4> QED BY <1>3, <4>1 DEF QuietUpTo
    <3>2. Pending(c)
      BY <1>3
    <3>3. Writes(op, c.how, c.content)
      BY <3>2 DEF Pending, Writes
    <3>4. op.type = "create_if_missing" => c.mode = op.mode
      <4>1. ASSUME op.type = "create_if_missing" PROVE c.how = "new"
        <5>1. JudgeCreate(op, files[f]) = Verdict(c.how, c.content) /\ c.how \in {"new", "replace"}
          BY <3>2, <4>1 DEF Pending, Judge
        <5>2. JudgeCreate(op, files[f]) \in {Skip, Conflict, Verdict("new", op.content)}
          BY DEF JudgeCreate
        <5> HIDE DEF op, f
        <5> QED BY <5>1, <5>2, VerdictParts DEF Skip, Conflict
      <4> QED BY <1>2, <3>2, <4>1 DEF Pending
    <3>5. modes = [g \in Paths |-> modes[g]]
      BY DEF CalmInv
    <3>6. /\ Writes(Ops(c.ids, c.suggest)[c.at], c.how, c.content)
          /\ Ops(c.ids, c.suggest)[c.at].type = "create_if_missing" =>
                c.mode = Ops(c.ids, c.suggest)[c.at].mode
          /\ files' = [files EXCEPT ![Ops(c.ids, c.suggest)[c.at].path] = c.content]
          /\ modes' = [modes EXCEPT ![Ops(c.ids, c.suggest)[c.at].path] = c.mode]
      BY <2>1, <3>3, <3>4 DEF OpOf
    <3> QED BY <1>1, <3>1, <3>5, <3>6, WriteQuiets
  <2>5. CalmCall(Onward(c))' /\ EnvCall(Onward(c))
    BY <1>1, <1>3, <2>4, OnwardCalm
  <2> QED BY <2>1, <2>2, <2>3, <2>5, OneMoves
<1> QED BY <1>5, <1>6

(* A file that is as it should be, and has its mode (ensureInitTemplateMode). *)
LEMMA ReadQuiets ==
  ASSUME NEW op, GoodOp(op), IsTemplateOp(op) => op \in TemplateOps,
         modes = [f \in Paths |-> modes[f]], files' = files,
         Judge(op).does \in {"skip", "conflict"},
         modes' = IF Judge(op).does = "skip" /\ IsTemplateOp(op) /\ files[op.path] # Absent
                        /\ modes[op.path] # op.mode
                  THEN [modes EXCEPT ![op.path] = op.mode] ELSE modes
  PROVE  Quiet(op)'
<1>1. Judge(op)' = Judge(op)
  BY DEF Judge, JudgeScaffold
<1>2. ASSUME op.type = "create_if_missing", files[op.path] = op.content
      PROVE  modes'[op.path] = op.mode
  <2>1. op \in TemplateOps /\ IsTemplateOp(op)
    BY <1>2 DEF IsTemplateOp
  <2>2. files[op.path] # Absent
    BY <1>2, <2>1, TemplatesApart
  <2>3. Judge(op) = JudgeCreate(op, files[op.path])
    BY <1>2 DEF Judge
  <2>4. Judge(op).does = "skip"
    BY <1>2, <2>2, <2>3 DEF JudgeCreate, Skip, Verdict
  <2>5. op.path \in Paths
    BY DEF GoodOp
  <2> QED BY <2>1, <2>2, <2>4, <2>5
<1> QED BY <1>1, <1>2 DEF Quiet

(* Setting a mode leaves the other operations of the call with nothing to write. *)
LEMMA ModeQuiets ==
  ASSUME modes = [f \in Paths |-> modes[f]], files' = files,
         NEW a, GoodOp(a), IsTemplateOp(a) => a \in TemplateOps, Quiet(a),
         NEW b \in TemplateOps,
         modes' = modes \/ modes' = [modes EXCEPT ![b.path] = b.mode]
  PROVE  Quiet(a)'
<1>1. ASSUME a.type = "create_if_missing"
      PROVE  modes'[a.path] = modes[a.path] \/ modes'[a.path] = a.mode
  <2>1. a.path = b.path => a = b
    BY <1>1, TemplatesApart DEF IsTemplateOp
  <2>2. a.path \in Paths
    BY DEF GoodOp
  <2> QED BY <2>1, <2>2
<1> QED BY <1>1, QuietElsewhere

(* What is written into .env.example is never an empty text. *)
LEMMA EnvWrites ==
  ASSUME NEW op, GoodOp(op), op.type = "env", Fits(op.path, files[op.path]),
         Judge(op).does \in {"new", "replace"}
  PROVE  Judge(op).content # Text(<<>>) \/ EnvKeys = <<>>
<1> DEFINE c == files[op.path]
           missing == LinesMissing(c, op.content.lines)
<1>1. op.content = Text(EnvKeys) /\ op.path = ".env.example"
  BY PathsOfTemplates
<1>2. Judge(op) = JudgeEnv(op, c)
  BY DEF Judge
<1>3. \A l : Text(l) = Text(<<>>) => l = <<>>
  BY DEF Text
<1>4. CASE c \in {Absent, Text(<<>>)}
  <2>1. Judge(op).content = Text(EnvKeys)
    BY <1>1, <1>2, <1>4 DEF JudgeEnv, Verdict
  <2> QED BY <1>3, <2>1
<1>5. CASE c \notin {Absent, Text(<<>>)}
  <2>1. missing # <<>> /\ Judge(op).content = Text(c.lines \o missing)
    BY <1>2, <1>5 DEF JudgeEnv, Verdict, Skip
  <2>2. IsSeq(missing)
    BY <1>1, LinesMissingType, ProjectAssumption DEF Text
  <2>3. IsSeq(c.lines)
    BY <1>1, <1>5 DEF Fits, IsContent, TextFiles
  <2> HIDE DEF c, missing
  <2> DEFINE X == ToSet(c.lines) \cup ToSet(missing)
  <2>4. c.lines \in Seq(X) /\ missing \in Seq(X)
    BY <2>2, <2>3, SeqOfLarger
  <2> HIDE DEF X
  <2>5. c.lines \o missing # <<>>
    BY <2>1, <2>4
  <2> QED BY <1>3, <2>1, <2>5
<1> QED BY <1>4, <1>5

(* The file is read and judged. *)
LEMMA ReadCalm ==
  ASSUME IInv, CalmInv, NEW p \in Procs, Read(p)
  PROVE  CalmInv'
<1>1. PICK c : /\ c = calls[p] /\ GoodCall(c) /\ EnvCall(c) /\ CalmCall(c) /\ IsCall(c)
               /\ c.suggest \in BOOLEAN /\ c.at \in Nat \ {0} /\ c.at \in 1..Length(c)
               /\ c.at \in DOMAIN Ops(c.ids, c.suggest)
               /\ CurrentOp(p) = OpOf(c) /\ GoodOp(OpOf(c))
               /\ IF IsTemplateOp(OpOf(c)) THEN OpOf(c) \in TemplateOps
                  ELSE OpOf(c) \in ToSet(Basics(c.suggest))
  BY CallStands DEF Read
<1> DEFINE op == OpOf(c)
           v == Judge(op)
           fixMode == v.does = "skip" /\ IsTemplateOp(op) /\ files[op.path] # Absent
                      /\ modes[op.path] # op.mode
           c1 == CASE v.does \in {"skip", "conflict"} -> Onward(c)
                   [] v.does = "fail"   -> [c EXCEPT !.pc = "failed"]
                   [] v.does = "reread" -> [c EXCEPT !.pc = "reread", !.content = v.content]
                   [] OTHER -> [c EXCEPT !.pc = "temp", !.how = v.does, !.content = v.content,
                                         !.read = files[op.path]]
<1>2. /\ c.pc = "read" /\ files' = files /\ edits' = edits
      /\ modes' = IF fixMode THEN [modes EXCEPT ![op.path] = op.mode] ELSE modes
      /\ settled' = IF fixMode THEN {} ELSE settled
  BY <1>1 DEF Read
<1>3. /\ fixMode => calls' = [Disturbed(p) EXCEPT ![p] = c1]
      /\ ~fixMode => calls' = [calls EXCEPT ![p] = c1]
  BY <1>1 DEF Read, IInv, Disturbed
<1>4. op.path \in Paths /\ Fits(op.path, files[op.path])
  BY <1>1 DEF GoodOp, IInv
<1>5. /\ GoodVerdict(op, v)
      /\ v.does \in {"skip", "conflict", "fail", "reread", "new", "replace"}
      /\ v.does = "reread" => op.type = "append"
  BY <1>1, <1>4, JudgeIsGood DEF GoodVerdict
<1>6. c.calm => QuietUpTo(c, c.at - 1)
  BY <1>1, <1>2 DEF CalmCall
<1>7. c.calm /\ c.again => QuietUpTo(c, Length(c)) /\ Quiet(op)
  BY <1>1 DEF CalmCall, QuietUpTo, OpOf
<1>8. modes = [f \in Paths |-> modes[f]]
  BY DEF CalmInv
<1>9. ASSUME NEW n, n \in Nat, n <= Length(c), QuietUpTo(c, n) PROVE QuietUpTo(c, n)'
  <2> SUFFICES ASSUME NEW i \in 1..n PROVE Quiet(Ops(c.ids, c.suggest)[i])'
    BY DEF QuietUpTo
  <2> DEFINE a == Ops(c.ids, c.suggest)[i]
  <2> SUFFICES Quiet(a)'
    OBVIOUS
  <2>1. IsTemplateOp(a) => a \in TemplateOps
    <3>1. i \in DOMAIN Ops(c.ids, c.suggest)
      BY <1>1, <1>9, OpsAreGood DEF Length
    <3> QED BY <1>1, <3>1, OpsAreGood, OpsOrigin
  <2>2. Quiet(a)
    BY <1>9 DEF QuietUpTo
  <2>3. GoodOp(a)
    <3>1. i \in DOMAIN Ops(c.ids, c.suggest)
      BY <1>1, <1>9, OpsAreGood DEF Length
    <3> QED BY <1>1, <3>1, OpsAreGood
  <2>4. CASE fixMode
    <3>1. op \in TemplateOps BY <1>1, <2>4
    <3>2. modes' = [modes EXCEPT ![op.path] = op.mode] BY <1>2, <2>4
    <3> HIDE DEF op, a
    <3> QED BY <1>2, <1>8, <2>1, <2>2, <2>3, <3>1, <3>2, ModeQuiets
  <2>5. CASE ~fixMode
    <3>1. modes' = modes BY <1>2, <2>5
    <3> HIDE DEF a
    <3> QED BY <1>2, <2>2, <3>1, QuietSame
  <2> QED BY <2>4, <2>5
<1>10. ASSUME v.does \in {"skip", "conflict"}
       PROVE  CalmCall(Onward(c))' /\ EnvCall(Onward(c))
  <2>1. Quiet(op)'
    BY <1>1, <1>2, <1>8, <1>10, ReadQuiets
  <2>2. c.calm => QuietUpTo(c, c.at - 1)'
    <3>1. c.at - 1 \in Nat /\ c.at - 1 <= Length(c)
      BY <1>1, OpsAreGood DEF Length
    <3> QED BY <1>6, <1>9, <3>1
  <2>3. c.calm => QuietUpTo(c, c.at)'
    BY <1>1, <2>1, <2>2, QuietUpToNext
  <2>4. c.calm /\ c.again => QuietUpTo(c, Length(c))'
    <3>1. Length(c) \in Nat
      BY <1>1, OpsAreGood DEF Length
    <3> QED BY <1>7, <1>9, <3>1
  <2> QED BY <1>1, <2>3, <2>4, OnwardCalm
<1>11. c.calm /\ c.again /\ v.does \notin {"skip", "conflict"} =>
          op.type = "env" /\ files[op.path] = Text(<<>>)
  BY <1>7 DEF Quiet
<1>16. PICK d : d = c1
  OBVIOUS
<1>12. EnvCall(d) /\ CalmCall(d)'
  <2>1. CASE v.does \in {"skip", "conflict"}
    <3>1. d = Onward(c) BY <1>16, <2>1
    <3> QED BY <1>10, <2>1, <3>1
  <2>0. v.does \notin {"skip", "conflict"} => modes' = modes
    BY <1>2
  <2> DEFINE file == files[op.path]
  <2>2. CASE v.does = "fail"
    <3>2. d = [c EXCEPT !.pc = "failed"] BY <2>2, <1>16
    <3>3. d.pc = "failed" /\ d.calm = c.calm /\ d.again = c.again
      BY <1>1, <3>2 DEF IsCall
    <3>4. ~(d.calm /\ d.again)
      <4>1. op.type = "env" => v = JudgeEnv(op, file) BY DEF Judge
      <4>2. v.does = "fail" => op.type # "env"
        <5>1. JudgeEnv(op, file).does # "fail"
          BY DEF JudgeEnv, Verdict, Skip
        <5> QED BY <4>1, <5>1
      <4> QED BY <1>11, <2>2, <3>3, <4>2
    <3>5. EnvCall(d) /\ CalmCall(d)'
      BY <3>3, <3>4 DEF EnvCall, CalmCall
    <3> QED BY <3>5
  <2>3. CASE v.does = "reread"
    <3>2. d = [c EXCEPT !.pc = "reread", !.content = v.content] BY <2>3, <1>16
    <3>3. /\ d.pc = "reread" /\ d.calm = c.calm /\ d.again = c.again /\ d.ids = c.ids
          /\ d.suggest = c.suggest /\ d.at = c.at /\ d.content = v.content
      <4> HIDE DEF v, op
      <4> QED BY <1>1, <3>2 DEF IsCall
    <3>4. ~(d.calm /\ d.again)
      BY <1>5, <1>11, <2>3, <3>3
    <3>5. OpOf(d) = op /\ \A n : QuietUpTo(d, n) <=> QuietUpTo(c, n)
      BY <3>3 DEF OpOf, QuietUpTo
    <3>6. v.content = Text(LinesMissing(file, op.content.lines))
      <4>1. v = JudgeAppend(op, file) BY <1>5, <2>3 DEF Judge
      <4> QED BY <4>1, <2>3 DEF JudgeAppend, Skip, Verdict
    <3>7. CalmCall(d)
      BY <1>6, <3>3, <3>4, <3>5, <3>6 DEF CalmCall
    <3>8. EnvCall(d) /\ CalmCall(d)'
      BY <1>2, <2>0, <2>3, <3>3, <3>7, CalmSame DEF EnvCall
    <3> QED BY <3>8
  <2>4. CASE v.does \in {"new", "replace"}
    <3>2. d = [c EXCEPT !.pc = "temp", !.how = v.does, !.content = v.content, !.read = file]
      BY <2>4, <1>16
    <3>3. /\ d.pc = "temp" /\ d.calm = c.calm /\ d.again = c.again /\ d.ids = c.ids
          /\ d.suggest = c.suggest /\ d.at = c.at /\ d.content = v.content /\ d.how = v.does
      <4> HIDE DEF v, op, file
      <4> QED BY <1>1, <3>2 DEF IsCall
    <3>4. OpOf(d) = op /\ (\A n : QuietUpTo(d, n) <=> QuietUpTo(c, n)) /\ Length(d) = Length(c)
      BY <3>3 DEF OpOf, QuietUpTo, Length
    <3>5. v = Verdict(v.does, v.content)
      BY <1>1, JudgeForm
    <3>6. op.type # "append"
      <4>1. op.type = "append" => v = JudgeAppend(op, file) BY DEF Judge
      <4>2. JudgeAppend(op, file).does \notin {"new", "replace"}
        BY DEF JudgeAppend, Skip, Verdict
      <4> QED BY <2>4, <4>1, <4>2
    <3>7. Pending(d)
      BY <2>4, <3>3, <3>4, <3>5, <3>6 DEF Pending
    <3>8. ASSUME d.calm, d.again
          PROVE  d.how = "new" /\ op.type = "env" /\ file # Absent
      <4>1. op.type = "env" /\ file = Text(<<>>) BY <1>11, <2>4, <3>3, <3>8
      <4>2. v = JudgeEnv(op, file) BY <4>1 DEF Judge
      <4>3. v.does = "new" BY <4>1, <4>2 DEF JudgeEnv, Verdict
      <4>4. file # Absent BY <4>1 DEF Text, Absent
      <4> QED BY <3>3, <4>1, <4>3, <4>4
    <3>9. CalmCall(d)
      BY <1>6, <1>7, <3>3, <3>4, <3>7, <3>8 DEF CalmCall
    <3>10. EnvCall(d)
      <4>1. op.type = "env" => v.content # Text(<<>>) \/ EnvKeys = <<>>
        BY <1>1, <1>4, <2>4, EnvWrites
      <4> QED BY <3>3, <3>4, <4>1 DEF EnvCall
    <3>11. CalmCall(d)'
      BY <1>2, <2>0, <2>4, <3>9, CalmSame
    <3> QED BY <3>10, <3>11
  <2> QED BY <1>5, <2>1, <2>2, <2>3, <2>4
<1>13. EnvFile' /\ modes' = [f \in Paths |-> modes'[f]]
  BY <1>2, <1>8 DEF EnvFile, CalmInv
<1>14. ASSUME NEW x \in settled' PROVE QuietAll(x)'
  <2>1. ~fixMode /\ x \in settled BY <1>2, <1>14
  <2>2. QuietAll(x) BY <2>1 DEF CalmInv
  <2>3. modes' = modes BY <1>2, <2>1
  <2> QED BY <1>2, <2>2, <2>3, QuietSame DEF QuietAll
<1>15. \/ UNCHANGED <<files, modes>> /\ calls' = [calls EXCEPT ![p] = d]
       \/ calls' = [Disturbed(p) EXCEPT ![p] = d]
  BY <1>2, <1>3, <1>16
<1> HIDE DEF c1
<1> QED BY <1>12, <1>13, <1>14, <1>15, OneMoves

(* An operation with nothing to write has been done. *)
LEMMA QuietFulfilled ==
  ASSUME NEW op, GoodOp(op), IsTemplateOp(op) => op \in TemplateOps, Quiet(op), EnvFile
  PROVE  Fulfilled(op)
<1> DEFINE c == files[op.path]
<1>0. \A d, x : Verdict(d, x).does = d
  BY DEF Verdict
<1>1. CASE op.type = "append"
  <2>1. op.content = Text(GitIgnoreLines) /\ op.content.lines = GitIgnoreLines
    <3>1. op.content = Text(GitIgnoreLines) BY <1>1, PathsOfTemplates
    <3> QED BY <3>1 DEF Text
  <2>2. JudgeAppend(op, c).does \in {"skip", "conflict"}
    <3>1. Judge(op) = JudgeAppend(op, c) BY <1>1 DEF Judge
    <3> QED BY <1>1, <3>1 DEF Quiet
  <2>3. LinesMissing(c, op.content.lines) = <<>>
    BY <1>0, <2>2 DEF JudgeAppend
  <2>4. ToSet(op.content.lines) \subseteq Pieces(c)
    BY <2>1, <2>3, NothingMissing, ProjectAssumption
  <2> QED BY <1>1, <2>4 DEF Fulfilled
<1>2. CASE op.type = "env"
  <2>1. /\ op.content = Text(EnvKeys) /\ op.content.lines = EnvKeys
        /\ op.path = ".env.example" /\ op.path \in Paths
    BY <1>2, PathsOfTemplates DEF Text, GoodOp
  <2>2. CASE c = Text(<<>>)
    <3>1. edits > 0 \/ EnvKeys = <<>>
      BY <2>1, <2>2 DEF EnvFile
    <3>2. EnvKeys = <<>> => ToSet(op.content.lines) = {}
      BY <2>1 DEF ToSet
    <3> QED BY <1>2, <2>2, <3>1, <3>2 DEF Fulfilled
  <2>3. CASE c # Text(<<>>)
    <3>1. JudgeEnv(op, c).does \in {"skip", "conflict"}
      BY <1>2, <2>3 DEF Quiet, Judge
    <3>2. LinesMissing(c, op.content.lines) = <<>>
      BY <1>0, <3>1 DEF JudgeEnv
    <3>3. ToSet(op.content.lines) \subseteq Pieces(c)
      BY <2>1, <3>2, NothingMissing, ProjectAssumption
    <3> QED BY <1>2, <3>3 DEF Fulfilled
  <2> QED BY <2>2, <2>3
<1>3. CASE op.type = "scaffold"
  BY <1>0, <1>3 DEF Quiet, Judge, JudgeScaffold, Fulfilled
<1>4. CASE op.type = "tags"
  BY <1>0, <1>4 DEF Quiet, Judge, JudgeTags, Fulfilled
<1>5. CASE op.type = "create_if_missing"
  BY <1>0, <1>5 DEF Quiet, Judge, JudgeCreate, Fulfilled
<1>6. CASE op.type = "replace_if_pristine"
  <2>1. op.content \notin op.pristine /\ Absent \notin op.pristine
    BY <1>6, TemplatesApart DEF IsTemplateOp
  <2>2. JudgeReplace(op, c).does \in {"skip", "conflict"}
    BY <1>6 DEF Quiet, Judge
  <2>3. c \notin op.pristine
    BY <1>0, <2>1, <2>2 DEF JudgeReplace, JudgePristine
  <2> QED BY <1>6, <2>3 DEF Fulfilled
<1>7. CASE op.type = "create_or_replace_if_pristine"
  <2>1. op.content \notin op.pristine
    BY <1>7, TemplatesApart DEF IsTemplateOp
  <2>2. JudgeCreateOrReplace(op, c).does \in {"skip", "conflict"}
    BY <1>7 DEF Quiet, Judge
  <2>3. c # Absent /\ c \notin op.pristine
    BY <1>0, <2>1, <2>2 DEF JudgeCreateOrReplace, JudgePristine
  <2> QED BY <1>7, <2>3 DEF Fulfilled
<1>8. CASE op.type = "merge_json"
  <2> DEFINE w == op.content.value
             m == Merge(c.value, w)
  <2>1. JudgeMerge(op, c).does \in {"skip", "conflict"}
    BY <1>8 DEF Quiet, Judge
  <2>2. c # Absent
    BY <1>0, <2>1 DEF JudgeMerge
  <2>3. ASSUME c.kind = "json", Mergeable(c.value, w) PROVE m = c.value
    <3>1. Json(m) = c
      BY <1>0, <2>1, <2>2, <2>3 DEF JudgeMerge
    <3> HIDE DEF c, m
    <3> QED BY <3>1 DEF Json
  <2> QED BY <1>8, <2>2, <2>3 DEF Fulfilled
<1> QED BY <1>1, <1>2, <1>3, <1>4, <1>5, <1>6, <1>7, <1>8, PathsOfTemplates

(* Both invariants together are inductive. *)
LEMMA Invariants == Spec => [](IInv /\ CalmInv)
<1>1. Init => IInv /\ CalmInv
  BY InitIInv, InitCalmInv
<1>2. IInv /\ CalmInv /\ [Next]_vars => CalmInv'
  <2> SUFFICES ASSUME IInv, CalmInv, [Next]_vars PROVE CalmInv'
    OBVIOUS
  <2>1. ASSUME NEW f \in Paths, NEW c \in UserEdits[f], Edit(f, c) PROVE CalmInv'
    BY <2>1, EditCalm
  <2>2. ASSUME NEW f \in Paths, NEW m, Chmod(f, m) PROVE CalmInv'
    BY <2>2, EditCalm
  <2>3. ASSUME NEW p \in Procs, NEW ids, NEW suggest \in BOOLEAN, StartInit(p, ids, suggest) PROVE CalmInv'
    BY <2>3, StartCalm
  <2>4. ASSUME NEW p \in Procs, Read(p) PROVE CalmInv'
    BY <2>4, ReadCalm
  <2>5. ASSUME NEW p \in Procs, Reread(p) PROVE CalmInv'
    BY <2>5, RereadCalm
  <2>6. ASSUME NEW p \in Procs, MakeTemp(p) PROVE CalmInv'
    BY <2>6, MakeTempCalm
  <2>7. ASSUME NEW p \in Procs, Publish(p) PROVE CalmInv'
    BY <2>7, PublishCalm
  <2>8. ASSUME NEW p \in Procs, Return(p) \/ Crash(p) PROVE CalmInv'
    BY <2>8, EndCalm
  <2>9. CASE UNCHANGED vars
    <3>1. UNCHANGED <<files, modes, calls, settled, edits>> BY <2>9 DEF vars
    <3>2. ASSUME NEW q \in Procs PROVE EnvCall(calls[q])' /\ CalmCall(calls[q])'
      <4>1. PICK d : d = calls[q] OBVIOUS
      <4>2. EnvCall(d) /\ CalmCall(d) BY <4>1 DEF CalmInv
      <4>3. CalmCall(d)' BY <3>1, <4>2, CalmSame
      <4>4. d = calls'[q] BY <3>1, <4>1
      <4> QED BY <4>2, <4>3, <4>4 DEF EnvCall
    <3>3. ASSUME NEW x \in settled' PROVE QuietAll(x)'
      <4>1. QuietAll(x) BY <3>1, <3>3 DEF CalmInv
      <4> QED BY <3>1, <4>1, QuietSame DEF QuietAll
    <3>4. EnvFile' /\ modes' = [f \in Paths |-> modes'[f]]
      BY <3>1 DEF EnvFile, CalmInv
    <3> QED BY <3>2, <3>3, <3>4 DEF CalmInv
  <2> QED BY <2>1, <2>2, <2>3, <2>4, <2>5, <2>6, <2>7, <2>8, <2>9 DEF Next
<1>3. IInv /\ [Next]_vars => IInv'
  BY StepIInv
<1> QED BY <1>1, <1>2, <1>3, PTL DEF Spec

(* No template undoes or redoes what another one of the call, or the scaffold, has done
   (ApplyTemplates, templates.go:303-323): applied again to a tree nobody has touched since,
   the same templates write nothing and the call does not fail. *)
THEOREM ReappliedIsIdle == Spec => []ReapplyIsIdle
<1>1. IInv /\ CalmInv => ReapplyIsIdle
  <2> SUFFICES ASSUME IInv, CalmInv, NEW p \in Procs, calls[p].again, calls[p].calm
               PROVE  calls[p].pc \notin {"publish", "failed"}
    BY DEF ReapplyIsIdle
  <2>1. CalmCall(calls[p]) BY DEF CalmInv
  <2> QED BY <2>1 DEF CalmCall
<1> QED BY <1>1, Invariants, PTL

(* A call of init nobody disturbs leaves the project set up, whatever crashed, failed or
   overlapping calls have left (scaffold.go, tags.go, templates.go). *)
THEOREM EstablishedByInit == Spec => []InitEstablishes
<1>1. IInv /\ CalmInv => InitEstablishes
  <2> SUFFICES ASSUME IInv, CalmInv, NEW p \in Procs, calls[p].pc = "done", calls[p].calm,
                      NEW i \in DOMAIN Ops(calls[p].ids, calls[p].suggest)
               PROVE  Fulfilled(Ops(calls[p].ids, calls[p].suggest)[i])
    BY DEF InitEstablishes
  <2>1. PICK c : c = calls[p] OBVIOUS
  <2>2. CalmCall(c) /\ c.pc = "done" /\ c.calm /\ c.suggest \in BOOLEAN
    BY <2>1 DEF IInv, CalmInv, GoodCall
  <2>3. i \in DOMAIN Ops(c.ids, c.suggest) /\ DOMAIN Ops(c.ids, c.suggest) = 1..Length(c)
    BY <2>1, <2>2, OpsAreGood DEF Length
  <2> DEFINE op == Ops(c.ids, c.suggest)[i]
  <2>4. Quiet(op)
    BY <2>2, <2>3 DEF CalmCall, QuietUpTo
  <2>5. GoodOp(op)
    BY <2>2, <2>3, OpsAreGood
  <2>6. IsTemplateOp(op) => op \in TemplateOps
    BY <2>2, <2>3, OpsOrigin
  <2>7. EnvFile BY DEF CalmInv
  <2> HIDE DEF op
  <2>8. Fulfilled(op)
    BY <2>4, <2>5, <2>6, <2>7, QuietFulfilled
  <2> QED BY <2>1, <2>8 DEF op
<1> QED BY <1>1, Invariants, PTL
===============================================================================
