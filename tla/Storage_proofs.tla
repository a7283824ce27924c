---------------------------- MODULE Storage_proofs ----------------------------
(***************************************************************************)
(* Theorems about what is stored: the two database adapters                *)
(* (StorageParity) and the merge of a call into the tasks of a plan        *)
(* (TaskMerge).                                                            *)
(*                                                                         *)
(* Every operation of an adapter is brought to one form that is the same   *)
(* for both, a function of the database, the input and the instant it      *)
(* writes (StubsCall, SyncCall, PlanCall, ...): the operations then leave  *)
(* tables that agree, row by row and in seconds, when they found tables    *)
(* that do (StoresMatch).  A second call of the same kind finds what it    *)
(* would write already there.                                              *)
(***************************************************************************)
EXTENDS StorageParity, TaskMerge, FiniteSetTheorems, WellFoundedInduction, TLAPS

-------------------------------------------------------------------------------
(***************************************************************************)
(* Loops.  Induction on the natural numbers stated with a set of numbers,  *)
(* and what it gives for the folds of the community modules: FoldLeft is   *)
(* defined over the subsets of a sequence's indices, largest index first,  *)
(* by the CHOOSE of a table that has to be shown to exist.                 *)
(* The loops over payloads and rows (work.go, storage/domain) are such     *)
(* folds; ProjectFiles_proofs has the same lemmas for its own loops.       *)
(***************************************************************************)
(* Every set of natural numbers with an element has a least one. *)
LEMMA LeastNatural ==
  ASSUME NEW T \in SUBSET Nat, T # {}
  PROVE  \E m \in T : \A k \in T : m <= k
<1> DEFINE R == OpToRel(<, Nat)
<1>1. IsWellFoundedOn(R, Nat)
  BY NatLessThanWellFounded, Zenon
<1>2. PICK m \in T : \A k \in T : ~(<<k, m>> \in R)
  <2> HIDE DEF R
  <2> QED BY <1>1, WFMin
<1>3. \A k \in T : ~(k < m)
  BY <1>2 DEF OpToRel
<1> QED BY <1>3

(* Induction over the passes of a loop: a set with 0 and the successor of each of its
   numbers has every natural number. *)
THEOREM Induction ==
  ASSUME NEW T, 0 \in T, \A n \in Nat : n \in T => n + 1 \in T
  PROVE  \A n \in Nat : n \in T
<1> SUFFICES ASSUME NEW c \in Nat, c \notin T PROVE FALSE
  OBVIOUS
<1> DEFINE B == Nat \ T
<1>1. PICK m \in B : \A k \in B : m <= k
  BY LeastNatural
<1>2. m # 0 OBVIOUS
<1>3. m - 1 \in Nat /\ m - 1 \in T
  BY <1>1, <1>2
<1> QED BY <1>3

(* The last index of a set of indices that reaches n + 1. *)
LEMMA MaxOfInterval ==
  ASSUME NEW n \in Nat, NEW s \in SUBSET (1..(n+1)), n + 1 \in s
  PROVE  Max(s) = n + 1
<1>1. \A y \in s : n + 1 >= y OBVIOUS
<1>2. \A x \in s : (\A y \in s : x >= y) => x = n + 1 OBVIOUS
<1> QED BY <1>1, <1>2 DEF Max

(* Max is attained on every set of indices with an element. *)
LEMMA MaxInSet ==
  ASSUME NEW n \in Nat, NEW s \in SUBSET (1..n), s # {}
  PROVE  Max(s) \in s /\ \A y \in s : y <= Max(s)
<1> DEFINE T == {n - x : x \in s}
<1>0. PICK z \in s : TRUE OBVIOUS
<1>1. T \in SUBSET Nat /\ T # {}
  <2>1. n - z \in T OBVIOUS
  <2>2. \A x \in s : n - x \in Nat OBVIOUS
  <2> QED BY <2>1, <2>2
<1>2. PICK m \in T : \A k \in T : m <= k
  <2> HIDE DEF T
  <2> QED BY <1>1, LeastNatural
<1>3. PICK x \in s : m = n - x OBVIOUS
<1>4. ASSUME NEW y \in s PROVE x >= y
  <2>1. n - y \in T OBVIOUS
  <2>2. x \in Int /\ y \in Int OBVIOUS
  <2>3. n - x <= n - y
    <3> HIDE DEF T
    <3> QED BY <1>2, <1>3, <2>1
  <2> QED BY <2>2, <2>3
<1> QED BY <1>4 DEF Max

(* The set of the first k indices, as the fold takes it apart. *)
LEMMA MaxOfPrefix ==
  ASSUME NEW n \in Nat, NEW k \in 1..n
  PROVE  /\ 1..k \in SUBSET (1..n)
         /\ 1..k # {}
         /\ Max(1..k) = k
         /\ (1..k) \ {k} = 1..(k-1)
<1>1. /\ k - 1 \in Nat
      /\ (k - 1) + 1 = k
      /\ 1..k \in SUBSET (1..k)
      /\ k \in 1..k
  OBVIOUS
<1>2. Max(1..k) = k
  BY <1>1, MaxOfInterval, Zenon
<1> QED BY <1>1, <1>2

(* The table FoldLeft chooses: what the loop has made of the elements at any set of
   indices, taken in order; step and its value are functions of one argument. *)
IsFoldTable(f, V, step, base, seq) ==
    /\ f \in [SUBSET (1..Len(seq)) -> V]
    /\ \A s \in SUBSET (1..Len(seq)) :
          f[s] = IF s = {} THEN base ELSE step[f[s \ {Max(s)}]][seq[Max(s)]]

(* A loop over a finite sequence has a result: the table exists when every pass keeps
   the value in V. *)
LEMMA FoldTableExists ==
  ASSUME NEW V, NEW X, NEW step, NEW base, NEW seq,
         step \in [V -> [X -> V]], base \in V, seq \in Seq(X)
  PROVE  \E f : IsFoldTable(f, V, step, base, seq)
<1> DEFINE Table(f, k) == /\ f \in [SUBSET (1..k) -> V]
                          /\ \A s \in SUBSET (1..k) :
                                f[s] = IF s = {} THEN base ELSE step[f[s \ {Max(s)}]][seq[Max(s)]]
           Good(k) == k <= Len(seq) => \E f : Table(f, k)
           T == {k \in Nat : Good(k)}
<1>1. 0 \in T
  <2> DEFINE g == [s \in {{}} |-> base]
  <2>1. 1..0 = {} /\ SUBSET (1..0) = {{}} OBVIOUS
  <2>2. Table(g, 0) BY <2>1
  <2> HIDE DEF Table
  <2> QED BY <2>2
<1>2. ASSUME NEW k \in Nat, k \in T PROVE k + 1 \in T
  <2>a. Good(k) BY <1>2
  <2> SUFFICES ASSUME k + 1 <= Len(seq) PROVE \E f : Table(f, k+1)
    <3> HIDE DEF Table
    <3> QED OBVIOUS
  <2>0. k <= Len(seq) /\ k + 1 \in 1..Len(seq) /\ seq[k+1] \in X
    OBVIOUS
  <2>1. PICK f : Table(f, k)
    <3> HIDE DEF Table
    <3> QED BY <2>a, <2>0
  <2> DEFINE S1 == SUBSET (1..(k+1))
             g == [s \in S1 |-> IF k + 1 \in s THEN step[f[s \ {k+1}]][seq[k+1]] ELSE f[s]]
  <2>2. \A s \in S1 : s \ {k+1} \in SUBSET (1..k)
    OBVIOUS
  <2>3. \A s \in S1 : k+1 \notin s => s \in SUBSET (1..k)
    OBVIOUS
  <2>4. g \in [S1 -> V]
    <3> SUFFICES ASSUME NEW s \in S1 PROVE g[s] \in V
      OBVIOUS
    <3>1. CASE k + 1 \in s
      <4>1. f[s \ {k+1}] \in V BY <2>1, <2>2
      <4>2. step[f[s \ {k+1}]][seq[k+1]] \in V BY <4>1, <2>0
      <4> QED BY <3>1, <4>2
    <3>2. CASE k + 1 \notin s
      <4>1. f[s] \in V BY <2>1, <2>3, <3>2
      <4> QED BY <3>2, <4>1
    <3> QED BY <3>1, <3>2
  <2>5. ASSUME NEW s \in S1
        PROVE  g[s] = IF s = {} THEN base ELSE step[g[s \ {Max(s)}]][seq[Max(s)]]
    <3>1. CASE k + 1 \in s
      <4>1. Max(s) = k + 1 BY <3>1, MaxOfInterval
      <4>2. s \ {k+1} \in S1 /\ k + 1 \notin s \ {k+1} OBVIOUS
      <4>3. g[s \ {k+1}] = f[s \ {k+1}] BY <4>2
      <4> QED BY <3>1, <4>1, <4>3
    <3>2. CASE k + 1 \notin s
      <4>1. s \in SUBSET (1..k) BY <3>2, <2>3
      <4>2. s \ {Max(s)} \in S1 /\ k + 1 \notin s \ {Max(s)} BY <3>2
      <4>3. g[s] = f[s] /\ g[s \ {Max(s)}] = f[s \ {Max(s)}]
        BY <3>2, <4>2
      <4>4. f[s] = IF s = {} THEN base ELSE step[f[s \ {Max(s)}]][seq[Max(s)]]
        BY <2>1, <4>1
      <4> QED BY <4>3, <4>4
    <3> QED BY <3>1, <3>2
  <2>6. Table(g, k+1) BY <2>4, <2>5
  <2> HIDE DEF Table
  <2> QED BY <2>6
<1>3. Len(seq) \in T
  <2>1. Len(seq) \in Nat OBVIOUS
  <2> HIDE DEF T
  <2> QED BY <1>1, <1>2, <2>1, Induction
<1>4. PICK f : Table(f, Len(seq))
  <2> HIDE DEF Table
  <2> QED BY <1>3
<1> QED BY <1>4 DEF IsFoldTable

-------------------------------------------------------------------------------
(* ORDER BY: the rank of a row is the number of rows before it. *)

StrictOrder(R, S) ==
    /\ \A x \in S : <<x, x>> \notin R
    /\ \A x, y, z \in S : <<x, y>> \in R /\ <<y, z>> \in R => <<x, z>> \in R
    /\ \A x, y \in S : x # y => <<x, y>> \in R \/ <<y, x>> \in R
Below(R, S, r) == {x \in S : <<x, r>> \in R}
Rank(R, S, r) == Cardinality(Below(R, S, r))

(* A row has a higher rank than the rows before it. *)
LEMMA RankGrows ==
  ASSUME NEW S, IsFiniteSet(S), NEW R, StrictOrder(R, S),
         NEW x \in S, NEW y \in S, <<x, y>> \in R
  PROVE  Rank(R, S, x) \in Nat /\ Rank(R, S, y) \in Nat /\ Rank(R, S, x) < Rank(R, S, y)
<1> DEFINE X == Below(R, S, x)
           Y == Below(R, S, y)
<1>1. X \in SUBSET Y /\ x \in Y /\ x \notin X
  BY DEF StrictOrder, Below
<1>2. Y \in SUBSET S /\ X \in SUBSET S
  BY DEF Below
<1>3. IsFiniteSet(Y) /\ IsFiniteSet(X)
  BY <1>2, FS_Subset
<1> HIDE DEF X, Y
<1>4. Cardinality(X) <= Cardinality(Y) /\ Cardinality(X) # Cardinality(Y)
  BY <1>1, <1>3, FS_Subset
<1>5. Cardinality(X) \in Nat /\ Cardinality(Y) \in Nat
  BY <1>3, FS_CardinalityType
<1> QED BY <1>4, <1>5 DEF Rank, X, Y

(* Two rows of a table have different ranks, below the number of the rows. *)
LEMMA RankIsUnique ==
  ASSUME NEW S, IsFiniteSet(S), NEW R, StrictOrder(R, S)
  PROVE  /\ Cardinality(S) \in Nat
         /\ \A x \in S : Rank(R, S, x) \in Nat /\ Rank(R, S, x) < Cardinality(S)
         /\ \A x, y \in S : Rank(R, S, x) = Rank(R, S, y) => x = y
<1>1. ASSUME NEW x \in S
      PROVE  Rank(R, S, x) \in Nat /\ Rank(R, S, x) < Cardinality(S)
  <2>1. Below(R, S, x) \in SUBSET S /\ x \notin Below(R, S, x)
    BY DEF Below, StrictOrder
  <2>2. /\ IsFiniteSet(Below(R, S, x))
        /\ Cardinality(Below(R, S, x)) <= Cardinality(S)
        /\ Cardinality(Below(R, S, x)) # Cardinality(S)
    BY <2>1, FS_Subset
  <2>3. Cardinality(Below(R, S, x)) \in Nat /\ Cardinality(S) \in Nat
    BY <2>2, FS_CardinalityType
  <2> QED BY <2>2, <2>3 DEF Rank
<1>2. ASSUME NEW x \in S, NEW y \in S, Rank(R, S, x) = Rank(R, S, y), x # y PROVE FALSE
  <2>1. <<x, y>> \in R \/ <<y, x>> \in R
    BY <1>2 DEF StrictOrder
  <2>2. CASE <<x, y>> \in R
    <3>1. Rank(R, S, x) < Rank(R, S, y) BY <2>2, RankGrows
    <3> QED BY <3>1, <1>2, <1>1
  <2>3. CASE <<y, x>> \in R
    <3>1. Rank(R, S, y) < Rank(R, S, x) BY <2>3, RankGrows
    <3> QED BY <3>1, <1>2, <1>1
  <2> QED BY <2>1, <2>2, <2>3
<1>3. Cardinality(S) \in Nat
  BY FS_CardinalityType
<1> QED BY <1>1, <1>2, <1>3

(* Every rank below the number of the rows is taken. *)
LEMMA RankIsReached ==
  ASSUME NEW S, IsFiniteSet(S), NEW R, StrictOrder(R, S), NEW i \in 1..Cardinality(S)
  PROVE  \E r \in S : Rank(R, S, r) = i - 1
<1> DEFINE n == Cardinality(S)
           T == 0..(n-1)
           f == [r \in S |-> Rank(R, S, r)]
<1>1. n \in Nat /\ n - 1 \in Int
  BY RankIsUnique
<1>2. IsFiniteSet(T) /\ Cardinality(T) = n
  <2>1. PICK m \in Int : m = n - 1
    BY <1>1
  <2>2. /\ IsFiniteSet(0..m)
        /\ Cardinality(0..m) = IF 0 > m THEN 0 ELSE m - 0 + 1
    BY FS_Interval
  <2>3. (IF 0 > m THEN 0 ELSE m - 0 + 1) = n
    BY <1>1, <2>1
  <2> QED BY <2>1, <2>2, <2>3
<1>3. f \in Injection(S, T)
  BY RankIsUnique DEF Injection, IsInjective
<1>4. f \in Surjection(S, T)
  <2> HIDE DEF f, T, n
  <2> QED BY <1>2, <1>3, FS_Injection DEF n
<1>5. i - 1 \in T
  BY <1>1
<1> QED BY <1>4, <1>5 DEF Surjection

(* What Ordered makes of the rows S in the order R. *)
IsOrdered(o, S, R) ==
    /\ o \in [1..Cardinality(S) -> S]
    /\ \A i \in 1..Cardinality(S) : Rank(R, S, o[i]) = i - 1

(* Every row is there once. *)
LEMMA OrderedOnce ==
  ASSUME NEW S, IsFiniteSet(S), NEW R, StrictOrder(R, S), NEW o, IsOrdered(o, S, R)
  PROVE  /\ Cardinality(S) \in Nat
         /\ \A i, j \in 1..Cardinality(S) : o[i] = o[j] => i = j
         /\ \A r \in S : \E i \in 1..Cardinality(S) : o[i] = r
<1>1. Cardinality(S) \in Nat
  BY RankIsUnique
<1>2. ASSUME NEW i \in 1..Cardinality(S), NEW j \in 1..Cardinality(S), o[i] = o[j]
      PROVE  i = j
  BY <1>1, <1>2 DEF IsOrdered
<1>3. ASSUME NEW r \in S PROVE \E i \in 1..Cardinality(S) : o[i] = r
  <2>1. Rank(R, S, r) \in Nat /\ Rank(R, S, r) < Cardinality(S)
    BY RankIsUnique
  <2> DEFINE i == Rank(R, S, r) + 1
  <2>2. i \in 1..Cardinality(S) /\ i - 1 = Rank(R, S, r)
    BY <2>1, <1>1
  <2>3. o[i] \in S /\ Rank(R, S, o[i]) = Rank(R, S, r)
    <3> HIDE DEF i
    <3> QED BY <2>2 DEF IsOrdered
  <2>4. o[i] = r
    <3> HIDE DEF i
    <3> QED BY <2>3, RankIsUnique
  <2> QED BY <2>2, <2>4
<1> QED BY <1>1, <1>2, <1>3

-------------------------------------------------------------------------------
(* storage/domain: one element for each key of an input. *)

KeysOf(list) == {list[i].key : i \in DOMAIN list}
IntOrder(S) == {e \in S \X S : e[1] < e[2]}

LEMMA KeysFinite ==
  ASSUME NEW list, NEW n \in Nat, DOMAIN list = 1..n
  PROVE  IsFiniteSet(KeysOf(list))
<1> DEFINE f == [i \in 1..n |-> list[i].key]
<1>1. IsFiniteSet(1..n)
  BY FS_Interval
<1>2. f \in Surjection(1..n, KeysOf(list))
  BY DEF Surjection, KeysOf
<1> HIDE DEF f
<1> QED BY <1>1, <1>2, FS_Surjection

(* The sorted keys of an input, each of them once. *)
LEMMA SortedKeysOnce ==
  ASSUME NEW list, NEW n \in Nat, DOMAIN list = 1..n, \A i \in 1..n : list[i].key \in Int
  PROVE  \E m \in Nat :
            /\ DOMAIN SortedKeys(list) = 1..m
            /\ \A i \in 1..m : SortedKeys(list)[i] \in KeysOf(list)
            /\ \A i, j \in 1..m : SortedKeys(list)[i] = SortedKeys(list)[j] => i = j
            /\ \A k \in KeysOf(list) : \E i \in 1..m : SortedKeys(list)[i] = k
<1> DEFINE S == KeysOf(list)
           R == IntOrder(S)
           o == SortedKeys(list)
<1>1. IsFiniteSet(S) /\ Cardinality(S) \in Nat
  BY KeysFinite, FS_CardinalityType
<1>2. S \in SUBSET Int
  BY DEF KeysOf
<1>3. StrictOrder(R, S)
  <2> HIDE DEF S
  <2> QED BY <1>2 DEF StrictOrder, IntOrder
<1>4. \A r \in S : {x \in S : x < r} = Below(R, S, r)
  BY DEF Below, IntOrder
<1>5. o = [i \in 1..Cardinality(S) |-> CHOOSE r \in S : Cardinality({x \in S : x < r}) = i - 1]
  BY DEF SortedKeys, Ordered, KeysOf
<1> HIDE DEF S, R, o
<1>6. ASSUME NEW i \in 1..Cardinality(S)
      PROVE  o[i] \in S /\ Rank(R, S, o[i]) = i - 1
  <2>1. \E r \in S : Cardinality(Below(R, S, r)) = i - 1
    BY <1>1, <1>3, RankIsReached DEF Rank
  <2>2. \E r \in S : Cardinality({x \in S : x < r}) = i - 1
    BY <2>1, <1>4
  <2>3. o[i] \in S /\ Cardinality({x \in S : x < o[i]}) = i - 1
    BY <2>2, <1>5
  <2> QED BY <2>3, <1>4 DEF Rank
<1>7. IsOrdered(o, S, R)
  BY <1>5, <1>6 DEF IsOrdered
<1>8. /\ \A i, j \in 1..Cardinality(S) : o[i] = o[j] => i = j
      /\ \A r \in S : \E i \in 1..Cardinality(S) : o[i] = r
  BY <1>1, <1>3, <1>7, OrderedOnce
<1>9. DOMAIN o = 1..Cardinality(S)
  BY <1>5
<1> QED BY <1>1, <1>6, <1>8, <1>9 DEF S, o

(* The elements of a key that no other of the key outweighs; w has the weights. *)
Heaviest(list, w, k) ==
    {i \in DOMAIN list : /\ list[i].key = k
                         /\ \A j \in DOMAIN list : list[j].key = k => w[j] <= w[i]}
Picked(list, w) ==
    [m \in DOMAIN SortedKeys(list) |-> list[Max(Heaviest(list, w, SortedKeys(list)[m]))]]

(* A key of an input has a last heaviest element. *)
LEMMA HeaviestExists ==
  ASSUME NEW list, NEW n \in Nat, DOMAIN list = 1..n, NEW w \in [1..n -> 0..3],
         NEW k \in KeysOf(list)
  PROVE  Max(Heaviest(list, w, k)) \in Heaviest(list, w, k)
<1> DEFINE I == {i \in 1..n : list[i].key = k}
           W == {w[i] + 1 : i \in I}
           H == Heaviest(list, w, k)
<1>1. I # {}
  BY DEF KeysOf
<1>2. W \in SUBSET (1..4) /\ W # {}
  <2>1. \A i \in I : w[i] \in 0..3 OBVIOUS
  <2>2. \A i \in I : w[i] + 1 \in 1..4 BY <2>1
  <2> QED BY <1>1, <2>2
<1>3. Max(W) \in W /\ \A y \in W : y <= Max(W)
  <2> HIDE DEF W
  <2> QED BY <1>2, MaxInSet
<1>4. PICK i \in I : Max(W) = w[i] + 1
  BY <1>3
<1>5. ASSUME NEW j \in I PROVE w[j] <= w[i]
  <2>1. w[j] + 1 <= w[i] + 1
    BY <1>3, <1>4
  <2>2. w[j] \in 0..3 /\ w[i] \in 0..3 OBVIOUS
  <2> QED BY <2>1, <2>2
<1>6. i \in H
  BY <1>5 DEF Heaviest
<1>7. H \in SUBSET (1..n) /\ H # {}
  BY <1>6 DEF Heaviest
<1> HIDE DEF H
<1> QED BY <1>7, MaxInSet DEF H

(* What ByKey leaves of an input: an element of each key. *)
IsOfEachKey(rows, list) ==
    /\ \E m \in Nat : DOMAIN rows = 1..m
    /\ \A i \in DOMAIN rows : \E j \in DOMAIN list : rows[i] = list[j]
    /\ \A i, j \in DOMAIN rows : rows[i].key = rows[j].key => i = j
    /\ KeysOf(rows) = KeysOf(list)

LEMMA PickedOnce ==
  ASSUME NEW list, NEW n \in Nat, DOMAIN list = 1..n, NEW w \in [1..n -> 0..3],
         \A i \in 1..n : list[i].key \in Int
  PROVE  /\ IsOfEachKey(Picked(list, w), list)
         /\ \A i \in DOMAIN Picked(list, w) : Picked(list, w)[i].key = SortedKeys(list)[i]
<1> DEFINE ks == SortedKeys(list)
           rows == Picked(list, w)
<1>1. PICK m \in Nat :
            /\ DOMAIN ks = 1..m
            /\ \A i \in 1..m : ks[i] \in KeysOf(list)
            /\ \A i, j \in 1..m : ks[i] = ks[j] => i = j
            /\ \A k \in KeysOf(list) : \E i \in 1..m : ks[i] = k
  BY SortedKeysOnce
<1>2. /\ DOMAIN rows = 1..m
      /\ \A i \in 1..m : rows[i] = list[Max(Heaviest(list, w, ks[i]))]
  BY <1>1 DEF Picked
<1> HIDE DEF rows, ks
<1>3. ASSUME NEW i \in 1..m
      PROVE  /\ Max(Heaviest(list, w, ks[i])) \in 1..n
             /\ rows[i].key = ks[i]
  <2>1. Max(Heaviest(list, w, ks[i])) \in Heaviest(list, w, ks[i])
    BY <1>1, HeaviestExists
  <2> QED BY <2>1, <1>2 DEF Heaviest
<1>4. \A i \in DOMAIN rows : \E j \in DOMAIN list : rows[i] = list[j]
  BY <1>2, <1>3
<1>5. \A i, j \in DOMAIN rows : rows[i].key = rows[j].key => i = j
  BY <1>1, <1>2, <1>3
<1>6. KeysOf(rows) = KeysOf(list)
  <2>1. ASSUME NEW k \in KeysOf(rows) PROVE k \in KeysOf(list)
    <3>1. PICK i \in DOMAIN rows : k = rows[i].key BY DEF KeysOf
    <3> QED BY <3>1, <1>1, <1>2, <1>3
  <2>2. ASSUME NEW k \in KeysOf(list) PROVE k \in KeysOf(rows)
    <3>1. PICK i \in 1..m : ks[i] = k BY <1>1
    <3> QED BY <3>1, <1>2, <1>3 DEF KeysOf
  <2> QED BY <2>1, <2>2
<1>7. \A i \in DOMAIN rows : rows[i].key = ks[i]
  BY <1>2, <1>3
<1> QED BY <1>2, <1>4, <1>5, <1>6, <1>7 DEF IsOfEachKey, rows, ks

(* The three ways an input is reduced. *)
LEMMA ByKeyOnce ==
  ASSUME NEW list, NEW n \in Nat, DOMAIN list = 1..n, \A i \in 1..n : list[i].key \in Int
  PROVE  /\ IsOfEachKey(ByKey(list, Alike), list)
         /\ IsOfEachKey(ByKey(list, PresentFirst), list)
         /\ IsOfEachKey(ByKey(list, OpenFirst), list)
         /\ \A i \in DOMAIN ByKey(list, OpenFirst) : ByKey(list, OpenFirst)[i].key = SortedKeys(list)[i]
<1> DEFINE w1 == [i \in 1..n |-> Alike(list[i])]
           w2 == [i \in 1..n |-> PresentFirst(list[i])]
           w3 == [i \in 1..n |-> OpenFirst(list[i])]
<1>1. w1 \in [1..n -> 0..3] /\ w2 \in [1..n -> 0..3] /\ w3 \in [1..n -> 0..3]
  BY DEF Alike, PresentFirst, OpenFirst, Openness
<1>2. ByKey(list, Alike) = Picked(list, w1)
  BY DEF ByKey, Picked, Heaviest, Alike
<1>3. ByKey(list, PresentFirst) = Picked(list, w2)
  BY DEF ByKey, Picked, Heaviest
<1>4. ByKey(list, OpenFirst) = Picked(list, w3)
  BY DEF ByKey, Picked, Heaviest
<1> HIDE DEF w1, w2, w3
<1> QED BY <1>1, <1>2, <1>3, <1>4, PickedOnce

-------------------------------------------------------------------------------
(* The statements over several rows: one upsert after the other. *)

(* A table whose rows have these columns, and a list of such rows with their keys. *)
IsTable(t, Cols) ==
    /\ t = [k \in DOMAIN t |-> t[k]]
    /\ \A k \in DOMAIN t : t[k] = [c \in Cols |-> t[k][c]]
AreEntries(entries, n, Cols) ==
    /\ entries = [i \in 1..n |-> entries[i]]
    /\ \A i \in 1..n : entries[i].row = [c \in Cols |-> entries[i].row[c]]
ValuesIn(table, entries, n, Cols) ==
    {table[k][c] : k \in DOMAIN table, c \in Cols} \cup {entries[i].row[c] : i \in 1..n, c \in Cols}
TablesOf(K, Cols, W) == UNION {[D -> [Cols -> W]] : D \in SUBSET K}

(* One upsert: a table with one row more at most. *)
LEMMA UpsertTable ==
  ASSUME NEW K, NEW Cols, NEW W, NEW cols, NEW t \in TablesOf(K, Cols, W), NEW key \in K,
         NEW row \in [Cols -> W]
  PROVE  Upsert(t, key, row, cols) \in TablesOf(K, Cols, W)
<1> DEFINE R == [Cols -> W]
           u == Upsert(t, key, row, cols)
<1>1. PICK D \in SUBSET K : t \in [D -> R]
  BY DEF TablesOf
<1>2. D \cup {key} \in SUBSET K
  OBVIOUS
<1>3. u \in [D \cup {key} -> R]
  <2>1. ASSUME NEW k \in D \cup {key}
        PROVE  (IF k # key THEN t[k]
                ELSE IF key \notin DOMAIN t THEN row
                ELSE [c \in DOMAIN row |-> IF c \in cols THEN row[c] ELSE t[key][c]]) \in R
    <3>1. CASE k # key BY <1>1, <3>1
    <3>2. CASE k = key /\ key \notin DOMAIN t BY <1>1, <3>2
    <3>3. CASE k = key /\ key \in DOMAIN t
      <4>1. t[key] \in R BY <1>1, <3>3
      <4> QED BY <3>3, <4>1
    <3> QED BY <3>1, <3>2, <3>3
  <2>2. DOMAIN t = D BY <1>1
  <2> QED BY <2>1, <2>2 DEF Upsert
<1> HIDE DEF u
<1>4. u \in UNION {[Dom -> R] : Dom \in SUBSET K}
  BY <1>2, <1>3
<1> QED BY <1>4 DEF TablesOf, u

(* The upserts one by one. *)
LEMMA UpsertSteps ==
  ASSUME NEW table, NEW Cols, IsTable(table, Cols), NEW cols,
         NEW entries, NEW n \in Nat, AreEntries(entries, n, Cols)
  PROVE  \E acc :
            /\ acc[0] = table
            /\ \A k \in 1..n : acc[k] = Upsert(acc[k-1], entries[k].key, entries[k].row, cols)
            /\ UpsertEach(table, entries, cols) = acc[n]
<1> DEFINE K == DOMAIN table \cup {entries[i].key : i \in 1..n}
           W == ValuesIn(table, entries, n, Cols)
           V == TablesOf(K, Cols, W)
           E == {entries[i] : i \in 1..n}
           step == [t \in V |-> [e \in E |-> Upsert(t, e.key, e.row, cols)]]
           Folds(f) == f = [s \in SUBSET DOMAIN entries |->
                                IF s = {} THEN table
                                ELSE Upsert(f[s \ {Max(s)}], entries[Max(s)].key, entries[Max(s)].row, cols)]
           it == CHOOSE f : Folds(f)
<1>0. /\ DOMAIN entries = 1..n /\ Len(entries) = n /\ entries \in Seq(E)
      /\ \A i \in 1..n : entries[i] \in E
  BY DEF AreEntries
<1>1. UpsertEach(table, entries, cols) = it[1..n]
  BY <1>0, Zenon DEF UpsertEach, FoldLeft, MapThenFoldSet
<1>a. table \in V
  <2>1. table \in [DOMAIN table -> [Cols -> W]]
    <3>1. ASSUME NEW k \in DOMAIN table PROVE table[k] \in [Cols -> W]
      <4>1. \A c \in Cols : table[k][c] \in W BY DEF ValuesIn
      <4> HIDE DEF W
      <4> QED BY <4>1 DEF IsTable
    <3> HIDE DEF W
    <3> QED BY <3>1 DEF IsTable
  <2>2. DOMAIN table \in SUBSET K OBVIOUS
  <2> HIDE DEF W, K
  <2> QED BY <2>1, <2>2 DEF TablesOf
<1>b. \A e \in E : e.key \in K /\ e.row \in [Cols -> W]
  <2> SUFFICES ASSUME NEW i \in 1..n PROVE entries[i].key \in K /\ entries[i].row \in [Cols -> W]
    OBVIOUS
  <2>1. \A c \in Cols : entries[i].row[c] \in W BY DEF ValuesIn
  <2>2. entries[i].key \in K OBVIOUS
  <2> HIDE DEF W, K
  <2> QED BY <2>1, <2>2 DEF AreEntries
<1>c. step \in [V -> [E -> V]]
  <2> HIDE DEF W, K, E
  <2>1. ASSUME NEW t \in V, NEW e \in E PROVE Upsert(t, e.key, e.row, cols) \in V
    BY <1>b, UpsertTable
  <2> HIDE DEF V
  <2> QED BY <2>1
<1>2. \E f : Folds(f)
  <2> HIDE DEF V
  <2>1. PICK f : IsFoldTable(f, V, step, table, entries)
    <3> HIDE DEF step, E
    <3> QED BY <1>0, <1>a, <1>c, FoldTableExists
  <2>1a. /\ f \in [SUBSET (1..n) -> V]
         /\ \A s \in SUBSET (1..n) :
               f[s] = IF s = {} THEN table ELSE step[f[s \ {Max(s)}]][entries[Max(s)]]
    <3> HIDE DEF step, E
    <3> QED BY <2>1, <1>0 DEF IsFoldTable
  <2>2. ASSUME NEW s \in SUBSET (1..n)
        PROVE  f[s] = IF s = {} THEN table
                      ELSE Upsert(f[s \ {Max(s)}], entries[Max(s)].key, entries[Max(s)].row, cols)
    <3>1. CASE s # {}
      <4>1. Max(s) \in 1..n BY <3>1, MaxInSet
      <4>2. f[s \ {Max(s)}] \in V BY <2>1a
      <4>3. entries[Max(s)] \in E BY <4>1, <1>0
      <4>4. f[s] = step[f[s \ {Max(s)}]][entries[Max(s)]] BY <3>1, <2>1a
      <4>5. step[f[s \ {Max(s)}]][entries[Max(s)]]
              = Upsert(f[s \ {Max(s)}], entries[Max(s)].key, entries[Max(s)].row, cols)
        <5> HIDE DEF E
        <5> QED BY <4>2, <4>3
      <4> HIDE DEF E, step
      <4> QED BY <3>1, <4>4, <4>5
    <3>2. CASE s = {}
      <4>1. f[s] = table
        <5> HIDE DEF E, step
        <5> QED BY <3>2, <2>1a
      <4> QED BY <3>2, <4>1
    <3> QED BY <3>1, <3>2
  <2>3. f = [s \in SUBSET (1..n) |-> f[s]]
    <3> HIDE DEF E, step
    <3> QED BY <2>1a
  <2>4. f = [s \in SUBSET DOMAIN entries |->
                IF s = {} THEN table
                ELSE Upsert(f[s \ {Max(s)}], entries[Max(s)].key, entries[Max(s)].row, cols)]
    <3> HIDE DEF E, step
    <3> QED BY <2>2, <2>3, <1>0
  <2> QED BY <2>4
<1>3. Folds(it)
  <2> HIDE DEF Folds
  <2> QED BY <1>2
<1> DEFINE acc == [k \in 0..n |-> it[1..k]]
<1>4. acc[0] = table
  <2>1. 1..0 = {} /\ {} \in SUBSET (1..n) OBVIOUS
  <2> HIDE DEF it
  <2> QED BY <1>0, <1>3, <2>1
<1>5. ASSUME NEW k \in 1..n
      PROVE  acc[k] = Upsert(acc[k-1], entries[k].key, entries[k].row, cols)
  <2>1. /\ 1..k \in SUBSET (1..n) /\ 1..k # {}
        /\ Max(1..k) = k /\ (1..k) \ {k} = 1..(k-1)
    BY MaxOfPrefix
  <2>2. it[1..k] = Upsert(it[(1..k) \ {Max(1..k)}], entries[Max(1..k)].key, entries[Max(1..k)].row, cols)
    <3> HIDE DEF it
    <3> QED BY <1>0, <1>3, <2>1
  <2>3. k \in 0..n /\ k - 1 \in 0..n
    OBVIOUS
  <2> HIDE DEF it
  <2> QED BY <2>1, <2>2, <2>3
<1>6. acc[n] = UpsertEach(table, entries, cols)
  BY <1>1
<1> HIDE DEF acc
<1> QED BY <1>4, <1>5, <1>6

(* The row an upsert leaves under its key. *)
Upserted(table, key, row, cols) ==
    IF key \notin DOMAIN table THEN row
    ELSE [c \in DOMAIN row |-> IF c \in cols THEN row[c] ELSE table[key][c]]
EntryKeys(entries, n) == {entries[i].key : i \in 1..n}

(* What the first k upserts leave, when no key occurs twice. *)
UpsertedUpTo(u, table, entries, k, cols) ==
    /\ u = [x \in DOMAIN u |-> u[x]]
    /\ DOMAIN u = DOMAIN table \cup EntryKeys(entries, k)
    /\ \A x \in DOMAIN table : (\A i \in 1..k : entries[i].key # x) => u[x] = table[x]
    /\ \A i \in 1..k : u[entries[i].key] = Upserted(table, entries[i].key, entries[i].row, cols)

LEMMA UpsertEachForm ==
  ASSUME NEW table, NEW Cols, IsTable(table, Cols), NEW cols,
         NEW entries, NEW n \in Nat, AreEntries(entries, n, Cols),
         \A i, j \in 1..n : entries[i].key = entries[j].key => i = j
  PROVE  /\ UpsertedUpTo(UpsertEach(table, entries, cols), table, entries, n, cols)
         /\ IsTable(UpsertEach(table, entries, cols), Cols)
<1>1. PICK acc :
            /\ acc[0] = table
            /\ \A k \in 1..n : acc[k] = Upsert(acc[k-1], entries[k].key, entries[k].row, cols)
            /\ UpsertEach(table, entries, cols) = acc[n]
  BY UpsertSteps
<1> DEFINE Good(k) == UpsertedUpTo(acc[k], table, entries, k, cols)
           T == {k \in Nat : k <= n => Good(k)}
<1>2. Good(0)
  <2>1. 1..0 = {} /\ EntryKeys(entries, 0) = {} BY DEF EntryKeys
  <2> QED BY <2>1, <1>1 DEF IsTable, UpsertedUpTo
<1>3. ASSUME NEW m \in Nat, m + 1 <= n, Good(m) PROVE Good(m + 1)
  <2> DEFINE e == entries[m+1]
             v == acc[m]
             u == acc[m+1]
  <2>1. m + 1 \in 1..n /\ (m + 1) - 1 = m
    BY <1>3
  <2>2. u = Upsert(v, e.key, e.row, cols)
    BY <1>1, <2>1
  <2>3. \A i \in 1..m : i \in 1..n /\ i # m + 1 /\ entries[i].key # e.key
    BY <2>1
  <2>4. 1..(m+1) = (1..m) \cup {m+1}
    OBVIOUS
  <2> HIDE DEF e, u, v
  <2>5. /\ DOMAIN u = DOMAIN v \cup {e.key}
        /\ u = [x \in DOMAIN u |-> u[x]]
        /\ \A x \in DOMAIN v : x # e.key => u[x] = v[x]
        /\ u[e.key] = Upserted(v, e.key, e.row, cols)
    BY <2>2 DEF Upsert, Upserted
  <2>6. /\ DOMAIN v = DOMAIN table \cup EntryKeys(entries, m)
        /\ \A x \in DOMAIN table : (\A i \in 1..m : entries[i].key # x) => v[x] = table[x]
        /\ \A i \in 1..m : v[entries[i].key] = Upserted(table, entries[i].key, entries[i].row, cols)
    BY <1>3 DEF UpsertedUpTo, v
  <2>7. DOMAIN u = DOMAIN table \cup EntryKeys(entries, m+1)
    BY <2>4, <2>5, <2>6 DEF EntryKeys, e
  <2>8. ASSUME NEW x \in DOMAIN table, \A i \in 1..(m+1) : entries[i].key # x
        PROVE  u[x] = table[x]
    <3>1. x # e.key BY <2>8, <2>4 DEF e
    <3>2. v[x] = table[x] BY <2>8, <2>4, <2>6
    <3> QED BY <3>1, <3>2, <2>5, <2>6
  <2>9. ASSUME NEW i \in 1..(m+1)
        PROVE  u[entries[i].key] = Upserted(table, entries[i].key, entries[i].row, cols)
    <3>1. CASE i \in 1..m
      <4>1. entries[i].key \in DOMAIN v BY <3>1, <2>6 DEF EntryKeys
      <4> QED BY <4>1, <3>1, <2>3, <2>5, <2>6
    <3>2. CASE i = m + 1
      <4>1. e.key \notin EntryKeys(entries, m) BY <2>3 DEF EntryKeys
      <4>2. e.key \in DOMAIN v <=> e.key \in DOMAIN table BY <4>1, <2>6
      <4>3. e.key \in DOMAIN table => v[e.key] = table[e.key] BY <2>3, <2>6
      <4>4. Upserted(v, e.key, e.row, cols) = Upserted(table, e.key, e.row, cols)
        BY <4>2, <4>3 DEF Upserted
      <4> QED BY <3>2, <4>4, <2>5 DEF e
    <3> QED BY <3>1, <3>2, <2>4
  <2>10. UpsertedUpTo(u, table, entries, m + 1, cols)
    BY <2>5, <2>7, <2>8, <2>9 DEF UpsertedUpTo
  <2> QED BY <2>10 DEF u
<1>4. n \in T
  <2>1. 0 \in T BY <1>2
  <2>2. ASSUME NEW m \in Nat, m \in T PROVE m + 1 \in T
    <3> SUFFICES ASSUME m + 1 <= n PROVE Good(m + 1)
      OBVIOUS
    <3>1. m <= n /\ Good(m)
      <4> HIDE DEF Good
      <4> QED BY <2>2
    <3> HIDE DEF Good
    <3> QED BY <3>1, <1>3
  <2> HIDE DEF T
  <2> QED BY <2>1, <2>2, Induction
<1>5. UpsertedUpTo(UpsertEach(table, entries, cols), table, entries, n, cols)
  BY <1>1, <1>4
<1>6. IsTable(UpsertEach(table, entries, cols), Cols)
  <2> DEFINE u == UpsertEach(table, entries, cols)
  <2> SUFFICES ASSUME NEW k \in DOMAIN u PROVE u[k] = [c \in Cols |-> u[k][c]]
    BY <1>5 DEF IsTable, UpsertedUpTo
  <2> HIDE DEF u
  <2>1. CASE \E i \in 1..n : k = entries[i].key
    <3>1. PICK i \in 1..n : k = entries[i].key BY <2>1
    <3>2. u[k] = Upserted(table, k, entries[i].row, cols) BY <3>1, <1>5 DEF UpsertedUpTo, u
    <3>3. entries[i].row = [c \in Cols |-> entries[i].row[c]] BY DEF AreEntries
    <3>4. DOMAIN entries[i].row = Cols BY <3>3
    <3>5. Upserted(table, k, entries[i].row, cols)
            = [c \in Cols |-> Upserted(table, k, entries[i].row, cols)[c]]
      BY <3>3, <3>4 DEF Upserted
    <3> QED BY <3>2, <3>5
  <2>2. CASE \A i \in 1..n : k # entries[i].key
    <3>1. k \in DOMAIN table /\ u[k] = table[k] BY <2>2, <1>5 DEF UpsertedUpTo, EntryKeys, u
    <3> QED BY <3>1 DEF IsTable
  <2> QED BY <2>1, <2>2
<1> QED BY <1>5, <1>6

-------------------------------------------------------------------------------
(* What each operation does, with the instant as the database keeps it. *)

LiteTime(t) == t \div TicksPerSecond

StubRow(s, at) == [path |-> s.path, kind |-> s.kind, text |-> s.text, rule |-> s.kind = "rule",
                   stale |-> FALSE, staleAt |-> Null, hash |-> Null, updated |-> at]
StubEntries(rows, at) == [i \in DOMAIN rows |-> [key |-> rows[i].key, row |-> StubRow(rows[i], at)]]
Keyed(stubs) == [i \in DOMAIN stubs |-> [stubs[i] EXCEPT !.key = OrElse(@, stubs[i].path)]]
StubCols == {"path", "stale", "staleAt", "updated"}
StubsCall(db, stubs, at) ==
    LET rows == ByKey(Keyed(stubs), Alike)
    IN  Done([db EXCEPT !.pointers = UpsertEach(@, StubEntries(rows, at), StubCols)], Len(rows))

RuleRow(source, r, at) == [path |-> source, kind |-> "rule", text |-> r.text, rule |-> TRUE,
                           stale |-> FALSE, staleAt |-> Null, hash |-> Null, updated |-> at]
RuleEntries(source, rows, at) ==
    [i \in DOMAIN rows |-> [key |-> rows[i].key, row |-> RuleRow(source, rows[i], at)]]
RuleCols == {"path", "kind", "text", "rule", "stale", "staleAt", "hash", "updated"}
MissingRules(table, source, rows) ==
    {k \in DOMAIN table : table[k].path = source /\ table[k].rule} \ {rows[i].key : i \in DOMAIN rows}
RulesCall(db, source, rules, at) ==
    LET rows  == ByKey(rules, Alike)
        table == UpsertEach(db.pointers, RuleEntries(source, rows, at), RuleCols)
    IN  Done([db EXCEPT !.pointers = Delete(table, MissingRules(table, source, rows))],
             [upserted |-> Len(rows), markedStale |-> Cardinality(MissingRules(table, source, rows))])

ScopeRow(s, at) == [task |-> s.task, phase |-> s.phase, pointers |-> s.pointers, scope |-> s.scope,
                    baseline |-> s.baseline, actor |-> s.actor, summary |-> Null, created |-> at]
ScopeCols == {"task", "phase", "pointers", "scope", "baseline", "actor"}
ScopeCall(db, input, at) ==
    LET s == ReceiptScope(input)
    IN  Done([db EXCEPT !.receipts = Upsert(@, s.key, ScopeRow(s, at), ScopeCols)], "ok")

RunReceipt(s, at) == [task |-> s.task, phase |-> s.phase, pointers |-> s.pointers, scope |-> {},
                      baseline |-> Null, actor |-> Blank, summary |-> s.task, created |-> at]
NewRun(s, id, at) == [id |-> id, receipt |-> s.key, request |-> s.request, status |-> s.status,
                      files |-> s.files, outcome |-> s.outcome, issues |-> s.issues, created |-> at]
RunReceiptCols == {"task", "phase", "pointers", "summary"}
RunCall(db, input, at) ==
    LET s == RunSummary(input)
    IN  Done([db EXCEPT !.receipts = Upsert(@, s.key, RunReceipt(s, at), RunReceiptCols),
                        !.runs = Append(@, NewRun(s, db.nextRun, at)),
                        !.nextRun = @ + 1], db.nextRun)

ItemEntries(receipt, rows, at) ==
    [i \in DOMAIN rows |-> [key |-> <<receipt, rows[i].key>>,
                            row |-> [status |-> rows[i].status, created |-> at, updated |-> at]]]
ItemCols == {"status", "updated"}
ItemsCall(db, receipt, list, at) ==
    LET rows == WorkItems(list)
    IN  IF list = <<>> \/ receipt \notin DOMAIN db.receipts THEN Failed(db)
        ELSE Done([db EXCEPT !.items = UpsertEach(@, ItemEntries(receipt, rows, at), ItemCols)], Len(rows))


TasksAt(db, plan) == [t \in {k[2] : k \in {x \in DOMAIN db.tasks : x[1] = plan}} |-> db.tasks[<<plan, t>>]]
StoredTasks(db, input) ==
    IF input.key \in DOMAIN db.plans /\ input.mode = "merge" /\ input.tasks # <<>> THEN TasksAt(db, input.key)
    ELSE [t \in {} |-> t]
DoomedTasks(db, input) == {k \in DOMAIN db.tasks : input.mode = "replace" /\ k[1] = input.key}
PlanNow(db, input) == IF input.key \in DOMAIN db.plans THEN db.plans[input.key] ELSE EmptyPlan
PlanRow(next, at) == Joined(next, [created |-> at, updated |-> at])
PlanCols == {"receipt", "text", "kind", "status", "stages", "updated"}
TaskEntries(plan, rows, at) ==
    [i \in DOMAIN rows |-> [key |-> <<plan, rows[i].key>>,
                            row |-> [status |-> rows[i].status, text |-> rows[i].text,
                                     reason |-> rows[i].reason, created |-> at, updated |-> at]]]
TaskCols == {"status", "text", "reason", "updated"}
TasksWritten(table, db, input, at) ==
    UpsertEach(Delete(table, DoomedTasks(db, input)),
               TaskEntries(input.key, IncomingTasks(StoredTasks(db, input), input), at), TaskCols)
PlanWritten(db, input, at) ==
    [db EXCEPT !.plans = Upsert(@, input.key, PlanRow(NextPlan(PlanNow(db, input), input), at), PlanCols),
               !.tasks = TasksWritten(@, db, input, at)]
StatusesAt(db, plan) == {TasksAt(db, plan)[t].status : t \in DOMAIN TasksAt(db, plan)}
PlanCall(db, input, at) ==
    LET written == PlanWritten(db, input, at)
    IN  Done(IF input.status # Blank THEN written
             ELSE [written EXCEPT !.plans[input.key].status = DerivePlanStatus(StatusesAt(written, input.key))],
             Cardinality(DoomedTasks(db, input)) + Len(IncomingTasks(StoredTasks(db, input), input)))

NewAttempt(input, id, at) == [id |-> id, receipt |-> input.receipt, review |-> input.review,
                              fingerprint |-> input.fingerprint, status |-> input.status, created |-> at]
NewBatch(input, at) == [receipt |-> input.receipt, status |-> input.status, created |-> at]

(* The adapters share the definitions of Storage. *)
LEMMA SharedUpsertEach ==
  \A table, entries, cols :
     /\ Lite!UpsertEach(table, entries, cols) = UpsertEach(table, entries, cols)
     /\ Pg!UpsertEach(table, entries, cols) = UpsertEach(table, entries, cols)
BY DEF Lite!UpsertEach, Lite!Upsert, Lite!FoldLeft, Lite!MapThenFoldSet, Lite!Max,
       Pg!UpsertEach, Pg!Upsert, Pg!FoldLeft, Pg!MapThenFoldSet, Pg!Max,
       UpsertEach, Upsert, FoldLeft, MapThenFoldSet, Max

LEMMA SharedSortedKeys ==
  \A list : Lite!SortedKeys(list) = SortedKeys(list) /\ Pg!SortedKeys(list) = SortedKeys(list)
BY DEF Lite!SortedKeys, Lite!Ordered, Lite!Cardinality, Pg!SortedKeys, Pg!Ordered, Pg!Cardinality,
       SortedKeys, Ordered, Cardinality

LEMMA SharedByKey ==
  \A list :
     /\ Lite!ByKey(list, Lite!Alike) = ByKey(list, Alike)
     /\ Pg!ByKey(list, Pg!Alike) = ByKey(list, Alike)
     /\ Lite!ByKey(list, Lite!PresentFirst) = ByKey(list, PresentFirst)
     /\ Pg!ByKey(list, Pg!PresentFirst) = ByKey(list, PresentFirst)
     /\ Lite!ByKey(list, Lite!OpenFirst) = ByKey(list, OpenFirst)
     /\ Pg!ByKey(list, Pg!OpenFirst) = ByKey(list, OpenFirst)
<1> SUFFICES ASSUME NEW list
             PROVE  /\ Lite!ByKey(list, Lite!Alike) = ByKey(list, Alike)
                    /\ Pg!ByKey(list, Pg!Alike) = ByKey(list, Alike)
                    /\ Lite!ByKey(list, Lite!PresentFirst) = ByKey(list, PresentFirst)
                    /\ Pg!ByKey(list, Pg!PresentFirst) = ByKey(list, PresentFirst)
                    /\ Lite!ByKey(list, Lite!OpenFirst) = ByKey(list, OpenFirst)
                    /\ Pg!ByKey(list, Pg!OpenFirst) = ByKey(list, OpenFirst)
  OBVIOUS
<1> DEFINE w1 == [i \in DOMAIN list |-> Alike(list[i])]
           w2 == [i \in DOMAIN list |-> PresentFirst(list[i])]
           w3 == [i \in DOMAIN list |-> OpenFirst(list[i])]
<1>1. \A S : Lite!Max(S) = Max(S) /\ Pg!Max(S) = Max(S)
  BY DEF Lite!Max, Pg!Max, Max
<1>2. /\ ByKey(list, Alike) = Picked(list, w1)
      /\ Lite!ByKey(list, Lite!Alike) =
           [m \in DOMAIN Lite!SortedKeys(list) |->
              list[Lite!Max(Heaviest(list, w1, Lite!SortedKeys(list)[m]))]]
      /\ Pg!ByKey(list, Pg!Alike) =
           [m \in DOMAIN Pg!SortedKeys(list) |->
              list[Pg!Max(Heaviest(list, w1, Pg!SortedKeys(list)[m]))]]
  BY DEF ByKey, Picked, Heaviest, Alike, Lite!ByKey, Lite!Alike, Pg!ByKey, Pg!Alike
<1>3. /\ ByKey(list, PresentFirst) = Picked(list, w2)
      /\ Lite!ByKey(list, Lite!PresentFirst) =
           [m \in DOMAIN Lite!SortedKeys(list) |->
              list[Lite!Max(Heaviest(list, w2, Lite!SortedKeys(list)[m]))]]
      /\ Pg!ByKey(list, Pg!PresentFirst) =
           [m \in DOMAIN Pg!SortedKeys(list) |->
              list[Pg!Max(Heaviest(list, w2, Pg!SortedKeys(list)[m]))]]
  BY DEF ByKey, Picked, Heaviest, PresentFirst, Lite!ByKey, Lite!PresentFirst, Pg!ByKey, Pg!PresentFirst
<1>4. /\ ByKey(list, OpenFirst) = Picked(list, w3)
      /\ Lite!ByKey(list, Lite!OpenFirst) =
           [m \in DOMAIN Lite!SortedKeys(list) |->
              list[Lite!Max(Heaviest(list, w3, Lite!SortedKeys(list)[m]))]]
      /\ Pg!ByKey(list, Pg!OpenFirst) =
           [m \in DOMAIN Pg!SortedKeys(list) |->
              list[Pg!Max(Heaviest(list, w3, Pg!SortedKeys(list)[m]))]]
  BY DEF ByKey, Picked, Heaviest, OpenFirst, Openness, Lite!ByKey, Lite!OpenFirst, Lite!Openness, Pg!ByKey, Pg!OpenFirst, Pg!Openness
<1> HIDE DEF w1, w2, w3
<1> QED BY <1>1, <1>2, <1>3, <1>4, SharedSortedKeys DEF Picked

LEMMA StubsForm ==
  ASSUME NEW db, NEW stubs, NEW t
  PROVE  /\ Lite!UpsertPointerStubs(db, stubs, t) = StubsCall(db, stubs, LiteTime(t))
         /\ Pg!UpsertPointerStubs(db, stubs, t) = StubsCall(db, stubs, t)
<1>1. Lite!UpsertPointerStubs(db, stubs, t) = StubsCall(db, stubs, LiteTime(t))
  BY SharedByKey, SharedUpsertEach
     DEF Lite!UpsertPointerStubs, Lite!NormalizeStubs, Lite!OrElse, Lite!Done,
         Lite!unixepoch, Lite!StubColumns, StubsCall, Keyed, StubEntries, StubRow, StubCols, OrElse, Done, LiteTime
<1>2. Pg!UpsertPointerStubs(db, stubs, t) = StubsCall(db, stubs, t)
  BY SharedByKey, SharedUpsertEach
     DEF Pg!UpsertPointerStubs, Pg!NormalizeStubs, Pg!OrElse, Pg!Done,
         Pg!NOW, StubsCall, Keyed, StubEntries, StubRow, StubCols, OrElse, Done
<1> QED BY <1>1, <1>2

LEMMA SharedForms ==
  /\ \A f, g : Lite!Joined(f, g) = Joined(f, g) /\ Pg!Joined(f, g) = Joined(f, g)
  /\ \A table, keys : Lite!Delete(table, keys) = Delete(table, keys) /\ Pg!Delete(table, keys) = Delete(table, keys)
  /\ \A table, key, row, cols : /\ Lite!Upsert(table, key, row, cols) = Upsert(table, key, row, cols)
                               /\ Pg!Upsert(table, key, row, cols) = Upsert(table, key, row, cols)
  /\ \A S : Lite!Cardinality(S) = Cardinality(S) /\ Pg!Cardinality(S) = Cardinality(S)
BY DEF Lite!Joined, Lite!Delete, Lite!Upsert, Lite!Cardinality, Pg!Joined, Pg!Delete, Pg!Upsert, Pg!Cardinality,
       Joined, Delete, Upsert, Cardinality

LEMMA RulesForm ==
  ASSUME NEW db, NEW source, NEW rules, NEW t
  PROVE  /\ Lite!SyncRulePointers(db, source, rules, t) = RulesCall(db, source, rules, LiteTime(t))
         /\ Pg!SyncRulePointers(db, source, rules, t) = RulesCall(db, source, rules, t)
<1>1. Lite!SyncRulePointers(db, source, rules, t) = RulesCall(db, source, rules, LiteTime(t))
  BY SharedByKey, SharedUpsertEach, SharedForms
     DEF Lite!SyncRulePointers, Lite!Done, Lite!Where, Lite!unixepoch,
         RulesCall, RuleEntries, RuleRow, RuleCols, MissingRules, Done, LiteTime
<1>2. Pg!SyncRulePointers(db, source, rules, t) = RulesCall(db, source, rules, t)
  BY SharedByKey, SharedUpsertEach, SharedForms
     DEF Pg!SyncRulePointers, Pg!Done, Pg!Where, Pg!NOW,
         RulesCall, RuleEntries, RuleRow, RuleCols, MissingRules, Done
<1> QED BY <1>1, <1>2

LEMMA ScopeForm ==
  ASSUME NEW db, NEW input, NEW t
  PROVE  /\ Lite!UpsertReceiptScope(db, input, t) = ScopeCall(db, input, LiteTime(t))
         /\ Pg!UpsertReceiptScope(db, input, t) = ScopeCall(db, input, t)
BY SharedForms
   DEF Lite!UpsertReceiptScope, Lite!Done, Lite!unixepoch, Lite!ReceiptScope, Lite!OrElse,
       Pg!UpsertReceiptScope, Pg!Done, Pg!NOW, Pg!ReceiptScope, Pg!OrElse,
       ScopeCall, ScopeRow, ScopeCols, ReceiptScope, OrElse, Done, LiteTime

LEMMA RunForm ==
  ASSUME NEW db, NEW input, NEW t
  PROVE  /\ Lite!SaveRunReceiptSummary(db, input, t) = RunCall(db, input, LiteTime(t))
         /\ Pg!SaveRunReceiptSummary(db, input, t) = RunCall(db, input, t)
BY SharedForms
   DEF Lite!SaveRunReceiptSummary, Lite!Done, Lite!unixepoch, Lite!RunSummary, Lite!OrElse, Lite!RunColumns,
       Pg!SaveRunReceiptSummary, Pg!Done, Pg!NOW, Pg!RunSummary, Pg!OrElse,
       RunCall, RunReceipt, NewRun, RunReceiptCols, RunSummary, OrElse, Done, LiteTime

LEMMA ItemsForm ==
  ASSUME NEW db, NEW receipt, NEW list, NEW t, NEW n \in Nat, DOMAIN list = 1..n,
         \A i \in 1..n : list[i].key \in Int
  PROVE  /\ Lite!UpsertWorkItems(db, receipt, list, t) = ItemsCall(db, receipt, list, LiteTime(t))
         /\ Pg!UpsertWorkItems(db, receipt, list, t) = ItemsCall(db, receipt, list, t)
<1>1. Lite!UpsertWorkItems(db, receipt, list, t) = ItemsCall(db, receipt, list, LiteTime(t))
  BY SharedByKey, SharedUpsertEach
     DEF Lite!UpsertWorkItems, Lite!WorkItems, Lite!Done, Lite!Failed, Lite!unixepoch,
         ItemsCall, ItemEntries, ItemCols, WorkItems, Done, Failed, LiteTime
<1>2. Pg!Distinct(WorkItems(list))
  BY ByKeyOnce DEF Pg!Distinct, WorkItems, IsOfEachKey
<1>3. Pg!UpsertWorkItems(db, receipt, list, t) = ItemsCall(db, receipt, list, t)
  BY <1>2, SharedByKey, SharedUpsertEach
     DEF Pg!UpsertWorkItems, Pg!WorkItems, Pg!Done, Pg!Failed, Pg!NOW,
         ItemsCall, ItemEntries, ItemCols, WorkItems, Done, Failed
<1> QED BY <1>1, <1>3

LEMMA SharedMergedTask ==
  \A stored, list, key :
     /\ Lite!MergedTask(stored, list, key) = MergedTask(stored, list, key)
     /\ Pg!MergedTask(stored, list, key) = MergedTask(stored, list, key)
BY DEF Lite!MergedTask, Lite!FoldLeft, Lite!MapThenFoldSet, Lite!Max, Lite!MergeTask, Lite!OrElse, Lite!NewTask,
       Pg!MergedTask, Pg!FoldLeft, Pg!MapThenFoldSet, Pg!Max, Pg!MergeTask, Pg!OrElse, Pg!NewTask,
       MergedTask, FoldLeft, MapThenFoldSet, Max, MergeTask, OrElse, NewTask

LEMMA SharedIncomingTasks ==
  \A stored, input :
     /\ Lite!IncomingTasks(stored, input) = IncomingTasks(stored, input)
     /\ Pg!IncomingTasks(stored, input) = IncomingTasks(stored, input)
<1>1. \A task : /\ Lite!MergeTask(Lite!NewTask, task) = MergeTask(NewTask, task)
                /\ Pg!MergeTask(Pg!NewTask, task) = MergeTask(NewTask, task)
  BY DEF Lite!MergeTask, Lite!OrElse, Pg!MergeTask, Pg!OrElse, MergeTask, OrElse, NewTask, Lite!NewTask, Pg!NewTask
<1> QED BY <1>1, SharedMergedTask, SharedByKey, SharedSortedKeys
           DEF Lite!IncomingTasks, Pg!IncomingTasks, IncomingTasks

LEMMA SharedPlans ==
  /\ Lite!EmptyPlan = EmptyPlan /\ Pg!EmptyPlan = EmptyPlan
  /\ \A current, input : /\ Lite!NextPlan(current, input) = NextPlan(current, input)
                         /\ Pg!NextPlan(current, input) = NextPlan(current, input)
  /\ \A db, plan : Lite!TasksOf(db, plan) = TasksAt(db, plan) /\ Pg!TasksOf(db, plan) = TasksAt(db, plan)
  /\ \A db, input : /\ Lite!ReplacedTasks(db, input) = DoomedTasks(db, input)
                    /\ Pg!ReplacedTasks(db, input) = DoomedTasks(db, input)
  /\ \A S : Lite!DerivePlanStatus(S) = DerivePlanStatus(S) /\ Pg!DerivePlanStatus(S) = DerivePlanStatus(S)
  /\ \A table, key, next, t :
        /\ Lite!UpsertPlanRow(table, key, next, t) = Upsert(table, key, PlanRow(next, LiteTime(t)), PlanCols)
        /\ Pg!UpsertPlanRow(table, key, next, t) = Upsert(table, key, PlanRow(next, t), PlanCols)
<1>1. /\ Lite!EmptyPlan = EmptyPlan /\ Pg!EmptyPlan = EmptyPlan
      /\ \A current, input : /\ Lite!NextPlan(current, input) = NextPlan(current, input)
                             /\ Pg!NextPlan(current, input) = NextPlan(current, input)
  BY DEF Lite!NextPlan, Lite!EmptyPlan, Lite!OrElse, Pg!NextPlan, Pg!EmptyPlan, Pg!OrElse,
         NextPlan, EmptyPlan, OrElse
<1>2. \A db, plan : Lite!TasksOf(db, plan) = TasksAt(db, plan) /\ Pg!TasksOf(db, plan) = TasksAt(db, plan)
  BY DEF Lite!TasksOf, Pg!TasksOf, TasksAt
<1>3. \A db, input : /\ Lite!ReplacedTasks(db, input) = DoomedTasks(db, input)
                    /\ Pg!ReplacedTasks(db, input) = DoomedTasks(db, input)
  BY DEF Lite!ReplacedTasks, Pg!ReplacedTasks, DoomedTasks
<1>4. \A S : Lite!DerivePlanStatus(S) = DerivePlanStatus(S) /\ Pg!DerivePlanStatus(S) = DerivePlanStatus(S)
  BY DEF Lite!DerivePlanStatus, Pg!DerivePlanStatus, DerivePlanStatus
<1>5. \A table, key, next, t :
        /\ Lite!UpsertPlanRow(table, key, next, t) = Upsert(table, key, PlanRow(next, LiteTime(t)), PlanCols)
        /\ Pg!UpsertPlanRow(table, key, next, t) = Upsert(table, key, PlanRow(next, t), PlanCols)
  BY SharedForms DEF Lite!UpsertPlanRow, Pg!UpsertPlanRow, Lite!unixepoch, Pg!NOW, PlanRow, PlanCols, LiteTime
<1> QED BY <1>1, <1>2, <1>3, <1>4, <1>5

LEMMA PlanForm ==
  ASSUME NEW db, NEW input, NEW t
  PROVE  /\ Lite!UpsertWorkPlan(db, input, t) = PlanCall(db, input, LiteTime(t))
         /\ Pg!UpsertWorkPlan(db, input, t) = PlanCall(db, input, t)
<1>1. Lite!UpsertWorkPlan(db, input, t) = PlanCall(db, input, LiteTime(t))
  <2> DEFINE found   == input.key \in DOMAIN db.plans
             next    == Lite!NextPlan(IF found THEN db.plans[input.key] ELSE Lite!EmptyPlan, input)
             stored  == IF found /\ input.mode = "merge" /\ input.tasks # <<>> THEN Lite!TasksOf(db, input.key)
                        ELSE [x \in {} |-> x]
             rows    == Lite!IncomingTasks(stored, input)
             doomed  == Lite!ReplacedTasks(db, input)
             entries == [i \in DOMAIN rows |->
                           [key |-> <<input.key, rows[i].key>>,
                            row |-> [status |-> rows[i].status, text |-> rows[i].text, reason |-> rows[i].reason,
                                     created |-> Lite!unixepoch(t), updated |-> Lite!unixepoch(t)]]]
             written == [db EXCEPT !.plans = Lite!UpsertPlanRow(@, input.key, next, t),
                                   !.tasks = Lite!UpsertEach(Lite!Delete(@, doomed), entries,
                                                             {"status", "text", "reason", "updated"})]
             statuses == {Lite!TasksOf(written, input.key)[x].status :
                             x \in DOMAIN Lite!TasksOf(written, input.key)}
             count   == Lite!Cardinality(doomed) + Len(rows)
  <2>1. Lite!UpsertWorkPlan(db, input, t) =
          Lite!Done(IF input.status # Blank THEN written
                  ELSE [written EXCEPT !.plans[input.key].status = Lite!DerivePlanStatus(statuses)], count)
    BY DEF Lite!UpsertWorkPlan
  <2>2. stored = StoredTasks(db, input)
    BY SharedPlans DEF StoredTasks
  <2>3. rows = IncomingTasks(StoredTasks(db, input), input)
    <3> HIDE DEF stored
    <3> QED BY <2>2, SharedIncomingTasks
  <2>4. next = NextPlan(PlanNow(db, input), input)
    BY SharedPlans DEF PlanNow
  <2>5. doomed = DoomedTasks(db, input)
    BY SharedPlans
  <2>6. entries = TaskEntries(input.key, rows, LiteTime(t))
    <3> HIDE DEF rows
    <3> QED BY DEF TaskEntries, Lite!unixepoch, LiteTime
  <2> HIDE DEF entries, doomed, next, rows, stored, found
  <2>7. written = PlanWritten(db, input, LiteTime(t))
    BY <2>3, <2>4, <2>5, <2>6, SharedForms, SharedUpsertEach, SharedPlans DEF PlanWritten, TasksWritten, TaskCols
  <2> HIDE DEF written
  <2>8. statuses = StatusesAt(PlanWritten(db, input, LiteTime(t)), input.key)
    BY <2>7, SharedPlans DEF StatusesAt
  <2>9. count = Cardinality(DoomedTasks(db, input)) + Len(IncomingTasks(StoredTasks(db, input), input))
    BY <2>3, <2>5, SharedForms
  <2> HIDE DEF statuses, count
  <2> QED BY <2>1, <2>7, <2>8, <2>9, SharedPlans DEF PlanCall, Done, Lite!Done
<1>2. Pg!UpsertWorkPlan(db, input, t) = PlanCall(db, input, t)
  <2> DEFINE found   == input.key \in DOMAIN db.plans
             next    == Pg!NextPlan(IF found THEN db.plans[input.key] ELSE Pg!EmptyPlan, input)
             stored  == IF found /\ input.mode = "merge" /\ input.tasks # <<>> THEN Pg!TasksOf(db, input.key)
                        ELSE [x \in {} |-> x]
             rows    == Pg!IncomingTasks(stored, input)
             doomed  == Pg!ReplacedTasks(db, input)
             entries == [i \in DOMAIN rows |->
                           [key |-> <<input.key, rows[i].key>>,
                            row |-> [status |-> rows[i].status, text |-> rows[i].text, reason |-> rows[i].reason,
                                     created |-> Pg!NOW(t), updated |-> Pg!NOW(t)]]]
             written == [db EXCEPT !.plans = Pg!UpsertPlanRow(@, input.key, next, t),
                                   !.tasks = Pg!UpsertEach(Pg!Delete(@, doomed), entries,
                                                             {"status", "text", "reason", "updated"})]
             statuses == {Pg!TasksOf(written, input.key)[x].status :
                             x \in DOMAIN Pg!TasksOf(written, input.key)}
             count   == Pg!Cardinality(doomed) + Len(rows)
  <2>1. Pg!UpsertWorkPlan(db, input, t) =
          Pg!Done(IF input.status # Blank THEN written
                  ELSE [written EXCEPT !.plans[input.key].status = Pg!DerivePlanStatus(statuses)], count)
    BY DEF Pg!UpsertWorkPlan
  <2>2. stored = StoredTasks(db, input)
    BY SharedPlans DEF StoredTasks
  <2>3. rows = IncomingTasks(StoredTasks(db, input), input)
    <3> HIDE DEF stored
    <3> QED BY <2>2, SharedIncomingTasks
  <2>4. next = NextPlan(PlanNow(db, input), input)
    BY SharedPlans DEF PlanNow
  <2>5. doomed = DoomedTasks(db, input)
    BY SharedPlans
  <2>6. entries = TaskEntries(input.key, rows, t)
    <3> HIDE DEF rows
    <3> QED BY DEF TaskEntries, Pg!NOW
  <2> HIDE DEF entries, doomed, next, rows, stored, found
  <2>7. written = PlanWritten(db, input, t)
    BY <2>3, <2>4, <2>5, <2>6, SharedForms, SharedUpsertEach, SharedPlans DEF PlanWritten, TasksWritten, TaskCols
  <2> HIDE DEF written
  <2>8. statuses = StatusesAt(PlanWritten(db, input, t), input.key)
    BY <2>7, SharedPlans DEF StatusesAt
  <2>9. count = Cardinality(DoomedTasks(db, input)) + Len(IncomingTasks(StoredTasks(db, input), input))
    BY <2>3, <2>5, SharedForms
  <2> HIDE DEF statuses, count
  <2> QED BY <2>1, <2>7, <2>8, <2>9, SharedPlans DEF PlanCall, Done, Pg!Done
<1> QED BY <1>1, <1>2

-------------------------------------------------------------------------------
(* ApplySync: SQLite goes over the paths, Postgres joins with them. *)

PointerCols == {"path", "kind", "text", "rule", "stale", "staleAt", "hash", "updated"}
CandidateCols == {"hash", "created"}

GonePaths(paths) == {paths[i].key : i \in {j \in DOMAIN paths : paths[j].deleted}}
PresentPaths(paths) == {paths[i].key : i \in {j \in DOMAIN paths : ~ paths[j].deleted}}
HashAt(paths, x) == paths[CHOOSE i \in DOMAIN paths : ~ paths[i].deleted /\ paths[i].key = x].hash

StaleValues(at) == [stale |-> TRUE, staleAt |-> at, updated |-> at]
DeletedBy(table, paths) == {k \in DOMAIN table : ~ table[k].stale /\ table[k].path \in GonePaths(paths)}
MissingIn(table, mode, paths) ==
    IF mode # "full" THEN {} ELSE {k \in DOMAIN table : ~ table[k].stale /\ table[k].path \notin PresentPaths(paths)}
WithDeleted(table, paths, at) == Set(table, DeletedBy(table, paths), StaleValues(at))
WithMissing(table, mode, paths, at) == Set(table, MissingIn(table, mode, paths), StaleValues(at))

RefreshHit(table, s) ==
    {k \in DOMAIN table : /\ ~ s.deleted /\ table[k].path = s.key
                          /\ table[k].stale \/ table[k].hash # s.hash}
Refreshed(hash, at) == [hash |-> hash, stale |-> FALSE, staleAt |-> Null, updated |-> at]
HitBy(table, paths) == {k \in DOMAIN table : \E i \in DOMAIN paths : k \in RefreshHit(table, paths[i])}
WithRefreshed(table, paths, at) ==
    [k \in DOMAIN table |-> IF k \in HitBy(table, paths) THEN Joined(Refreshed(HashAt(paths, table[k].path), at), table[k])
                            ELSE table[k]]

FreshPaths(table, candidates, insertNew, paths) ==
    {x \in PresentPaths(paths) : insertNew /\ x \notin DOMAIN candidates /\ \A k \in DOMAIN table : table[k].path # x}
NewCandidate(hash, at) == [hash |-> hash, created |-> at]
WithFresh(candidates, fresh, paths, at) ==
    Joined(candidates, [x \in fresh |-> NewCandidate(HashAt(paths, x), at)])

SyncCall(db, input, at) ==
    LET paths  == SyncPaths(input)
        first  == WithDeleted(db.pointers, paths, at)
        second == WithMissing(first, input.mode, paths, at)
        third  == WithRefreshed(second, paths, at)
        fresh  == FreshPaths(third, db.candidates, input.insertNew, paths)
    IN  Done([db EXCEPT !.pointers = third, !.candidates = WithFresh(@, fresh, paths, at)],
             [deleted |-> Cardinality(DeletedBy(db.pointers, paths)),
              missing |-> Cardinality(MissingIn(first, input.mode, paths)),
              updated |-> Cardinality(HitBy(second, paths)), candidates |-> Cardinality(fresh)])

(* The paths of a synchronisation: no path twice. *)
ArePaths(paths, n) ==
    /\ paths = [i \in 1..n |-> paths[i]]
    /\ \A i, j \in 1..n : paths[i].key = paths[j].key => i = j
    /\ \A i \in 1..n : paths[i].deleted \in BOOLEAN

(* One statement of SQLite's refresh, and the loop of them. *)
RefreshStep(acc, s, at) ==
    [table |-> Set(acc.table, RefreshHit(acc.table, s), Refreshed(s.hash, at)),
     updated |-> acc.updated + Cardinality(RefreshHit(acc.table, s))]
RefreshEach(table, paths, at) ==
    FoldLeft(LAMBDA acc, s : RefreshStep(acc, s, at), [table |-> table, updated |-> 0], paths)

RefreshedCols == {"hash", "stale", "staleAt", "updated"}

(* A statement keeps the shape of the table. *)
LEMMA RefreshType ==
  ASSUME NEW K, IsFiniteSet(K), NEW W, NEW s, NEW at,
         \A c \in RefreshedCols : Refreshed(s.hash, at)[c] \in W,
         NEW acc \in [table : [K -> [PointerCols -> W]], updated : Nat]
  PROVE  RefreshStep(acc, s, at) \in [table : [K -> [PointerCols -> W]], updated : Nat]
<1> DEFINE hit == RefreshHit(acc.table, s)
           v == Refreshed(s.hash, at)
<1>1. hit \in SUBSET K
  BY DEF RefreshHit
<1>2. Cardinality(hit) \in Nat
  BY <1>1, FS_Subset, FS_CardinalityType
<1>3. DOMAIN v = RefreshedCols
  BY DEF Refreshed, RefreshedCols
<1>4. ASSUME NEW k \in K PROVE Joined(v, acc.table[k]) \in [PointerCols -> W]
  <2>1. acc.table[k] \in [PointerCols -> W] OBVIOUS
  <2>2. DOMAIN v \cup PointerCols = PointerCols BY <1>3 DEF PointerCols, RefreshedCols
  <2>3. \A c \in PointerCols : (IF c \in DOMAIN v THEN v[c] ELSE acc.table[k][c]) \in W
    <3> HIDE DEF v
    <3> QED BY <2>1, <1>3 DEF v
  <2>4. DOMAIN acc.table[k] = PointerCols BY <2>1
  <2> HIDE DEF v
  <2> QED BY <2>2, <2>3, <2>4 DEF Joined
<1>5. Set(acc.table, hit, v) \in [K -> [PointerCols -> W]]
  <2>1. acc.table \in [K -> [PointerCols -> W]] OBVIOUS
  <2> HIDE DEF hit, v
  <2>2. \A k \in K : (IF k \in hit THEN Joined(v, acc.table[k]) ELSE acc.table[k]) \in [PointerCols -> W]
    BY <2>1, <1>4
  <2> QED BY <2>1, <2>2 DEF Set
<1> HIDE DEF hit, v
<1>6. acc.updated + Cardinality(hit) \in Nat
  BY <1>2
<1> QED BY <1>5, <1>6 DEF RefreshStep, hit, v

SyncValues(table, paths, n, at) ==
    {table[k][c] : k \in DOMAIN table, c \in PointerCols} 
    \cup {Refreshed(paths[i].hash, at)[c] : i \in 1..n, c \in RefreshedCols}

(* The statements of the loop one by one. *)
LEMMA RefreshSteps ==
  ASSUME NEW table, IsTable(table, PointerCols), IsFiniteSet(DOMAIN table), NEW at,
         NEW paths, NEW n \in Nat, ArePaths(paths, n)
  PROVE  \E acc :
            /\ acc[0] = [table |-> table, updated |-> 0]
            /\ \A k \in 1..n : acc[k] = RefreshStep(acc[k-1], paths[k], at)
            /\ RefreshEach(table, paths, at) = acc[n]
<1> DEFINE K == DOMAIN table
           W == SyncValues(table, paths, n, at)
           V == [table : [K -> [PointerCols -> W]], updated : Nat]
           E == {paths[i] : i \in 1..n}
           base == [table |-> table, updated |-> 0]
           step == [v \in V |-> [s \in E |-> RefreshStep(v, s, at)]]
           Folds(f) == f = [s \in SUBSET DOMAIN paths |->
                                IF s = {} THEN base ELSE RefreshStep(f[s \ {Max(s)}], paths[Max(s)], at)]
           it == CHOOSE f : Folds(f)
<1>0. /\ DOMAIN paths = 1..n /\ Len(paths) = n /\ paths \in Seq(E)
      /\ \A i \in 1..n : paths[i] \in E
  BY DEF ArePaths
<1>1. RefreshEach(table, paths, at) = it[1..n]
  BY <1>0, Zenon DEF RefreshEach, FoldLeft, MapThenFoldSet
<1>a. base \in V
  <2>1. ASSUME NEW k \in K PROVE table[k] \in [PointerCols -> W]
    <3>1. \A c \in PointerCols : table[k][c] \in W BY DEF SyncValues
    <3> HIDE DEF W
    <3> QED BY <3>1 DEF IsTable
  <2> HIDE DEF W
  <2>2. table \in [K -> [PointerCols -> W]]
    BY <2>1 DEF IsTable
  <2> QED BY <2>2
<1>b. \A s \in E : \A c \in RefreshedCols : Refreshed(s.hash, at)[c] \in W
  <2> SUFFICES ASSUME NEW i \in 1..n, NEW c \in RefreshedCols PROVE Refreshed(paths[i].hash, at)[c] \in W
    OBVIOUS
  <2> QED BY DEF SyncValues
<1>c. step \in [V -> [E -> V]]
  <2> HIDE DEF W, E
  <2>1. ASSUME NEW v \in V, NEW s \in E PROVE RefreshStep(v, s, at) \in V
    <3> HIDE DEF K
    <3> QED BY <1>b, RefreshType DEF K
  <2> HIDE DEF V
  <2> QED BY <2>1
<1>2. \E f : Folds(f)
  <2> HIDE DEF V, base
  <2>1. PICK f : IsFoldTable(f, V, step, base, paths)
    <3> HIDE DEF step, E
    <3> QED BY <1>0, <1>a, <1>c, FoldTableExists
  <2>1a. /\ f \in [SUBSET (1..n) -> V]
         /\ \A s \in SUBSET (1..n) :
               f[s] = IF s = {} THEN base ELSE step[f[s \ {Max(s)}]][paths[Max(s)]]
    <3> HIDE DEF step, E
    <3> QED BY <2>1, <1>0 DEF IsFoldTable
  <2>2. ASSUME NEW s \in SUBSET (1..n)
        PROVE  f[s] = IF s = {} THEN base ELSE RefreshStep(f[s \ {Max(s)}], paths[Max(s)], at)
    <3>1. CASE s # {}
      <4>1. Max(s) \in 1..n BY <3>1, MaxInSet
      <4>2. f[s \ {Max(s)}] \in V BY <2>1a
      <4>3. paths[Max(s)] \in E BY <4>1, <1>0
      <4>4. f[s] = step[f[s \ {Max(s)}]][paths[Max(s)]] BY <3>1, <2>1a
      <4>5. step[f[s \ {Max(s)}]][paths[Max(s)]] = RefreshStep(f[s \ {Max(s)}], paths[Max(s)], at)
        <5> HIDE DEF E
        <5> QED BY <4>2, <4>3
      <4> HIDE DEF E, step
      <4> QED BY <3>1, <4>4, <4>5
    <3>2. CASE s = {}
      <4>1. f[s] = base
        <5> HIDE DEF E, step
        <5> QED BY <3>2, <2>1a
      <4> QED BY <3>2, <4>1
    <3> QED BY <3>1, <3>2
  <2>3. f = [s \in SUBSET (1..n) |-> f[s]]
    <3> HIDE DEF E, step
    <3> QED BY <2>1a
  <2>4. f = [s \in SUBSET DOMAIN paths |->
                IF s = {} THEN base ELSE RefreshStep(f[s \ {Max(s)}], paths[Max(s)], at)]
    <3> HIDE DEF E, step
    <3> QED BY <2>2, <2>3, <1>0
  <2> QED BY <2>4 DEF base
<1>3. Folds(it)
  <2> HIDE DEF Folds
  <2> QED BY <1>2
<1> DEFINE acc == [k \in 0..n |-> it[1..k]]
<1>4. acc[0] = base
  <2>1. 1..0 = {} /\ {} \in SUBSET (1..n) OBVIOUS
  <2> HIDE DEF it
  <2> QED BY <1>0, <1>3, <2>1
<1>5. ASSUME NEW k \in 1..n PROVE acc[k] = RefreshStep(acc[k-1], paths[k], at)
  <2>1. /\ 1..k \in SUBSET (1..n) /\ 1..k # {}
        /\ Max(1..k) = k /\ (1..k) \ {k} = 1..(k-1)
    BY MaxOfPrefix
  <2>2. it[1..k] = RefreshStep(it[(1..k) \ {Max(1..k)}], paths[Max(1..k)], at)
    <3> HIDE DEF it
    <3> QED BY <1>0, <1>3, <2>1
  <2>3. k \in 0..n /\ k - 1 \in 0..n
    OBVIOUS
  <2> HIDE DEF it
  <2> QED BY <2>1, <2>2, <2>3
<1>6. acc[n] = RefreshEach(table, paths, at)
  BY <1>1
<1> HIDE DEF acc
<1> QED BY <1>4, <1>5, <1>6

HitUpTo(table, paths, k) == {x \in DOMAIN table : \E i \in 1..k : x \in RefreshHit(table, paths[i])}

(* What the first k statements have refreshed. *)
RefreshedUpTo(acc, table, paths, k, at) ==
    /\ acc.table = [x \in DOMAIN table |-> acc.table[x]]
    /\ \A x \in DOMAIN table : x \notin HitUpTo(table, paths, k) => acc.table[x] = table[x]
    /\ \A i \in 1..k : \A x \in RefreshHit(table, paths[i]) :
          acc.table[x] = Joined(Refreshed(paths[i].hash, at), table[x])
    /\ acc.updated = Cardinality(HitUpTo(table, paths, k))

(* One more statement of the loop. *)
LEMMA RefreshOneMore ==
  ASSUME NEW table, IsFiniteSet(DOMAIN table), NEW at,
         NEW paths, NEW n \in Nat, ArePaths(paths, n),
         \A x \in DOMAIN table : DOMAIN table[x] = PointerCols,
         NEW m \in Nat, m + 1 <= n, NEW acc, RefreshedUpTo(acc, table, paths, m, at)
  PROVE  RefreshedUpTo(RefreshStep(acc, paths[m+1], at), table, paths, m + 1, at)
<1> DEFINE s == paths[m+1]
           new == RefreshStep(acc, s, at)
           hit == RefreshHit(acc.table, s)
           old == HitUpTo(table, paths, m)
<1>1. m + 1 \in 1..n /\ 1..(m+1) = (1..m) \cup {m+1} /\ \A i \in 1..m : i \in 1..n /\ i # m + 1
  OBVIOUS
<1>2. \A i \in 1..m : paths[i].key # s.key
  BY <1>1 DEF ArePaths
<1>3. ASSUME NEW i \in 1..m, NEW x \in RefreshHit(table, paths[i])
      PROVE  x \in DOMAIN table /\ table[x].path = paths[i].key /\ acc.table[x].path = paths[i].key
  <2>1. x \in DOMAIN table /\ table[x].path = paths[i].key BY DEF RefreshHit
  <2>2. acc.table[x] = Joined(Refreshed(paths[i].hash, at), table[x]) BY DEF RefreshedUpTo
  <2>3. "path" \notin DOMAIN Refreshed(paths[i].hash, at) /\ "path" \in DOMAIN table[x]
    BY <2>1 DEF Refreshed, PointerCols
  <2>4. Joined(Refreshed(paths[i].hash, at), table[x]).path = table[x].path
    <3> DEFINE f == Refreshed(paths[i].hash, at)
    <3> HIDE DEF f
    <3> QED BY <2>3 DEF Joined, f
  <2> QED BY <2>1, <2>2, <2>4
<1>4. \A x \in old : x \notin hit /\ x \notin RefreshHit(table, s)
  <2> SUFFICES ASSUME NEW x \in old PROVE x \notin hit /\ x \notin RefreshHit(table, s)
    OBVIOUS
  <2>1. PICK i \in 1..m : x \in RefreshHit(table, paths[i]) BY DEF HitUpTo
  <2> QED BY <2>1, <1>2, <1>3 DEF RefreshHit
<1>5. hit = RefreshHit(table, s)
  <2>1. DOMAIN acc.table = DOMAIN table
    <3> DEFINE t == acc.table
    <3>1. t = [x \in DOMAIN table |-> t[x]] BY DEF RefreshedUpTo
    <3> HIDE DEF t
    <3>2. DOMAIN t = DOMAIN table BY <3>1
    <3> QED BY <3>2 DEF t
  <2>2. ASSUME NEW x \in DOMAIN table PROVE x \in hit <=> x \in RefreshHit(table, s)
    <3>1. CASE x \in old BY <3>1, <1>4
    <3>2. CASE x \notin old
      <4>1. acc.table[x] = table[x] BY <3>2 DEF RefreshedUpTo
      <4> QED BY <4>1, <2>1 DEF RefreshHit
    <3> QED BY <3>1, <3>2
  <2>3. \A x \in hit : x \in DOMAIN table BY <2>1 DEF RefreshHit
  <2>4. \A x \in RefreshHit(table, s) : x \in DOMAIN table BY DEF RefreshHit
  <2> HIDE DEF hit
  <2> QED BY <2>2, <2>3, <2>4
<1>6. HitUpTo(table, paths, m + 1) = old \cup hit
  <2>1. \A x : x \in HitUpTo(table, paths, m + 1) <=> x \in old \/ x \in RefreshHit(table, s)
    BY <1>1 DEF HitUpTo, RefreshHit
  <2> HIDE DEF old, hit, s
  <2> QED BY <2>1, <1>5
<1>7. /\ new.table = Set(acc.table, hit, Refreshed(s.hash, at))
      /\ new.updated = acc.updated + Cardinality(hit)
  BY DEF RefreshStep
<1>8. old \cap hit = {}
  <2> HIDE DEF old, hit
  <2> QED BY <1>4
<1>9. Cardinality(old \cup hit) = Cardinality(old) + Cardinality(hit)
  <2>1. old \in SUBSET DOMAIN table /\ hit \in SUBSET DOMAIN table
    BY <1>5 DEF HitUpTo, RefreshHit
  <2> HIDE DEF old, hit
  <2>2. IsFiniteSet(old) /\ IsFiniteSet(hit)
    BY <2>1, FS_Subset
  <2>3. Cardinality(old \cup hit) = Cardinality(old) + Cardinality(hit) - Cardinality(old \cap hit)
    BY <2>2, FS_Union
  <2>4. Cardinality(old) \in Nat /\ Cardinality(hit) \in Nat /\ Cardinality(old \cap hit) = 0
    BY <2>2, <1>8, FS_CardinalityType, FS_EmptySet
  <2> QED BY <2>3, <2>4
<1>10. new.updated = Cardinality(HitUpTo(table, paths, m + 1))
  <2>1. acc.updated = Cardinality(old) BY DEF RefreshedUpTo
  <2> HIDE DEF new, old, hit
  <2> QED BY <2>1, <1>6, <1>7, <1>9
<1>11. DOMAIN acc.table = DOMAIN table
  <2> DEFINE t == acc.table
  <2>1. t = [x \in DOMAIN table |-> t[x]] BY DEF RefreshedUpTo
  <2> HIDE DEF t
  <2>2. DOMAIN t = DOMAIN table BY <2>1
  <2> QED BY <2>2 DEF t
<1>12. /\ new.table = [x \in DOMAIN table |-> new.table[x]]
       /\ \A x \in DOMAIN table :
            /\ x \in hit => new.table[x] = Joined(Refreshed(s.hash, at), acc.table[x])
            /\ x \notin hit => new.table[x] = acc.table[x]
  <2> DEFINE nt == new.table
  <2>1. nt = [k \in DOMAIN table |-> IF k \in hit THEN Joined(Refreshed(s.hash, at), acc.table[k]) ELSE acc.table[k]]
    <3> HIDE DEF hit
    <3> QED BY <1>7, <1>11 DEF Set
  <2> HIDE DEF nt, hit
  <2>2. nt = [x \in DOMAIN table |-> nt[x]] BY <2>1
  <2>3. \A x \in DOMAIN table :
            /\ x \in hit => nt[x] = Joined(Refreshed(s.hash, at), acc.table[x])
            /\ x \notin hit => nt[x] = acc.table[x]
    BY <2>1
  <2> QED BY <2>2, <2>3 DEF nt
<1> HIDE DEF new
<1>13. ASSUME NEW x \in DOMAIN table, x \notin HitUpTo(table, paths, m + 1)
       PROVE  new.table[x] = table[x]
  <2>1. x \notin old /\ x \notin hit BY <1>13, <1>6
  <2>2. acc.table[x] = table[x] BY <2>1 DEF RefreshedUpTo
  <2> HIDE DEF hit
  <2> QED BY <2>1, <2>2, <1>12
<1>14. ASSUME NEW i \in 1..(m+1), NEW x \in RefreshHit(table, paths[i])
       PROVE  new.table[x] = Joined(Refreshed(paths[i].hash, at), table[x])
  <2>1. x \in DOMAIN table BY DEF RefreshHit
  <2>2. CASE i \in 1..m
    <3>1. x \in old BY <2>2, <2>1 DEF HitUpTo
    <3>2. acc.table[x] = Joined(Refreshed(paths[i].hash, at), table[x]) BY <2>2 DEF RefreshedUpTo
    <3>3. x \notin hit
      <4> HIDE DEF hit, old
      <4> QED BY <3>1, <1>8
    <3> HIDE DEF hit
    <3> QED BY <3>2, <3>3, <1>12, <2>1
  <2>3. CASE i = m + 1
    <3>1. x \in hit BY <2>3, <1>5
    <3>2. x \notin old
      <4> HIDE DEF hit, old
      <4> QED BY <3>1, <1>8
    <3>3. acc.table[x] = table[x] BY <3>2, <2>1 DEF RefreshedUpTo
    <3> HIDE DEF hit
    <3> QED BY <2>3, <3>1, <3>3, <1>12, <2>1
  <2> QED BY <2>2, <2>3, <1>1
<1> QED BY <1>10, <1>12, <1>13, <1>14 DEF RefreshedUpTo, new

(* The hash of a present path is that of its only entry. *)
LEMMA HashAtForm ==
  ASSUME NEW paths, NEW n \in Nat, ArePaths(paths, n), NEW i \in 1..n, ~ paths[i].deleted
  PROVE  HashAt(paths, paths[i].key) = paths[i].hash
<1> DEFINE j == CHOOSE x \in DOMAIN paths : ~ paths[x].deleted /\ paths[x].key = paths[i].key
<1>1. DOMAIN paths = 1..n
  BY DEF ArePaths
<1>2. j \in DOMAIN paths /\ ~ paths[j].deleted /\ paths[j].key = paths[i].key
  BY <1>1
<1>3. j = i
  <2> HIDE DEF j
  <2> QED BY <1>1, <1>2 DEF ArePaths
<1> QED BY <1>3 DEF HashAt

(* What the whole loop leaves. *)
LEMMA RefreshEachForm ==
  ASSUME NEW table, IsTable(table, PointerCols), IsFiniteSet(DOMAIN table), NEW at,
         NEW paths, NEW n \in Nat, ArePaths(paths, n)
  PROVE  RefreshEach(table, paths, at) =
            [table |-> WithRefreshed(table, paths, at), updated |-> Cardinality(HitBy(table, paths))]
<1>1. PICK acc :
            /\ acc[0] = [table |-> table, updated |-> 0]
            /\ \A k \in 1..n : acc[k] = RefreshStep(acc[k-1], paths[k], at)
            /\ RefreshEach(table, paths, at) = acc[n]
  BY RefreshSteps
<1> DEFINE Good(k) == RefreshedUpTo(acc[k], table, paths, k, at)
           T == {k \in Nat : k <= n => Good(k)}
<1>0. \A x \in DOMAIN table : DOMAIN table[x] = PointerCols
  BY DEF IsTable
<1>2. Good(0)
  <2>1. 1..0 = {} /\ HitUpTo(table, paths, 0) = {} BY DEF HitUpTo
  <2>2. acc[0].table = table /\ acc[0].updated = 0 BY <1>1
  <2>3. Cardinality({}) = 0 BY FS_EmptySet
  <2> QED BY <2>1, <2>2, <2>3 DEF IsTable, RefreshedUpTo
<1>3. ASSUME NEW m \in Nat, m + 1 <= n, Good(m) PROVE Good(m + 1)
  <2>1. m + 1 \in 1..n /\ (m + 1) - 1 = m
    BY <1>3
  <2>2. acc[m+1] = RefreshStep(acc[m], paths[m+1], at)
    BY <1>1, <2>1
  <2> QED BY <2>2, <1>0, <1>3, RefreshOneMore
<1>4. n \in T
  <2>1. 0 \in T BY <1>2
  <2>2. ASSUME NEW m \in Nat, m \in T PROVE m + 1 \in T
    <3> SUFFICES ASSUME m + 1 <= n PROVE Good(m + 1)
      OBVIOUS
    <3>1. m <= n /\ Good(m)
      <4> HIDE DEF Good
      <4> QED BY <2>2
    <3> HIDE DEF Good
    <3> QED BY <3>1, <1>3
  <2> HIDE DEF T
  <2> QED BY <2>1, <2>2, Induction
<1>5. RefreshedUpTo(acc[n], table, paths, n, at)
  BY <1>4
<1>6. HitUpTo(table, paths, n) = HitBy(table, paths)
  BY DEF HitUpTo, HitBy, ArePaths
<1>7. ASSUME NEW x \in DOMAIN table
      PROVE  acc[n].table[x] = WithRefreshed(table, paths, at)[x]
  <2>1. CASE x \in HitBy(table, paths)
    <3>1. PICK i \in 1..n : x \in RefreshHit(table, paths[i]) BY <2>1 DEF HitBy, ArePaths
    <3>2. table[x].path = paths[i].key /\ ~ paths[i].deleted BY <3>1 DEF RefreshHit
    <3>3. HashAt(paths, table[x].path) = paths[i].hash BY <3>2, HashAtForm
    <3>4. acc[n].table[x] = Joined(Refreshed(paths[i].hash, at), table[x])
      BY <3>1, <1>5 DEF RefreshedUpTo
    <3> QED BY <2>1, <3>3, <3>4 DEF WithRefreshed
  <2>2. CASE x \notin HitBy(table, paths)
    <3>1. acc[n].table[x] = table[x] BY <2>2, <1>5, <1>6 DEF RefreshedUpTo
    <3> QED BY <2>2, <3>1 DEF WithRefreshed
  <2> QED BY <2>1, <2>2
<1>8. acc[n].table = WithRefreshed(table, paths, at)
  <2> DEFINE u == acc[n].table
             v == WithRefreshed(table, paths, at)
  <2>1. u = [x \in DOMAIN table |-> u[x]]
    BY <1>5 DEF RefreshedUpTo
  <2>2. v = [x \in DOMAIN table |-> v[x]]
    BY DEF WithRefreshed
  <2>3. \A x \in DOMAIN table : u[x] = v[x] BY <1>7
  <2> HIDE DEF u, v
  <2>4. u = v BY <2>1, <2>2, <2>3
  <2> QED BY <2>4 DEF u, v
<1>9. acc[n].updated = Cardinality(HitBy(table, paths))
  BY <1>5, <1>6 DEF RefreshedUpTo
<1>10. acc[n] = [table |-> acc[n].table, updated |-> acc[n].updated]
  <2>1. CASE n = 0 BY <2>1, <1>1
  <2>2. CASE n # 0
    <3>1. n \in 1..n BY <2>2
    <3>2. acc[n] = RefreshStep(acc[n-1], paths[n], at) BY <3>1, <1>1
    <3> QED BY <3>2 DEF RefreshStep
  <2> QED BY <2>1, <2>2
<1> QED BY <1>1, <1>8, <1>9, <1>10

(* One INSERT of SQLite into the candidates, and the loop of them; pointers is their table. *)
PathKeys(pointers, x) == {k \in DOMAIN pointers : pointers[k].path = x}
CandidateStep(acc, s, insertNew, pointers, at) ==
    IF ~ insertNew \/ s.deleted \/ s.key \in DOMAIN acc.table \/ PathKeys(pointers, s.key) # {} THEN acc
    ELSE [table |-> Joined(acc.table, [x \in {s.key} |-> NewCandidate(s.hash, at)]),
          inserted |-> acc.inserted + 1]
CandidateEach(table, paths, insertNew, pointers, at) ==
    FoldLeft(LAMBDA acc, s : CandidateStep(acc, s, insertNew, pointers, at), [table |-> table, inserted |-> 0], paths)
RowsOrNew(table, paths, n, at) ==
    {table[k] : k \in DOMAIN table} \cup {NewCandidate(paths[i].hash, at) : i \in 1..n}

LEMMA CandidateType ==
  ASSUME NEW K, NEW R, NEW s, NEW insertNew, NEW pointers, NEW at, s.key \in K, NewCandidate(s.hash, at) \in R,
         NEW acc \in [table : UNION {[D -> R] : D \in SUBSET K}, inserted : Nat]
  PROVE  CandidateStep(acc, s, insertNew, pointers, at) \in [table : UNION {[D -> R] : D \in SUBSET K}, inserted : Nat]
<1> DEFINE g == [x \in {s.key} |-> NewCandidate(s.hash, at)]
<1>1. PICK D \in SUBSET K : acc.table \in [D -> R]
  OBVIOUS
<1>2. Joined(acc.table, g) \in [D \cup {s.key} -> R]
  <2>1. g \in [{s.key} -> R] OBVIOUS
  <2> HIDE DEF g
  <2> QED BY <2>1, <1>1 DEF Joined
<1>3. D \cup {s.key} \in SUBSET K
  OBVIOUS
<1> HIDE DEF g
<1>4. Joined(acc.table, g) \in UNION {[Dom -> R] : Dom \in SUBSET K}
  BY <1>2, <1>3
<1> QED BY <1>4 DEF CandidateStep, g

LEMMA CandidateSteps ==
  ASSUME NEW table, IsTable(table, CandidateCols), NEW at, NEW insertNew, NEW pointers,
         NEW paths, NEW n \in Nat, ArePaths(paths, n)
  PROVE  \E acc :
            /\ acc[0] = [table |-> table, inserted |-> 0]
            /\ \A k \in 1..n : acc[k] = CandidateStep(acc[k-1], paths[k], insertNew, pointers, at)
            /\ CandidateEach(table, paths, insertNew, pointers, at) = acc[n]
<1> DEFINE K == DOMAIN table \cup {paths[i].key : i \in 1..n}
           R == RowsOrNew(table, paths, n, at)
           V == [table : UNION {[D -> R] : D \in SUBSET K}, inserted : Nat]
           E == {paths[i] : i \in 1..n}
           base == [table |-> table, inserted |-> 0]
           step == [v \in V |-> [s \in E |-> CandidateStep(v, s, insertNew, pointers, at)]]
           Folds(f) == f = [s \in SUBSET DOMAIN paths |->
                                IF s = {} THEN base
                                ELSE CandidateStep(f[s \ {Max(s)}], paths[Max(s)], insertNew, pointers, at)]
           it == CHOOSE f : Folds(f)
<1>0. /\ DOMAIN paths = 1..n /\ Len(paths) = n /\ paths \in Seq(E)
      /\ \A i \in 1..n : paths[i] \in E
  BY DEF ArePaths
<1>1. CandidateEach(table, paths, insertNew, pointers, at) = it[1..n]
  BY <1>0, Zenon DEF CandidateEach, FoldLeft, MapThenFoldSet
<1>a. base \in V
  <2>1. table \in [DOMAIN table -> R]
    <3>1. \A k \in DOMAIN table : table[k] \in R BY DEF RowsOrNew
    <3> HIDE DEF R
    <3> QED BY <3>1 DEF IsTable
  <2>2. DOMAIN table \in SUBSET K OBVIOUS
  <2> HIDE DEF R, K
  <2> QED BY <2>1, <2>2
<1>b. \A s \in E : s.key \in K /\ NewCandidate(s.hash, at) \in R
  <2> SUFFICES ASSUME NEW i \in 1..n PROVE paths[i].key \in K /\ NewCandidate(paths[i].hash, at) \in R
    OBVIOUS
  <2> QED BY DEF RowsOrNew
<1>c. step \in [V -> [E -> V]]
  <2> HIDE DEF K, R, E
  <2>1. ASSUME NEW v \in V, NEW s \in E PROVE CandidateStep(v, s, insertNew, pointers, at) \in V
    <3>1. s.key \in K /\ NewCandidate(s.hash, at) \in R BY <1>b
    <3>2. v \in [table : UNION {[D -> R] : D \in SUBSET K}, inserted : Nat] OBVIOUS
    <3> HIDE DEF V
    <3>3. CandidateStep(v, s, insertNew, pointers, at) \in [table : UNION {[D -> R] : D \in SUBSET K}, inserted : Nat]
      BY <3>1, <3>2, CandidateType
    <3> QED BY <3>3 DEF V
  <2> HIDE DEF V
  <2> QED BY <2>1
<1>2. \E f : Folds(f)
  <2> HIDE DEF V, base
  <2>1. PICK f : IsFoldTable(f, V, step, base, paths)
    <3> HIDE DEF step, E
    <3> QED BY <1>0, <1>a, <1>c, FoldTableExists
  <2>1a. /\ f \in [SUBSET (1..n) -> V]
         /\ \A s \in SUBSET (1..n) :
               f[s] = IF s = {} THEN base ELSE step[f[s \ {Max(s)}]][paths[Max(s)]]
    <3> HIDE DEF step, E
    <3> QED BY <2>1, <1>0 DEF IsFoldTable
  <2>2. ASSUME NEW s \in SUBSET (1..n)
        PROVE  f[s] = IF s = {} THEN base
                      ELSE CandidateStep(f[s \ {Max(s)}], paths[Max(s)], insertNew, pointers, at)
    <3>1. CASE s # {}
      <4>1. Max(s) \in 1..n BY <3>1, MaxInSet
      <4>2. f[s \ {Max(s)}] \in V BY <2>1a
      <4>3. paths[Max(s)] \in E BY <4>1, <1>0
      <4>4. f[s] = step[f[s \ {Max(s)}]][paths[Max(s)]] BY <3>1, <2>1a
      <4>5. step[f[s \ {Max(s)}]][paths[Max(s)]]
              = CandidateStep(f[s \ {Max(s)}], paths[Max(s)], insertNew, pointers, at)
        <5> HIDE DEF E
        <5> QED BY <4>2, <4>3
      <4> HIDE DEF E, step
      <4> QED BY <3>1, <4>4, <4>5
    <3>2. CASE s = {}
      <4>1. f[s] = base
        <5> HIDE DEF E, step
        <5> QED BY <3>2, <2>1a
      <4> QED BY <3>2, <4>1
    <3> QED BY <3>1, <3>2
  <2>3. f = [s \in SUBSET (1..n) |-> f[s]]
    <3> HIDE DEF E, step
    <3> QED BY <2>1a
  <2>4. f = [s \in SUBSET DOMAIN paths |->
                IF s = {} THEN base ELSE CandidateStep(f[s \ {Max(s)}], paths[Max(s)], insertNew, pointers, at)]
    <3> HIDE DEF E, step
    <3> QED BY <2>2, <2>3, <1>0
  <2> QED BY <2>4 DEF base
<1>3. Folds(it)
  <2> HIDE DEF Folds
  <2> QED BY <1>2
<1> DEFINE acc == [k \in 0..n |-> it[1..k]]
<1>4. acc[0] = base
  <2>1. 1..0 = {} /\ {} \in SUBSET (1..n) OBVIOUS
  <2> HIDE DEF it
  <2> QED BY <1>0, <1>3, <2>1
<1>5. ASSUME NEW k \in 1..n PROVE acc[k] = CandidateStep(acc[k-1], paths[k], insertNew, pointers, at)
  <2>1. /\ 1..k \in SUBSET (1..n) /\ 1..k # {}
        /\ Max(1..k) = k /\ (1..k) \ {k} = 1..(k-1)
    BY MaxOfPrefix
  <2>2. it[1..k] = CandidateStep(it[(1..k) \ {Max(1..k)}], paths[Max(1..k)], insertNew, pointers, at)
    <3> HIDE DEF it
    <3> QED BY <1>0, <1>3, <2>1
  <2>3. k \in 0..n /\ k - 1 \in 0..n
    OBVIOUS
  <2> HIDE DEF it
  <2> QED BY <2>1, <2>2, <2>3
<1>6. acc[n] = CandidateEach(table, paths, insertNew, pointers, at)
  BY <1>1
<1> HIDE DEF acc
<1> QED BY <1>4, <1>5, <1>6

FreshUpTo(table, paths, insertNew, pointers, k) ==
    {x \in {paths[i].key : i \in {j \in 1..k : ~ paths[j].deleted}} :
        insertNew /\ x \notin DOMAIN table /\ PathKeys(pointers, x) = {}}

(* What the first k INSERTs have added. *)
InsertedUpTo(acc, table, paths, insertNew, pointers, k, at) ==
    /\ acc = [table |-> acc.table, inserted |-> acc.inserted]
    /\ acc.table = [x \in DOMAIN table \cup FreshUpTo(table, paths, insertNew, pointers, k) |-> acc.table[x]]
    /\ \A x \in DOMAIN table : acc.table[x] = table[x]
    /\ \A x \in FreshUpTo(table, paths, insertNew, pointers, k) : acc.table[x] = NewCandidate(HashAt(paths, x), at)
    /\ acc.inserted = Cardinality(FreshUpTo(table, paths, insertNew, pointers, k))
    /\ IsFiniteSet(FreshUpTo(table, paths, insertNew, pointers, k))

LEMMA InsertOneMore ==
  ASSUME NEW table, NEW at, NEW paths, NEW n \in Nat, ArePaths(paths, n), NEW insertNew, NEW pointers,
         NEW m \in Nat, m + 1 <= n, NEW acc, InsertedUpTo(acc, table, paths, insertNew, pointers, m, at)
  PROVE  InsertedUpTo(CandidateStep(acc, paths[m+1], insertNew, pointers, at), table, paths, insertNew, pointers, m + 1, at)
<1> DEFINE s == paths[m+1]
           x0 == s.key
           old == FreshUpTo(table, paths, insertNew, pointers, m)
           new == FreshUpTo(table, paths, insertNew, pointers, m + 1)
           t == acc.table
           take == insertNew /\ ~ s.deleted /\ x0 \notin DOMAIN table /\ PathKeys(pointers, x0) = {}
<1>1. m + 1 \in 1..n /\ 1..(m+1) = (1..m) \cup {m+1} /\ \A i \in 1..m : i \in 1..n /\ i # m + 1
  OBVIOUS
<1>2. x0 \notin old
  BY <1>1 DEF ArePaths, FreshUpTo
<1>3. /\ t = [x \in DOMAIN table \cup old |-> t[x]]
      /\ \A x \in DOMAIN table : t[x] = table[x]
      /\ \A x \in old : t[x] = NewCandidate(HashAt(paths, x), at)
      /\ acc.inserted = Cardinality(old)
      /\ IsFiniteSet(old)
  BY DEF InsertedUpTo
<1>4. DOMAIN t = DOMAIN table \cup old
  <2> HIDE DEF t
  <2> QED BY <1>3
<1>5. CASE take
  <2> DEFINE g == [x \in {x0} |-> NewCandidate(s.hash, at)]
             u == Joined(t, g)
  <2>1. new = old \cup {x0}
    <3>1. \A x : x \in new <=> x \in old \/ x = x0
      BY <1>1, <1>5 DEF FreshUpTo
    <3> HIDE DEF new, old, x0
    <3> QED BY <3>1
  <2>2. CandidateStep(acc, s, insertNew, pointers, at) = [table |-> u, inserted |-> acc.inserted + 1]
    <3>1. s.key \notin DOMAIN acc.table BY <1>2, <1>4, <1>5
    <3> QED BY <3>1, <1>5 DEF CandidateStep
  <2>3. Cardinality(new) = Cardinality(old) + 1 /\ IsFiniteSet(new)
    <3> HIDE DEF new, old, x0
    <3> QED BY <2>1, <1>2, <1>3, FS_AddElement
  <2>4. HashAt(paths, x0) = s.hash
    BY <1>1, <1>5, HashAtForm
  <2>5. DOMAIN g = {x0} /\ g[x0] = NewCandidate(s.hash, at)
    OBVIOUS
  <2> HIDE DEF g
  <2>6. /\ u = [x \in DOMAIN table \cup new |-> u[x]]
        /\ \A x \in DOMAIN t : u[x] = t[x]
        /\ u[x0] = NewCandidate(s.hash, at)
    <3>1. x0 \notin DOMAIN t BY <1>2, <1>4, <1>5
    <3> HIDE DEF t, x0, s, new, old
    <3> QED BY <3>1, <1>4, <2>1, <2>5 DEF Joined
  <2> HIDE DEF u, t, x0, s, new, old
  <2>7. \A x \in DOMAIN table : u[x] = table[x]
    BY <2>6, <1>3, <1>4
  <2>8. \A x \in new : u[x] = NewCandidate(HashAt(paths, x), at)
    BY <2>1, <2>4, <2>6, <1>3, <1>4
  <2>9. LET w == [table |-> u, inserted |-> acc.inserted + 1]
        IN  w = [table |-> w.table, inserted |-> w.inserted] /\ w.table = u /\ w.inserted = acc.inserted + 1
    OBVIOUS
  <2> QED BY <2>2, <2>3, <2>6, <2>7, <2>8, <2>9, <1>3 DEF InsertedUpTo, new, s
<1>6. CASE ~ take
  <2>1. new = old
    <3>1. \A x : x \in new <=> x \in old
      BY <1>1, <1>6 DEF FreshUpTo
    <3> HIDE DEF new, old
    <3> QED BY <3>1
  <2>2. CandidateStep(acc, s, insertNew, pointers, at) = acc
    BY <1>2, <1>4, <1>6 DEF CandidateStep
  <2> QED BY <2>1, <2>2 DEF InsertedUpTo
<1> HIDE DEF take
<1> QED BY <1>5, <1>6

LEMMA CandidateEachForm ==
  ASSUME NEW table, IsTable(table, CandidateCols), NEW at, NEW pointers, NEW insertNew,
         NEW paths, NEW n \in Nat, ArePaths(paths, n)
  PROVE  LET fresh == FreshPaths(pointers, table, insertNew, paths)
         IN  /\ CandidateEach(table, paths, insertNew, pointers, at) =
                  [table |-> WithFresh(table, fresh, paths, at), inserted |-> Cardinality(fresh)]
             /\ IsFiniteSet(fresh)
<1> DEFINE fresh == FreshPaths(pointers, table, insertNew, paths)
<1>0. FreshUpTo(table, paths, insertNew, pointers, n) = fresh
  <2>1. DOMAIN paths = 1..n BY DEF ArePaths
  <2> QED BY <2>1 DEF FreshUpTo, FreshPaths, PresentPaths, PathKeys
<1> HIDE DEF fresh
<1>1. PICK acc :
            /\ acc[0] = [table |-> table, inserted |-> 0]
            /\ \A k \in 1..n : acc[k] = CandidateStep(acc[k-1], paths[k], insertNew, pointers, at)
            /\ CandidateEach(table, paths, insertNew, pointers, at) = acc[n]
  BY CandidateSteps
<1> DEFINE Good(k) == InsertedUpTo(acc[k], table, paths, insertNew, pointers, k, at)
           T == {k \in Nat : k <= n => Good(k)}
<1>2. Good(0)
  <2>1. FreshUpTo(table, paths, insertNew, pointers, 0) = {}
    <3>1. 1..0 = {} OBVIOUS
    <3> QED BY <3>1 DEF FreshUpTo
  <2>2. acc[0].table = table /\ acc[0].inserted = 0 BY <1>1
  <2>3. Cardinality({}) = 0 /\ IsFiniteSet({}) BY FS_EmptySet
  <2> QED BY <2>1, <2>2, <2>3, <1>1 DEF IsTable, InsertedUpTo
<1>3. ASSUME NEW m \in Nat, m + 1 <= n, Good(m) PROVE Good(m + 1)
  <2>1. m + 1 \in 1..n /\ (m + 1) - 1 = m
    BY <1>3
  <2>2. acc[m+1] = CandidateStep(acc[m], paths[m+1], insertNew, pointers, at)
    BY <1>1, <2>1
  <2> QED BY <2>2, <1>3, InsertOneMore
<1>4. n \in T
  <2>1. 0 \in T BY <1>2
  <2>2. ASSUME NEW m \in Nat, m \in T PROVE m + 1 \in T
    <3> SUFFICES ASSUME m + 1 <= n PROVE Good(m + 1)
      OBVIOUS
    <3>1. m <= n /\ Good(m)
      <4> HIDE DEF Good
      <4> QED BY <2>2
    <3> HIDE DEF Good
    <3> QED BY <3>1, <1>3
  <2> HIDE DEF T
  <2> QED BY <2>1, <2>2, Induction
<1>5. InsertedUpTo(acc[n], table, paths, insertNew, pointers, n, at)
  BY <1>4
<1>6. acc[n].table = WithFresh(table, fresh, paths, at)
  <2> DEFINE u == acc[n].table
             v == WithFresh(table, fresh, paths, at)
  <2>1. /\ u = [x \in DOMAIN table \cup fresh |-> u[x]]
        /\ \A x \in DOMAIN table : u[x] = table[x]
        /\ \A x \in fresh : u[x] = NewCandidate(HashAt(paths, x), at)
    BY <1>0, <1>5 DEF InsertedUpTo
  <2>2. /\ v = [x \in DOMAIN table \cup fresh |-> v[x]]
        /\ \A x \in DOMAIN table : v[x] = table[x]
        /\ \A x \in fresh : x \notin DOMAIN table => v[x] = NewCandidate(HashAt(paths, x), at)
    BY DEF WithFresh, Joined
  <2>3. \A x \in fresh : x \notin DOMAIN table BY DEF fresh, FreshPaths
  <2> HIDE DEF u, v
  <2>4. \A x \in DOMAIN table \cup fresh : u[x] = v[x] BY <2>1, <2>2, <2>3
  <2>5. u = v BY <2>1, <2>2, <2>4
  <2> QED BY <2>5 DEF u, v
<1>7. acc[n].inserted = Cardinality(fresh) /\ IsFiniteSet(fresh)
  BY <1>0, <1>5 DEF InsertedUpTo
<1>8. acc[n] = [table |-> acc[n].table, inserted |-> acc[n].inserted]
  BY <1>5 DEF InsertedUpTo
<1> QED BY <1>1, <1>6, <1>7, <1>8 DEF fresh

(* An UPDATE keeps the keys and the columns. *)
LEMMA SetKeeps ==
  ASSUME NEW table, NEW Cols, IsTable(table, Cols), NEW keys, NEW values, DOMAIN values \subseteq Cols
  PROVE  IsTable(Set(table, keys, values), Cols) /\ DOMAIN Set(table, keys, values) = DOMAIN table
<1> DEFINE u == Set(table, keys, values)
<1>1. DOMAIN u = DOMAIN table /\ u = [k \in DOMAIN u |-> u[k]]
  BY DEF Set
<1>2. ASSUME NEW k \in DOMAIN table PROVE u[k] = [c \in Cols |-> u[k][c]]
  <2>1. table[k] = [c \in Cols |-> table[k][c]] BY DEF IsTable
  <2>2. DOMAIN table[k] = Cols BY <2>1
  <2>3. CASE k \in keys
    <3>1. u[k] = Joined(values, table[k]) BY <2>3 DEF Set
    <3>2. DOMAIN values \cup DOMAIN table[k] = Cols BY <2>2
    <3>3. Joined(values, table[k]) = [c \in Cols |-> Joined(values, table[k])[c]]
      BY <3>2 DEF Joined
    <3> QED BY <3>1, <3>3
  <2>4. CASE k \notin keys
    <3>1. u[k] = table[k] BY <2>4 DEF Set
    <3> QED BY <3>1, <2>1
  <2> QED BY <2>3, <2>4
<1> HIDE DEF u
<1> QED BY <1>1, <1>2 DEF IsTable, u

LEMMA SharedSync ==
  /\ \A table, keys, values : /\ Lite!Set(table, keys, values) = Set(table, keys, values)
                              /\ Pg!Set(table, keys, values) = Set(table, keys, values)
  /\ \A input : Lite!SyncPaths(input) = SyncPaths(input) /\ Pg!SyncPaths(input) = SyncPaths(input)
<1>1. \A table, keys, values : /\ Lite!Set(table, keys, values) = Set(table, keys, values)
                              /\ Pg!Set(table, keys, values) = Set(table, keys, values)
  BY SharedForms DEF Lite!Set, Pg!Set, Set
<1>2. \A input : Lite!SyncPaths(input) = SyncPaths(input) /\ Pg!SyncPaths(input) = SyncPaths(input)
  BY SharedByKey DEF Lite!SyncPaths, Pg!SyncPaths, SyncPaths
<1> QED BY <1>1, <1>2

LEMMA LiteSyncForm ==
  ASSUME NEW db, IsTable(db.pointers, PointerCols), IsFiniteSet(DOMAIN db.pointers),
         IsTable(db.candidates, CandidateCols), NEW input, NEW t, NEW n \in Nat, ArePaths(SyncPaths(input), n)
  PROVE  Lite!ApplySync(db, input, t) = SyncCall(db, input, LiteTime(t))
<1> DEFINE at      == LiteTime(t)
           paths   == SyncPaths(input)
           deleted == DeletedBy(db.pointers, paths)
           first   == WithDeleted(db.pointers, paths, at)
           missing == MissingIn(first, input.mode, paths)
           second  == WithMissing(first, input.mode, paths, at)
           third   == RefreshEach(second, paths, at)
           last    == CandidateEach(db.candidates, paths, input.insertNew, third.table, at)
<1>1. Lite!ApplySync(db, input, t) =
        Done([db EXCEPT !.pointers = third.table, !.candidates = last.table],
             [deleted |-> Cardinality(deleted), missing |-> Cardinality(missing),
              updated |-> third.updated, candidates |-> last.inserted])
  <2> DEFINE pathsL   == Lite!SyncPaths(input)
             atL      == Lite!unixepoch(t)
             gone     == {pathsL[i].key : i \in {j \in DOMAIN pathsL : pathsL[j].deleted}}
             names    == {pathsL[i].key : i \in {j \in DOMAIN pathsL : ~ pathsL[j].deleted}}
             stale    == [stale |-> TRUE, staleAt |-> atL, updated |-> atL]
             deletedL == Lite!Where(db.pointers, LAMBDA p : ~ p.stale /\ p.path \in gone)
             firstL   == Lite!Set(db.pointers, deletedL, stale)
             missingL == IF input.mode # "full" THEN {}
                         ELSE Lite!Where(firstL, LAMBDA p : ~ p.stale /\ p.path \notin names)
             secondL  == Lite!Set(firstL, missingL, stale)
             refresh(acc, s) ==
                [table |-> Lite!Set(acc.table,
                              Lite!Where(acc.table, LAMBDA p : /\ ~ s.deleted /\ p.path = s.key
                                                               /\ p.stale \/ p.hash # s.hash),
                              [hash |-> s.hash, stale |-> FALSE, staleAt |-> Null, updated |-> atL]),
                 updated |-> acc.updated + Lite!Cardinality(
                              Lite!Where(acc.table, LAMBDA p : /\ ~ s.deleted /\ p.path = s.key
                                                               /\ p.stale \/ p.hash # s.hash))]
             thirdL   == Lite!FoldLeft(refresh, [table |-> secondL, updated |-> 0], pathsL)
             candidate(acc, s) ==
                IF ~ input.insertNew \/ s.deleted \/ s.key \in DOMAIN acc.table
                   \/ Lite!Where(thirdL.table, LAMBDA p : p.path = s.key) # {} THEN acc
                ELSE [table |-> Lite!Joined(acc.table, [x \in {s.key} |-> [hash |-> s.hash, created |-> atL]]),
                      inserted |-> acc.inserted + 1]
             lastL    == Lite!FoldLeft(candidate, [table |-> db.candidates, inserted |-> 0], pathsL)
  <2>1. Lite!ApplySync(db, input, t) =
          Lite!Done([db EXCEPT !.pointers = thirdL.table, !.candidates = lastL.table],
               [deleted |-> Lite!Cardinality(deletedL), missing |-> Lite!Cardinality(missingL),
                updated |-> thirdL.updated, candidates |-> lastL.inserted])
    BY DEF Lite!ApplySync, Lite!FoldLeft, Lite!MapThenFoldSet, Lite!Where
  <2>2. pathsL = paths /\ atL = at
    BY SharedSync DEF Lite!unixepoch, LiteTime
  <2> HIDE DEF pathsL, atL, paths, at
  <2>3. gone = GonePaths(paths) /\ names = PresentPaths(paths) /\ stale = StaleValues(at)
    BY <2>2 DEF GonePaths, PresentPaths, StaleValues
  <2> HIDE DEF gone, names, stale
  <2>4. deletedL = deleted
    BY <2>3 DEF Lite!Where, DeletedBy
  <2>5. firstL = first
    BY <2>3, <2>4, SharedSync DEF WithDeleted
  <2> HIDE DEF deletedL, firstL, deleted, first
  <2>6. missingL = missing
    BY <2>3, <2>5 DEF Lite!Where, MissingIn
  <2> HIDE DEF missingL, missing
  <2>7. secondL = second
    BY <2>3, <2>5, <2>6, SharedSync DEF WithMissing, missing
  <2> HIDE DEF secondL, second
  <2>8. thirdL = RefreshEach(secondL, pathsL, atL)
    BY DEF Lite!FoldLeft, Lite!MapThenFoldSet, Lite!Max, Lite!Where, Lite!Set, Lite!Joined, Lite!Cardinality,
           RefreshEach, RefreshStep, RefreshHit, Refreshed, FoldLeft, MapThenFoldSet, Max, Set, Joined, Cardinality
  <2> HIDE DEF thirdL
  <2>9. lastL = CandidateEach(db.candidates, pathsL, input.insertNew, thirdL.table, atL)
    BY DEF Lite!FoldLeft, Lite!MapThenFoldSet, Lite!Max, Lite!Where, Lite!Joined,
           CandidateEach, CandidateStep, NewCandidate, PathKeys, FoldLeft, MapThenFoldSet, Max, Joined
  <2> HIDE DEF lastL
  <2>10. thirdL = third /\ lastL = last
    BY <2>2, <2>7, <2>8, <2>9
  <2> HIDE DEF third, last
  <2> QED BY <2>1, <2>4, <2>6, <2>10, SharedForms DEF Lite!Done, Done
<1>2. IsTable(first, PointerCols) /\ DOMAIN first = DOMAIN db.pointers
  <2>1. DOMAIN StaleValues(at) \subseteq PointerCols BY DEF StaleValues, PointerCols
  <2> QED BY <2>1, SetKeeps DEF WithDeleted
<1>3. IsTable(second, PointerCols) /\ DOMAIN second = DOMAIN db.pointers
  <2>1. DOMAIN StaleValues(at) \subseteq PointerCols BY DEF StaleValues, PointerCols
  <2> HIDE DEF first
  <2> QED BY <2>1, <1>2, SetKeeps DEF WithMissing
<1>4. third = [table |-> WithRefreshed(second, paths, at), updated |-> Cardinality(HitBy(second, paths))]
  <2> HIDE DEF second, paths, at
  <2> QED BY <1>3, RefreshEachForm DEF paths
<1>5. last = [table |-> WithFresh(db.candidates, FreshPaths(third.table, db.candidates, input.insertNew, paths), paths, at),
              inserted |-> Cardinality(FreshPaths(third.table, db.candidates, input.insertNew, paths))]
  <2> HIDE DEF third, at
  <2> QED BY CandidateEachForm
<1> HIDE DEF third, last
<1> QED BY <1>1, <1>4, <1>5 DEF SyncCall

(* An UPDATE of the four columns of a row. *)
WithHash(row, hash, at) == [row EXCEPT !.hash = hash, !.stale = FALSE, !.staleAt = Null, !.updated = at]
LEMMA RefreshedRow ==
  ASSUME NEW row, row = [c \in PointerCols |-> row[c]], NEW hash, NEW at
  PROVE  WithHash(row, hash, at) = Joined(Refreshed(hash, at), row)
<1> DEFINE u == [row EXCEPT !.hash = hash, !.stale = FALSE, !.staleAt = Null, !.updated = at]
           v == Joined(Refreshed(hash, at), row)
<1>1. DOMAIN row = PointerCols
  OBVIOUS
<1>2. DOMAIN u = PointerCols /\ u = [c \in PointerCols |-> u[c]]
  BY <1>1, Zenon
<1>3. DOMAIN v = PointerCols /\ v = [c \in PointerCols |-> v[c]]
  BY <1>1 DEF Joined, Refreshed, PointerCols
<1>4. ASSUME NEW c \in PointerCols PROVE u[c] = v[c]
  <2>1. CASE c = "hash"
    <3>1. u[c] = hash BY <2>1, <1>1 DEF PointerCols
    <3>2. v[c] = hash BY <2>1 DEF Joined, Refreshed
    <3> QED BY <3>1, <3>2
  <2>2. CASE c = "stale"
    <3>1. u[c] = FALSE BY <2>2, <1>1 DEF PointerCols
    <3>2. v[c] = FALSE BY <2>2 DEF Joined, Refreshed
    <3> QED BY <3>1, <3>2
  <2>3. CASE c = "staleAt"
    <3>1. u[c] = Null BY <2>3, <1>1 DEF PointerCols
    <3>2. v[c] = Null BY <2>3 DEF Joined, Refreshed
    <3> QED BY <3>1, <3>2
  <2>4. CASE c = "updated"
    <3>1. u[c] = at BY <2>4, <1>1 DEF PointerCols
    <3>2. v[c] = at BY <2>4 DEF Joined, Refreshed
    <3> QED BY <3>1, <3>2
  <2>5. CASE c \notin RefreshedCols
    <3>1. u[c] = row[c] BY <2>5, <1>1 DEF RefreshedCols
    <3>2. v[c] = row[c] BY <2>5, <1>1 DEF RefreshedCols, Joined, Refreshed
    <3> QED BY <3>1, <3>2
  <2> QED BY <2>1, <2>2, <2>3, <2>4, <2>5 DEF RefreshedCols
<1> HIDE DEF u, v
<1>5. u = v
  BY <1>2, <1>3, <1>4
<1> QED BY <1>5 DEF u, v, WithHash

LEMMA PgSyncForm ==
  ASSUME NEW db, IsTable(db.pointers, PointerCols), NEW input, NEW t, NEW n \in Nat, ArePaths(SyncPaths(input), n)
  PROVE  Pg!ApplySync(db, input, t) = SyncCall(db, input, t)
<1> DEFINE paths   == SyncPaths(input)
           deleted == DeletedBy(db.pointers, paths)
           first   == WithDeleted(db.pointers, paths, t)
           missing == MissingIn(first, input.mode, paths)
           second  == WithMissing(first, input.mode, paths, t)
           third   == WithRefreshed(second, paths, t)
           fresh   == FreshPaths(third, db.candidates, input.insertNew, paths)
           present  == {paths[i] : i \in {j \in DOMAIN paths : ~ paths[j].deleted}}
           hash     == [x \in {s.key : s \in present} |-> (CHOOSE s \in present : s.key = x).hash]
           deletedP == Pg!Where(db.pointers, LAMBDA p : ~ p.stale /\ \E i \in DOMAIN paths :
                                                          paths[i].deleted /\ paths[i].key = p.path)
           firstP   == Pg!Set(db.pointers, deletedP, Pg!Stale(t))
           missingP == IF input.mode = "full" THEN Pg!MissingPointers(firstP, DOMAIN hash) ELSE {}
           secondP  == Pg!Set(firstP, missingP, Pg!Stale(t))
           hitP     == Pg!RefreshedPointers(secondP, hash)
           thirdP   == [k \in DOMAIN secondP |->
                           IF k \notin hitP THEN secondP[k]
                           ELSE [secondP[k] EXCEPT !.hash = hash[secondP[k].path], !.stale = FALSE,
                                                   !.staleAt = Null, !.updated = Pg!NOW(t)]]
           freshP   == IF present # {} /\ input.insertNew
                       THEN Pg!MissingPaths(thirdP, hash) \ DOMAIN db.candidates ELSE {}
           addedP   == [x \in freshP |-> [hash |-> hash[x], created |-> Pg!NOW(t)]]
<1>1. Pg!ApplySync(db, input, t) =
        Done([db EXCEPT !.pointers = thirdP, !.candidates = Joined(@, addedP)],
             [deleted |-> Cardinality(deletedP), missing |-> Cardinality(missingP),
              updated |-> Cardinality(hitP), candidates |-> Cardinality(freshP)])
  <2>1. Pg!ApplySync(db, input, t) =
          Pg!Done([db EXCEPT !.pointers = thirdP, !.candidates = Pg!Joined(@, addedP)],
                  [deleted |-> Pg!Cardinality(deletedP), missing |-> Pg!Cardinality(missingP),
                   updated |-> Pg!Cardinality(hitP), candidates |-> Pg!Cardinality(freshP)])
    <3>1. Pg!SyncPaths(input) = paths BY SharedSync
    <3> HIDE DEF paths
    <3> QED BY <3>1 DEF Pg!ApplySync, Pg!Where
  <2> HIDE DEF thirdP, addedP, deletedP, missingP, hitP, freshP
  <2> QED BY <2>1, SharedForms DEF Pg!Done, Done
<1>2. DOMAIN paths = 1..n
  BY DEF ArePaths
<1>3. DOMAIN hash = PresentPaths(paths)
  BY DEF PresentPaths
<1>4. \A x \in PresentPaths(paths) : hash[x] = HashAt(paths, x)
  <2> SUFFICES ASSUME NEW i \in 1..n, ~ paths[i].deleted
               PROVE  hash[paths[i].key] = HashAt(paths, paths[i].key)
    BY <1>2 DEF PresentPaths
  <2>1. paths[i] \in present BY <1>2
  <2>2. \A s \in present : s.key = paths[i].key => s = paths[i] BY <1>2 DEF ArePaths
  <2>3. (CHOOSE s \in present : s.key = paths[i].key) = paths[i]
    <3> HIDE DEF present, paths
    <3> QED BY <2>1, <2>2
  <2>4. hash[paths[i].key] = paths[i].hash
    <3> HIDE DEF present, paths
    <3> QED BY <2>1, <2>3
  <2> HIDE DEF hash, present
  <2> QED BY <2>4, HashAtForm
<1> HIDE DEF hash
<1>5. deletedP = deleted
  BY DEF Pg!Where, DeletedBy, GonePaths
<1>6. Pg!Stale(t) = StaleValues(t) /\ Pg!NOW(t) = t
  BY DEF Pg!Stale, Pg!NOW, StaleValues
<1>7. firstP = first
  <2> HIDE DEF deletedP, deleted
  <2> QED BY <1>5, <1>6, SharedSync DEF WithDeleted, deleted
<1> HIDE DEF firstP, first, deletedP
<1>8. missingP = missing
  <2>1. PresentPaths(paths) = {} => \A x : x \notin PresentPaths(paths) OBVIOUS
  <2> HIDE DEF paths
  <2> QED BY <1>3, <1>7, <2>1 DEF Pg!MissingPointers, Pg!Where, MissingIn
<1>9. secondP = second
  <2> HIDE DEF missingP, missing
  <2> QED BY <1>6, <1>7, <1>8, SharedSync DEF WithMissing, missing
<1>10. IsTable(first, PointerCols) /\ IsTable(second, PointerCols)
  <2>1. DOMAIN StaleValues(t) \subseteq PointerCols BY DEF StaleValues, PointerCols
  <2>2. IsTable(first, PointerCols) BY <2>1, SetKeeps DEF WithDeleted, first
  <2>3. IsTable(second, PointerCols) BY <2>1, <2>2, SetKeeps DEF WithMissing
  <2> QED BY <2>2, <2>3
<1> HIDE DEF secondP, second, missingP
<1>11. hitP = HitBy(second, paths)
  <2>1. ASSUME NEW k \in DOMAIN second PROVE k \in hitP <=> k \in HitBy(second, paths)
    <3>1. k \in hitP <=> /\ second[k].path \in PresentPaths(paths)
                         /\ second[k].stale \/ second[k].hash # hash[second[k].path]
      BY <1>3, <1>9 DEF Pg!RefreshedPointers, Pg!Where
    <3>2. k \in HitBy(second, paths) <=> \E i \in 1..n : /\ ~ paths[i].deleted /\ second[k].path = paths[i].key
                                                         /\ second[k].stale \/ second[k].hash # paths[i].hash
      BY <1>2 DEF HitBy, RefreshHit
    <3>3. \A i \in 1..n : ~ paths[i].deleted => /\ paths[i].key \in PresentPaths(paths)
                                               /\ hash[paths[i].key] = paths[i].hash
      <4> SUFFICES ASSUME NEW i \in 1..n, ~ paths[i].deleted
                   PROVE paths[i].key \in PresentPaths(paths) /\ hash[paths[i].key] = paths[i].hash
        OBVIOUS
      <4>1. paths[i].key \in PresentPaths(paths) BY <1>2 DEF PresentPaths
      <4> QED BY <4>1, <1>4, HashAtForm
    <3>4. \A x \in PresentPaths(paths) : \E i \in 1..n : ~ paths[i].deleted /\ x = paths[i].key
      BY <1>2 DEF PresentPaths
    <3> HIDE DEF hitP, paths
    <3> QED BY <3>1, <3>2, <3>3, <3>4
  <2>2. \A k \in hitP : k \in DOMAIN second BY <1>9 DEF Pg!RefreshedPointers, Pg!Where
  <2>3. \A k \in HitBy(second, paths) : k \in DOMAIN second BY DEF HitBy
  <2> HIDE DEF hitP
  <2> QED BY <2>1, <2>2, <2>3
<1>12. \A k \in HitBy(second, paths) : second[k].path \in PresentPaths(paths)
  BY DEF HitBy, RefreshHit, PresentPaths
<1> HIDE DEF hitP
<1>13. thirdP = third
  <2>1. thirdP = [k \in DOMAIN secondP |-> IF k \notin hitP THEN secondP[k]
                                          ELSE WithHash(secondP[k], hash[secondP[k].path], Pg!NOW(t))]
    BY Zenon DEF WithHash
  <2>2. ASSUME NEW k \in HitBy(second, paths)
        PROVE  WithHash(second[k], hash[second[k].path], Pg!NOW(t))
                 = Joined(Refreshed(HashAt(paths, second[k].path), t), second[k])
    <3>1. k \in DOMAIN second BY DEF HitBy
    <3>2. second[k] = [c \in PointerCols |-> second[k][c]] BY <3>1, <1>10 DEF IsTable
    <3>3. hash[second[k].path] = HashAt(paths, second[k].path) BY <1>4, <1>12
    <3> HIDE DEF paths
    <3> QED BY <3>2, <3>3, <1>6, RefreshedRow
  <2>3. third = [k \in DOMAIN second |->
                    IF k \in HitBy(second, paths)
                    THEN Joined(Refreshed(HashAt(paths, second[k].path), t), second[k]) ELSE second[k]]
    BY DEF WithRefreshed
  <2> HIDE DEF thirdP, paths, third
  <2> QED BY <2>1, <2>2, <2>3, <1>9, <1>11
<1> HIDE DEF thirdP, third
<1>14. freshP = fresh
  <2>1. present = {} => PresentPaths(paths) = {}
    BY DEF PresentPaths
  <2>2. Pg!MissingPaths(third, hash) = {x \in PresentPaths(paths) : \A k \in DOMAIN third : third[k].path # x}
    BY <1>3 DEF Pg!MissingPaths, Pg!Where
  <2> HIDE DEF present, paths
  <2> QED BY <2>1, <2>2, <1>13 DEF FreshPaths
<1>15. addedP = [x \in fresh |-> NewCandidate(HashAt(paths, x), t)]
  <2>1. \A x \in fresh : x \in PresentPaths(paths) BY DEF FreshPaths
  <2> HIDE DEF freshP, fresh, paths
  <2> QED BY <2>1, <1>4, <1>6, <1>14 DEF NewCandidate
<1> HIDE DEF freshP, fresh, addedP
<1> QED BY <1>1, <1>5, <1>8, <1>11, <1>13, <1>14, <1>15 DEF SyncCall, WithFresh, fresh, third, second, first

-------------------------------------------------------------------------------
(* Rows that are the same but for the fineness of their instants. *)

Seconds(c, v) == IF c \in Times /\ v # Null THEN v \div TicksPerSecond ELSE v
IsRow(r, Cols) == r = [c \in Cols |-> r[c]]
RowsAgree(l, p, Cols) == \A c \in Cols : c # "id" => l[c] = Seconds(c, p[c])
TablesAgree(l, p, Cols) ==
    /\ IsTable(l, Cols) /\ IsTable(p, Cols)
    /\ DOMAIN l = DOMAIN p
    /\ \A k \in DOMAIN l : RowsAgree(l[k], p[k], Cols)
EntriesAgree(l, p, n, Cols) ==
    /\ AreEntries(l, n, Cols) /\ AreEntries(p, n, Cols)
    /\ \A i \in 1..n : l[i].key = p[i].key /\ RowsAgree(l[i].row, p[i].row, Cols)
    /\ \A i, j \in 1..n : l[i].key = l[j].key => i = j

LEMMA SameRowForm ==
  ASSUME NEW Cols, NEW l, NEW p, IsRow(l, Cols), IsRow(p, Cols)
  PROVE  SameRow(l, p) <=> RowsAgree(l, p, Cols)
<1>1. DOMAIN l = Cols /\ DOMAIN p = Cols
  BY DEF IsRow
<1>2. InSeconds(p) = [c \in Cols |-> Seconds(c, p[c])]
  BY <1>1 DEF InSeconds, Seconds
<1>3. Unnumbered(InSeconds(p)) = [c \in Cols \ {"id"} |-> Seconds(c, p[c])]
  BY <1>2 DEF Unnumbered
<1>4. Unnumbered(l) = [c \in Cols \ {"id"} |-> l[c]]
  BY <1>1 DEF Unnumbered
<1>5. SameRow(l, p) <=> \A c \in Cols \ {"id"} : l[c] = Seconds(c, p[c])
  BY <1>3, <1>4 DEF SameRow
<1> QED BY <1>5 DEF RowsAgree

LEMMA SameRowsForm ==
  ASSUME NEW Cols, NEW l, NEW p, TablesAgree(l, p, Cols)
  PROVE  SameRows(l, p)
<1> SUFFICES ASSUME NEW k \in DOMAIN l PROVE SameRow(l[k], p[k])
  BY DEF SameRows, TablesAgree
<1>1. IsRow(l[k], Cols) /\ IsRow(p[k], Cols) /\ RowsAgree(l[k], p[k], Cols)
  BY DEF TablesAgree, IsTable, IsRow
<1> QED BY <1>1, SameRowForm

(* Equal upserts of tables that agree leave tables that agree. *)
LEMMA UpsertedAgree ==
  ASSUME NEW Cols, NEW l, NEW p, TablesAgree(l, p, Cols), NEW key, NEW cols,
         NEW rl, NEW rp, IsRow(rl, Cols), IsRow(rp, Cols), RowsAgree(rl, rp, Cols)
  PROVE  /\ IsRow(Upserted(l, key, rl, cols), Cols) /\ IsRow(Upserted(p, key, rp, cols), Cols)
         /\ RowsAgree(Upserted(l, key, rl, cols), Upserted(p, key, rp, cols), Cols)
<1>0. DOMAIN rl = Cols /\ DOMAIN rp = Cols
  BY DEF IsRow
<1>1. CASE key \in DOMAIN l
  <2>1. /\ Upserted(l, key, rl, cols) = [c \in Cols |-> IF c \in cols THEN rl[c] ELSE l[key][c]]
        /\ Upserted(p, key, rp, cols) = [c \in Cols |-> IF c \in cols THEN rp[c] ELSE p[key][c]]
    BY <1>0, <1>1 DEF Upserted, TablesAgree
  <2>2. RowsAgree(l[key], p[key], Cols)
    BY <1>1 DEF TablesAgree
  <2> QED BY <2>1, <2>2 DEF RowsAgree, IsRow
<1>2. CASE key \notin DOMAIN l
  <2>1. Upserted(l, key, rl, cols) = rl /\ Upserted(p, key, rp, cols) = rp
    BY <1>2 DEF Upserted, TablesAgree
  <2> QED BY <2>1
<1> QED BY <1>1, <1>2

LEMMA UpsertAgree ==
  ASSUME NEW Cols, NEW l, NEW p, TablesAgree(l, p, Cols), NEW key, NEW cols,
         NEW rl, NEW rp, IsRow(rl, Cols), IsRow(rp, Cols), RowsAgree(rl, rp, Cols)
  PROVE  TablesAgree(Upsert(l, key, rl, cols), Upsert(p, key, rp, cols), Cols)
<1> DEFINE u == Upsert(l, key, rl, cols)
           v == Upsert(p, key, rp, cols)
<1>1. /\ IsRow(Upserted(l, key, rl, cols), Cols) /\ IsRow(Upserted(p, key, rp, cols), Cols)
      /\ RowsAgree(Upserted(l, key, rl, cols), Upserted(p, key, rp, cols), Cols)
  BY UpsertedAgree
<1>2. /\ DOMAIN u = DOMAIN l \cup {key} /\ u = [k \in DOMAIN u |-> u[k]]
      /\ DOMAIN v = DOMAIN p \cup {key} /\ v = [k \in DOMAIN v |-> v[k]]
  BY DEF Upsert
<1>3. /\ u[key] = Upserted(l, key, rl, cols) /\ v[key] = Upserted(p, key, rp, cols)
      /\ \A k \in DOMAIN l : k # key => u[k] = l[k]
      /\ \A k \in DOMAIN p : k # key => v[k] = p[k]
  BY DEF Upsert, Upserted
<1> HIDE DEF u, v
<1>4. ASSUME NEW k \in DOMAIN u
      PROVE  IsRow(u[k], Cols) /\ IsRow(v[k], Cols) /\ RowsAgree(u[k], v[k], Cols)
  <2>1. CASE k = key BY <2>1, <1>1, <1>3
  <2>2. CASE k # key
    <3>1. k \in DOMAIN l /\ k \in DOMAIN p /\ u[k] = l[k] /\ v[k] = p[k]
      BY <2>2, <1>2, <1>3 DEF TablesAgree
    <3>2. IsRow(l[k], Cols) /\ IsRow(p[k], Cols) /\ RowsAgree(l[k], p[k], Cols)
      BY <3>1 DEF TablesAgree, IsTable, IsRow
    <3> QED BY <3>1, <3>2
  <2> QED BY <2>1, <2>2
<1>5. DOMAIN u = DOMAIN v
  BY <1>2 DEF TablesAgree
<1>6. IsTable(u, Cols) /\ IsTable(v, Cols)
  BY <1>2, <1>4, <1>5 DEF IsTable, IsRow
<1> QED BY <1>4, <1>5, <1>6 DEF TablesAgree, u, v

LEMMA UpsertEachAgree ==
  ASSUME NEW Cols, NEW l, NEW p, TablesAgree(l, p, Cols), NEW cols,
         NEW el, NEW ep, NEW n \in Nat, EntriesAgree(el, ep, n, Cols)
  PROVE  TablesAgree(UpsertEach(l, el, cols), UpsertEach(p, ep, cols), Cols)
<1> DEFINE u == UpsertEach(l, el, cols)
           v == UpsertEach(p, ep, cols)
<1>0. /\ AreEntries(el, n, Cols) /\ AreEntries(ep, n, Cols) /\ IsTable(l, Cols) /\ IsTable(p, Cols)
      /\ \A i, j \in 1..n : el[i].key = el[j].key => i = j
      /\ \A i, j \in 1..n : ep[i].key = ep[j].key => i = j
  BY DEF EntriesAgree, TablesAgree
<1>1. UpsertedUpTo(u, l, el, n, cols) /\ IsTable(u, Cols)
  BY <1>0, UpsertEachForm
<1>2. UpsertedUpTo(v, p, ep, n, cols) /\ IsTable(v, Cols)
  BY <1>0, UpsertEachForm
<1> HIDE DEF u, v
<1>3. EntryKeys(el, n) = EntryKeys(ep, n)
  BY DEF EntriesAgree, EntryKeys
<1>4. DOMAIN u = DOMAIN v
  BY <1>1, <1>2, <1>3 DEF UpsertedUpTo, TablesAgree
<1>5. ASSUME NEW k \in DOMAIN u
      PROVE  RowsAgree(u[k], v[k], Cols)
  <2>1. CASE \E i \in 1..n : k = el[i].key
    <3>1. PICK i \in 1..n : k = el[i].key BY <2>1
    <3>2. k = ep[i].key /\ RowsAgree(el[i].row, ep[i].row, Cols) BY <3>1 DEF EntriesAgree
    <3>3. u[k] = Upserted(l, k, el[i].row, cols) BY <3>1, <1>1 DEF UpsertedUpTo
    <3>4. v[k] = Upserted(p, k, ep[i].row, cols) BY <3>2, <1>2 DEF UpsertedUpTo
    <3>5. IsRow(el[i].row, Cols) /\ IsRow(ep[i].row, Cols) BY <1>0 DEF AreEntries, IsRow
    <3> QED BY <3>2, <3>3, <3>4, <3>5, UpsertedAgree
  <2>2. CASE \A i \in 1..n : k # el[i].key
    <3>1. k \in DOMAIN l /\ k \in DOMAIN p
      BY <2>2, <1>1 DEF UpsertedUpTo, EntryKeys, TablesAgree
    <3>2. \A i \in 1..n : k # ep[i].key BY <2>2 DEF EntriesAgree
    <3>3. u[k] = l[k] /\ v[k] = p[k] BY <2>2, <3>1, <3>2, <1>1, <1>2 DEF UpsertedUpTo
    <3> QED BY <3>1, <3>3 DEF TablesAgree
  <2> QED BY <2>1, <2>2
<1> QED BY <1>1, <1>2, <1>4, <1>5 DEF TablesAgree, u, v

LEMMA SetAgree ==
  ASSUME NEW Cols, NEW l, NEW p, TablesAgree(l, p, Cols), NEW keys,
         NEW vl, NEW vp, NEW D \in SUBSET Cols, IsRow(vl, D), IsRow(vp, D), RowsAgree(vl, vp, D)
  PROVE  TablesAgree(Set(l, keys, vl), Set(p, keys, vp), Cols)
<1> DEFINE u == Set(l, keys, vl)
           v == Set(p, keys, vp)
<1>0. IsTable(l, Cols) /\ IsTable(p, Cols) /\ DOMAIN vl = D /\ DOMAIN vp = D
  BY DEF TablesAgree, IsRow
<1>1. IsTable(u, Cols) /\ DOMAIN u = DOMAIN l /\ IsTable(v, Cols) /\ DOMAIN v = DOMAIN p
  BY <1>0, SetKeeps
<1>2. ASSUME NEW k \in DOMAIN l PROVE RowsAgree(u[k], v[k], Cols)
  <2>0. /\ k \in DOMAIN p /\ RowsAgree(l[k], p[k], Cols)
        /\ DOMAIN l[k] = Cols /\ DOMAIN p[k] = Cols
    BY <1>0 DEF TablesAgree, IsTable
  <2>1. CASE k \in keys
    <3>1. u[k] = Joined(vl, l[k]) /\ v[k] = Joined(vp, p[k]) BY <2>0, <2>1 DEF Set
    <3>2. \A c \in Cols : /\ Joined(vl, l[k])[c] = IF c \in D THEN vl[c] ELSE l[k][c]
                          /\ Joined(vp, p[k])[c] = IF c \in D THEN vp[c] ELSE p[k][c]
      BY <1>0, <2>0 DEF Joined
    <3> QED BY <2>0, <3>1, <3>2 DEF RowsAgree
  <2>2. CASE k \notin keys
    <3>1. u[k] = l[k] /\ v[k] = p[k] BY <2>0, <2>2 DEF Set
    <3> QED BY <3>1, <2>0
  <2> QED BY <2>1, <2>2
<1> HIDE DEF u, v
<1> QED BY <1>1, <1>2 DEF TablesAgree, u, v

LEMMA DeleteAgree ==
  ASSUME NEW Cols, NEW l, NEW p, TablesAgree(l, p, Cols), NEW keys
  PROVE  TablesAgree(Delete(l, keys), Delete(p, keys), Cols)
<1> DEFINE u == Delete(l, keys)
           v == Delete(p, keys)
<1>1. /\ DOMAIN u = DOMAIN l \ keys /\ u = [k \in DOMAIN u |-> u[k]] /\ \A k \in DOMAIN u : u[k] = l[k]
      /\ DOMAIN v = DOMAIN p \ keys /\ v = [k \in DOMAIN v |-> v[k]] /\ \A k \in DOMAIN v : v[k] = p[k]
  BY DEF Delete
<1> HIDE DEF u, v
<1>2. DOMAIN u \subseteq DOMAIN l /\ DOMAIN v \subseteq DOMAIN p /\ DOMAIN u = DOMAIN v
  BY <1>1 DEF TablesAgree
<1>3. IsTable(u, Cols) /\ IsTable(v, Cols)
  BY <1>1, <1>2 DEF TablesAgree, IsTable
<1> QED BY <1>1, <1>2, <1>3 DEF TablesAgree, u, v

-------------------------------------------------------------------------------
(* The two databases after the same calls. *)

Columns ==
    [pointers   |-> PointerCols,
     candidates |-> CandidateCols,
     receipts   |-> {"task", "phase", "pointers", "scope", "baseline", "actor", "summary", "created"},
     runs       |-> {"id", "receipt", "request", "status", "files", "outcome", "issues", "created"},
     items      |-> {"status", "created", "updated"},
     plans      |-> {"receipt", "text", "kind", "status", "stages", "created", "updated"},
     tasks      |-> {"status", "text", "reason", "created", "updated"},
     attempts   |-> {"id", "receipt", "review", "fingerprint", "status", "created"},
     batches    |-> {"receipt", "status", "created"},
     results    |-> {"batch", "test", "status", "started", "finished"}]

IsLog(table) == \E n \in Nat : DOMAIN table = 1..n
ArePairs(table) == \A k \in DOMAIN table : k = <<k[1], k[2]>>

StoresMatch(l, p) ==
    /\ DOMAIN l = Tables \cup {"nextRun", "nextAttempt"} /\ DOMAIN p = DOMAIN l
    /\ \A t \in Tables : TablesAgree(l[t], p[t], Columns[t])
    /\ IsFiniteSet(DOMAIN l.pointers)
    /\ IsLog(l.runs) /\ IsLog(l.attempts) /\ IsLog(l.results)
    /\ ArePairs(l.items) /\ ArePairs(l.tasks)
    /\ l.nextRun \in Nat /\ p.nextRun \in Nat /\ l.nextAttempt \in Nat /\ p.nextAttempt \in Nat

LEMMA Instant ==
  /\ \A c \in Times, t \in Int : Seconds(c, t) = LiteTime(t) /\ LiteTime(t) \in Int
  /\ \A c, v : c \notin Times => Seconds(c, v) = v
  /\ \A c : Seconds(c, Null) = Null
BY ParityAssumption DEF Seconds, LiteTime

LEMMA PointerRecord ==
  \A a, b, c, d, e, f, g, h :
     IsRow([path |-> a, kind |-> b, text |-> c, rule |-> d, stale |-> e, staleAt |-> f, hash |-> g, updated |-> h],
           PointerCols)
BY DEF IsRow, PointerCols

PointerRow(path, kind, text, rule, stale, hash, at) ==
    [path |-> path, kind |-> kind, text |-> text, rule |-> rule, stale |-> stale, staleAt |-> Null,
     hash |-> hash, updated |-> at]
LEMMA PointerRowsAgree ==
  ASSUME NEW path, NEW kind, NEW text, NEW rule, NEW stale, NEW hash, NEW t \in Int
  PROVE  /\ IsRow(PointerRow(path, kind, text, rule, stale, hash, LiteTime(t)), PointerCols)
         /\ IsRow(PointerRow(path, kind, text, rule, stale, hash, t), PointerCols)
         /\ RowsAgree(PointerRow(path, kind, text, rule, stale, hash, LiteTime(t)),
                      PointerRow(path, kind, text, rule, stale, hash, t), PointerCols)
<1> DEFINE row(at) == PointerRow(path, kind, text, rule, stale, hash, at)
<1>1. \A at : IsRow(row(at), PointerCols)
  BY PointerRecord DEF PointerRow
<1>2. ASSUME NEW c \in PointerCols PROVE row(LiteTime(t))[c] = Seconds(c, row(t)[c])
  <2>1. CASE c = "updated"
    <3>1. row(LiteTime(t))[c] = LiteTime(t) /\ row(t)[c] = t BY <2>1 DEF PointerRow
    <3> QED BY <3>1, <2>1, Instant DEF Times
  <2>2. CASE c = "staleAt"
    <3>1. row(LiteTime(t))[c] = Null /\ row(t)[c] = Null BY <2>2 DEF PointerRow
    <3> QED BY <3>1, Instant
  <2>3. CASE c \in PointerCols \ Times
    <3>1. row(LiteTime(t))[c] = row(t)[c] BY <2>3 DEF PointerRow, PointerCols, Times
    <3> QED BY <3>1, <2>3, Instant
  <2> QED BY <2>1, <2>2, <2>3 DEF PointerCols, Times
<1> QED BY <1>1, <1>2 DEF RowsAgree

LEMMA StubRowsAgree ==
  ASSUME NEW s, NEW t \in Int
  PROVE  /\ IsRow(StubRow(s, LiteTime(t)), PointerCols) /\ IsRow(StubRow(s, t), PointerCols)
         /\ RowsAgree(StubRow(s, LiteTime(t)), StubRow(s, t), PointerCols)
<1>1. \A at : StubRow(s, at) = PointerRow(s.path, s.kind, s.text, s.kind = "rule", FALSE, Null, at)
  BY Zenon DEF StubRow, PointerRow
<1>2. PICK rule, stale : \A at : StubRow(s, at) = PointerRow(s.path, s.kind, s.text, rule, stale, Null, at)
  BY <1>1, Zenon
<1> QED BY <1>2, PointerRowsAgree

LEMMA RuleRowsAgree ==
  ASSUME NEW source, NEW r, NEW t \in Int
  PROVE  /\ IsRow(RuleRow(source, r, LiteTime(t)), PointerCols) /\ IsRow(RuleRow(source, r, t), PointerCols)
         /\ RowsAgree(RuleRow(source, r, LiteTime(t)), RuleRow(source, r, t), PointerCols)
<1>1. \A at : RuleRow(source, r, at) = PointerRow(source, "rule", r.text, TRUE, FALSE, Null, at)
  BY Zenon DEF RuleRow, PointerRow
<1>2. PICK rule, stale : \A at : RuleRow(source, r, at) = PointerRow(source, "rule", r.text, rule, stale, Null, at)
  BY <1>1, Zenon
<1> QED BY <1>2, PointerRowsAgree

(* One table has changed. *)
LEMMA TableChanges ==
  ASSUME NEW l, NEW p, StoresMatch(l, p), NEW t \in Tables, NEW u, NEW v, TablesAgree(u, v, Columns[t]),
         t = "pointers" => IsFiniteSet(DOMAIN u), t \in {"runs", "attempts", "results"} => IsLog(u),
         t \in {"items", "tasks"} => ArePairs(u)
  PROVE  StoresMatch([l EXCEPT ![t] = u], [p EXCEPT ![t] = v])
<1> DEFINE lq == [l EXCEPT ![t] = u]
           pq == [p EXCEPT ![t] = v]
<1>1. /\ DOMAIN lq = DOMAIN l /\ DOMAIN pq = DOMAIN p
      /\ \A f \in DOMAIN l : f # t => lq[f] = l[f] /\ pq[f] = p[f]
      /\ lq[t] = u /\ pq[t] = v
  BY DEF StoresMatch
<1> HIDE DEF lq, pq
<1>2. \A f \in Tables : TablesAgree(lq[f], pq[f], Columns[f])
  <2> SUFFICES ASSUME NEW f \in Tables PROVE TablesAgree(lq[f], pq[f], Columns[f])
    OBVIOUS
  <2>1. TablesAgree(l[f], p[f], Columns[f]) /\ f \in DOMAIN l BY DEF StoresMatch
  <2>2. CASE f = t BY <2>2, <1>1
  <2>3. CASE f # t
    <3>1. lq[f] = l[f] /\ pq[f] = p[f] BY <2>1, <2>3, <1>1
    <3> QED BY <2>1, <3>1
  <2> QED BY <2>2, <2>3
<1>3. IsFiniteSet(DOMAIN lq.pointers)
  <2>1. CASE t = "pointers" BY <2>1, <1>1
  <2>2. CASE t # "pointers"
    <3>1. lq.pointers = l.pointers BY <2>2, <1>1 DEF StoresMatch, Tables
    <3> QED BY <3>1 DEF StoresMatch
  <2> QED BY <2>1, <2>2
<1>4. \A f \in {"runs", "attempts", "results"} : IsLog(lq[f])
  <2> SUFFICES ASSUME NEW f \in {"runs", "attempts", "results"} PROVE IsLog(lq[f])
    OBVIOUS
  <2>1. IsLog(l[f]) /\ f \in DOMAIN l BY DEF StoresMatch, Tables
  <2>2. CASE f = t BY <2>2, <1>1
  <2>3. CASE f # t
    <3>1. lq[f] = l[f] BY <2>1, <2>3, <1>1
    <3> QED BY <2>1, <3>1
  <2> QED BY <2>2, <2>3
<1>4a. \A f \in {"items", "tasks"} : ArePairs(lq[f])
  <2> SUFFICES ASSUME NEW f \in {"items", "tasks"} PROVE ArePairs(lq[f])
    OBVIOUS
  <2>1. ArePairs(l[f]) /\ f \in DOMAIN l BY DEF StoresMatch, Tables
  <2>2. CASE f = t BY <2>2, <1>1
  <2>3. CASE f # t
    <3>1. lq[f] = l[f] BY <2>1, <2>3, <1>1
    <3> QED BY <2>1, <3>1
  <2> QED BY <2>2, <2>3
<1>5. \A f \in {"nextRun", "nextAttempt"} : lq[f] = l[f] /\ pq[f] = p[f]
  BY <1>1 DEF StoresMatch, Tables
<1>6. /\ IsLog(lq.runs) /\ IsLog(lq.attempts) /\ IsLog(lq.results)
      /\ ArePairs(lq.items) /\ ArePairs(lq.tasks)
      /\ lq.nextRun \in Nat /\ pq.nextRun \in Nat /\ lq.nextAttempt \in Nat /\ pq.nextAttempt \in Nat
  <2>1. /\ lq.nextRun = l.nextRun /\ lq.nextAttempt = l.nextAttempt
        /\ pq.nextRun = p.nextRun /\ pq.nextAttempt = p.nextAttempt
    BY <1>5
  <2> QED BY <1>4, <1>4a, <2>1 DEF StoresMatch
<1>7. DOMAIN lq = Tables \cup {"nextRun", "nextAttempt"} /\ DOMAIN pq = DOMAIN lq
  BY <1>1 DEF StoresMatch
<1> QED BY <1>2, <1>3, <1>6, <1>7 DEF StoresMatch, lq, pq

(* A number has been given out, or has been lost. *)
Renumbered(d, e) ==
    /\ DOMAIN e = DOMAIN d /\ \A f \in Tables : e[f] = d[f]
    /\ e.nextRun \in Nat /\ e.nextAttempt \in Nat
    /\ e.pointers = d.pointers /\ e.runs = d.runs /\ e.attempts = d.attempts /\ e.results = d.results
    /\ e.items = d.items /\ e.tasks = d.tasks
LEMMA CounterChanges ==
  ASSUME NEW l, NEW p, StoresMatch(l, p), NEW c \in {"nextRun", "nextAttempt"}, NEW a \in Nat, NEW b \in Nat
  PROVE  /\ StoresMatch(l, [p EXCEPT ![c] = b])
         /\ StoresMatch([l EXCEPT ![c] = a], [p EXCEPT ![c] = b])
<1>1. ASSUME NEW d, DOMAIN d = Tables \cup {"nextRun", "nextAttempt"}, NEW n \in Nat,
             d.nextRun \in Nat, d.nextAttempt \in Nat
      PROVE  Renumbered(d, [d EXCEPT ![c] = n])
  <2> DEFINE e == [d EXCEPT ![c] = n]
  <2>1. DOMAIN e = DOMAIN d /\ c \in DOMAIN d /\ e[c] = n /\ \A f \in DOMAIN d : f # c => e[f] = d[f]
    BY <1>1
  <2> HIDE DEF e
  <2>2. \A f \in Tables : e[f] = d[f] BY <2>1, <1>1 DEF Tables
  <2>3. {"pointers", "runs", "attempts", "results", "items", "tasks"} \subseteq Tables BY DEF Tables
  <2>4. e.nextRun \in Nat BY <2>1, <1>1
  <2>5. e.nextAttempt \in Nat BY <2>1, <1>1
  <2> QED BY <2>1, <2>2, <2>3, <2>4, <2>5 DEF Renumbered, e
<1>2. /\ DOMAIN l = Tables \cup {"nextRun", "nextAttempt"} /\ l.nextRun \in Nat /\ l.nextAttempt \in Nat
      /\ DOMAIN p = Tables \cup {"nextRun", "nextAttempt"} /\ p.nextRun \in Nat /\ p.nextAttempt \in Nat
  BY DEF StoresMatch
<1> DEFINE lq == [l EXCEPT ![c] = a]
           pq == [p EXCEPT ![c] = b]
<1>3. Renumbered(l, lq)
  BY <1>1, <1>2
<1>4. Renumbered(p, pq)
  BY <1>1, <1>2
<1> HIDE DEF lq, pq
<1>5. StoresMatch(l, pq)
  BY <1>4 DEF StoresMatch, Renumbered
<1>6. StoresMatch(lq, pq)
  BY <1>3, <1>4 DEF StoresMatch, Renumbered
<1> QED BY <1>5, <1>6 DEF lq, pq

(* The keys a list of upserts adds are finitely many. *)
LEMMA UpsertEachFinite ==
  ASSUME NEW table, NEW Cols, IsTable(table, Cols), IsFiniteSet(DOMAIN table), NEW cols,
         NEW entries, NEW n \in Nat, AreEntries(entries, n, Cols),
         \A i, j \in 1..n : entries[i].key = entries[j].key => i = j
  PROVE  IsFiniteSet(DOMAIN UpsertEach(table, entries, cols))
<1>0. UpsertedUpTo(UpsertEach(table, entries, cols), table, entries, n, cols)
  BY UpsertEachForm
<1>1. DOMAIN UpsertEach(table, entries, cols) = DOMAIN table \cup EntryKeys(entries, n)
  BY <1>0 DEF UpsertedUpTo
<1>2. DOMAIN entries = 1..n /\ KeysOf(entries) = EntryKeys(entries, n)
  BY DEF AreEntries, KeysOf, EntryKeys
<1>3. IsFiniteSet(EntryKeys(entries, n))
  BY <1>2, KeysFinite
<1> QED BY <1>1, <1>3, FS_Union

LEMMA UpsertEachPairs ==
  ASSUME NEW table, NEW Cols, IsTable(table, Cols), ArePairs(table), NEW cols,
         NEW entries, NEW n \in Nat, AreEntries(entries, n, Cols),
         \A i, j \in 1..n : entries[i].key = entries[j].key => i = j,
         \A i \in 1..n : entries[i].key = <<entries[i].key[1], entries[i].key[2]>>
  PROVE  ArePairs(UpsertEach(table, entries, cols))
<1>1. UpsertedUpTo(UpsertEach(table, entries, cols), table, entries, n, cols)
  BY UpsertEachForm
<1>2. DOMAIN UpsertEach(table, entries, cols) = DOMAIN table \cup EntryKeys(entries, n)
  BY <1>1 DEF UpsertedUpTo
<1>3. \A k \in EntryKeys(entries, n) : k = <<k[1], k[2]>>
  BY DEF EntryKeys
<1> QED BY <1>2, <1>3 DEF ArePairs

LEMMA SeqElements ==
  ASSUME NEW S, NEW s \in Seq(S)
  PROVE  Len(s) \in Nat /\ DOMAIN s = 1..Len(s) /\ \A i \in 1..Len(s) : s[i] \in S
OBVIOUS

LEMMA StubKeysOnce ==
  ASSUME NEW stubs \in StubLists
  PROVE  \E m \in Nat : /\ DOMAIN ByKey(Keyed(stubs), Alike) = 1..m
                        /\ \A i, j \in 1..m : ByKey(Keyed(stubs), Alike)[i].key = ByKey(Keyed(stubs), Alike)[j].key => i = j
<1> DEFINE rows == ByKey(Keyed(stubs), Alike)
<1>1. stubs \in Seq([key : Optional(Int), path : Int, kind : STRING, text : Text])
  BY InputAssumption
<1>2. Len(stubs) \in Nat /\ DOMAIN stubs = 1..Len(stubs) /\ DOMAIN Keyed(stubs) = 1..Len(stubs)
  BY <1>1 DEF Keyed
<1>3. \A i \in 1..Len(stubs) : Keyed(stubs)[i].key \in Int
  <2> SUFFICES ASSUME NEW i \in 1..Len(stubs) PROVE Keyed(stubs)[i].key \in Int
    OBVIOUS
  <2>1. stubs[i] \in [key : Optional(Int), path : Int, kind : STRING, text : Text] BY <1>1, SeqElements
  <2>2. Keyed(stubs)[i].key = OrElse(stubs[i].key, stubs[i].path) BY <1>2, <2>1 DEF Keyed
  <2> QED BY <2>1, <2>2 DEF OrElse, Optional
<1>4. IsOfEachKey(rows, Keyed(stubs)) BY <1>2, <1>3, ByKeyOnce
<1> HIDE DEF rows
<1>5. \E m \in Nat : DOMAIN rows = 1..m /\ \A i, j \in 1..m : rows[i].key = rows[j].key => i = j
  BY <1>4 DEF IsOfEachKey
<1> QED BY <1>5 DEF rows

LEMMA StubsAgree ==
  ASSUME NEW l, NEW p, StoresMatch(l, p), NEW stubs \in StubLists, NEW t \in Int
  PROVE  /\ StoresMatch(StubsCall(l, stubs, LiteTime(t)).db, StubsCall(p, stubs, t).db)
         /\ StubsCall(l, stubs, LiteTime(t)).result = StubsCall(p, stubs, t).result
<1> DEFINE rows == ByKey(Keyed(stubs), Alike)
           el   == StubEntries(rows, LiteTime(t))
           ep   == StubEntries(rows, t)
           u    == UpsertEach(l.pointers, el, StubCols)
           v    == UpsertEach(p.pointers, ep, StubCols)
<1>1. PICK m \in Nat : DOMAIN rows = 1..m /\ \A i, j \in 1..m : rows[i].key = rows[j].key => i = j
  BY StubKeysOnce
<1> HIDE DEF rows
<1>2. EntriesAgree(el, ep, m, PointerCols)
  <2>1. ASSUME NEW i \in 1..m
        PROVE  /\ el[i].key = rows[i].key /\ ep[i].key = rows[i].key
               /\ el[i].row = StubRow(rows[i], LiteTime(t)) /\ ep[i].row = StubRow(rows[i], t)
    BY <1>1 DEF StubEntries
  <2>2. el = [i \in 1..m |-> el[i]] /\ ep = [i \in 1..m |-> ep[i]]
    BY <1>1 DEF StubEntries
  <2> HIDE DEF el, ep
  <2>3. \A i \in 1..m : /\ IsRow(el[i].row, PointerCols) /\ IsRow(ep[i].row, PointerCols)
                       /\ RowsAgree(el[i].row, ep[i].row, PointerCols)
    BY <2>1, StubRowsAgree
  <2>4. \A i, j \in 1..m : el[i].key = el[j].key => i = j
    BY <2>1, <1>1
  <2> QED BY <2>1, <2>2, <2>3, <2>4 DEF EntriesAgree, AreEntries, IsRow
<1>3. TablesAgree(l.pointers, p.pointers, PointerCols)
  BY DEF StoresMatch, Tables, Columns
<1> HIDE DEF el, ep
<1>4. TablesAgree(u, v, PointerCols)
  BY <1>2, <1>3, UpsertEachAgree
<1>5. IsFiniteSet(DOMAIN u)
  BY <1>2, <1>3, UpsertEachFinite DEF StoresMatch, EntriesAgree, TablesAgree
<1>6. /\ StubsCall(l, stubs, LiteTime(t)) = Done([l EXCEPT !["pointers"] = u], Len(rows))
      /\ StubsCall(p, stubs, t) = Done([p EXCEPT !["pointers"] = v], Len(rows))
  BY DEF StubsCall, rows, el, ep
<1> HIDE DEF u, v
<1>7. StoresMatch([l EXCEPT !["pointers"] = u], [p EXCEPT !["pointers"] = v])
  <2>1. Columns["pointers"] = PointerCols /\ "pointers" \in Tables \ {"runs", "attempts", "results"}
    BY DEF Columns, Tables
  <2> QED BY <1>4, <1>5, <2>1, TableChanges
<1> QED BY <1>6, <1>7 DEF Done

(* The columns that are no instants are equal. *)
LEMMA ValuesAgree ==
  ASSUME NEW Cols, NEW l, NEW p, TablesAgree(l, p, Cols)
  PROVE  /\ DOMAIN l = DOMAIN p
         /\ \A k \in DOMAIN l : \A c \in Cols \ (Times \cup {"id"}) : l[k][c] = p[k][c]
BY Instant DEF TablesAgree, RowsAgree

LEMMA PointersAgree ==
  ASSUME NEW l, NEW p, TablesAgree(l, p, PointerCols)
  PROVE  /\ DOMAIN l = DOMAIN p
         /\ \A k \in DOMAIN l : /\ l[k].path = p[k].path /\ l[k].kind = p[k].kind /\ l[k].text = p[k].text
                                /\ l[k].rule = p[k].rule /\ l[k].stale = p[k].stale /\ l[k].hash = p[k].hash
<1>1. {"path", "kind", "text", "rule", "stale", "hash"} \subseteq PointerCols \ (Times \cup {"id"})
  BY DEF PointerCols, Times
<1>2. DOMAIN l = DOMAIN p /\ \A k \in DOMAIN l : \A c \in PointerCols \ (Times \cup {"id"}) : l[k][c] = p[k][c]
  BY ValuesAgree
<1>3. ASSUME NEW k \in DOMAIN l
      PROVE  \A c \in {"path", "kind", "text", "rule", "stale", "hash"} : l[k][c] = p[k][c]
  BY <1>1, <1>2
<1> QED BY <1>2, <1>3

LEMMA RuleKeysOnce ==
  ASSUME NEW s \in RuleSyncs
  PROVE  \E m \in Nat : /\ DOMAIN ByKey(s.rules, Alike) = 1..m
                        /\ \A i, j \in 1..m : ByKey(s.rules, Alike)[i].key = ByKey(s.rules, Alike)[j].key => i = j
<1> DEFINE rows == ByKey(s.rules, Alike)
<1>1. s.rules \in Seq([key : Int, text : Text])
  BY InputAssumption
<1>2. Len(s.rules) \in Nat /\ DOMAIN s.rules = 1..Len(s.rules)
      /\ \A i \in 1..Len(s.rules) : s.rules[i] \in [key : Int, text : Text]
  BY <1>1, SeqElements
<1>3. \A i \in 1..Len(s.rules) : s.rules[i].key \in Int
  BY <1>2
<1>4. IsOfEachKey(rows, s.rules) BY <1>2, <1>3, ByKeyOnce
<1> HIDE DEF rows
<1>5. \E m \in Nat : DOMAIN rows = 1..m /\ \A i, j \in 1..m : rows[i].key = rows[j].key => i = j
  BY <1>4 DEF IsOfEachKey
<1> QED BY <1>5 DEF rows

LEMMA RulesAgree ==
  ASSUME NEW l, NEW p, StoresMatch(l, p), NEW s \in RuleSyncs, NEW t \in Int
  PROVE  /\ StoresMatch(RulesCall(l, s.source, s.rules, LiteTime(t)).db, RulesCall(p, s.source, s.rules, t).db)
         /\ RulesCall(l, s.source, s.rules, LiteTime(t)).result = RulesCall(p, s.source, s.rules, t).result
<1> DEFINE rows == ByKey(s.rules, Alike)
           el   == RuleEntries(s.source, rows, LiteTime(t))
           ep   == RuleEntries(s.source, rows, t)
           u    == UpsertEach(l.pointers, el, RuleCols)
           v    == UpsertEach(p.pointers, ep, RuleCols)
           gone == MissingRules(u, s.source, rows)
<1>1. PICK m \in Nat : DOMAIN rows = 1..m /\ \A i, j \in 1..m : rows[i].key = rows[j].key => i = j
  BY RuleKeysOnce
<1> HIDE DEF rows
<1>2. EntriesAgree(el, ep, m, PointerCols)
  <2>1. ASSUME NEW i \in 1..m
        PROVE  /\ el[i].key = rows[i].key /\ ep[i].key = rows[i].key
               /\ el[i].row = RuleRow(s.source, rows[i], LiteTime(t)) /\ ep[i].row = RuleRow(s.source, rows[i], t)
    BY <1>1 DEF RuleEntries
  <2>2. el = [i \in 1..m |-> el[i]] /\ ep = [i \in 1..m |-> ep[i]]
    BY <1>1 DEF RuleEntries
  <2> HIDE DEF el, ep
  <2>3. \A i \in 1..m : /\ IsRow(el[i].row, PointerCols) /\ IsRow(ep[i].row, PointerCols)
                       /\ RowsAgree(el[i].row, ep[i].row, PointerCols)
    BY <2>1, RuleRowsAgree
  <2>4. \A i, j \in 1..m : el[i].key = el[j].key => i = j
    BY <2>1, <1>1
  <2> QED BY <2>1, <2>2, <2>3, <2>4 DEF EntriesAgree, AreEntries, IsRow
<1>3. TablesAgree(l.pointers, p.pointers, PointerCols)
  BY DEF StoresMatch, Tables, Columns
<1> HIDE DEF el, ep
<1>4. TablesAgree(u, v, PointerCols)
  BY <1>2, <1>3, UpsertEachAgree
<1>5. IsFiniteSet(DOMAIN u)
  BY <1>2, <1>3, UpsertEachFinite DEF StoresMatch, EntriesAgree, TablesAgree
<1> HIDE DEF u, v
<1>6. MissingRules(v, s.source, rows) = gone
  BY <1>4, PointersAgree DEF MissingRules
<1>7. /\ RulesCall(l, s.source, s.rules, LiteTime(t))
           = Done([l EXCEPT !["pointers"] = Delete(u, gone)], [upserted |-> Len(rows), markedStale |-> Cardinality(gone)])
      /\ RulesCall(p, s.source, s.rules, t)
           = Done([p EXCEPT !["pointers"] = Delete(v, gone)], [upserted |-> Len(rows), markedStale |-> Cardinality(gone)])
  <2> HIDE DEF gone
  <2> QED BY <1>6 DEF RulesCall, rows, el, ep, u, v, gone
<1> HIDE DEF gone
<1>8. TablesAgree(Delete(u, gone), Delete(v, gone), PointerCols)
  BY <1>4, DeleteAgree
<1>9. IsFiniteSet(DOMAIN Delete(u, gone))
  <2>1. DOMAIN Delete(u, gone) \in SUBSET DOMAIN u BY DEF Delete
  <2> QED BY <2>1, <1>5, FS_Subset
<1>10. StoresMatch([l EXCEPT !["pointers"] = Delete(u, gone)], [p EXCEPT !["pointers"] = Delete(v, gone)])
  <2>1. Columns["pointers"] = PointerCols /\ "pointers" \in Tables \ {"runs", "attempts", "results"}
    BY DEF Columns, Tables
  <2> QED BY <1>8, <1>9, <2>1, TableChanges
<1> QED BY <1>7, <1>10 DEF Done

(* The rows that a synchronisation marks and refreshes. *)
StaleCols == {"stale", "staleAt", "updated"}

LEMMA StaleValuesAgree ==
  ASSUME NEW t \in Int
  PROVE  /\ IsRow(StaleValues(LiteTime(t)), StaleCols) /\ IsRow(StaleValues(t), StaleCols)
         /\ RowsAgree(StaleValues(LiteTime(t)), StaleValues(t), StaleCols)
         /\ StaleCols \in SUBSET PointerCols
<1>1. \A b, at : IsRow([stale |-> b, staleAt |-> at, updated |-> at], StaleCols)
  BY DEF IsRow, StaleCols
<1>2. PICK b : \A at : StaleValues(at) = [stale |-> b, staleAt |-> at, updated |-> at]
  BY Zenon DEF StaleValues
<1>3. ASSUME NEW c \in StaleCols PROVE StaleValues(LiteTime(t))[c] = Seconds(c, StaleValues(t)[c])
  <2>1. CASE c = "stale"
    <3>1. StaleValues(LiteTime(t))[c] = b /\ StaleValues(t)[c] = b BY <2>1, <1>2
    <3> QED BY <3>1, <2>1, Instant DEF Times
  <2>2. CASE c = "staleAt" \/ c = "updated"
    <3>1. StaleValues(LiteTime(t))[c] = LiteTime(t) /\ StaleValues(t)[c] = t BY <2>2, <1>2
    <3>2. c \in Times BY <2>2 DEF Times
    <3> QED BY <3>1, <3>2, Instant
  <2> QED BY <2>1, <2>2 DEF StaleCols
<1>4. StaleCols \in SUBSET PointerCols
  BY DEF StaleCols, PointerCols
<1> QED BY <1>1, <1>2, <1>3, <1>4 DEF RowsAgree

LEMMA RefreshedRowsAgree ==
  ASSUME NEW l, NEW p, IsRow(l, PointerCols), IsRow(p, PointerCols), RowsAgree(l, p, PointerCols),
         NEW hash, NEW t \in Int
  PROVE  /\ IsRow(Joined(Refreshed(hash, LiteTime(t)), l), PointerCols)
         /\ IsRow(Joined(Refreshed(hash, t), p), PointerCols)
         /\ RowsAgree(Joined(Refreshed(hash, LiteTime(t)), l), Joined(Refreshed(hash, t), p), PointerCols)
<1>0. PICK b : \A at : Refreshed(hash, at) = [hash |-> hash, stale |-> b, staleAt |-> Null, updated |-> at]
  BY Zenon DEF Refreshed
<1>1. \A at : DOMAIN Refreshed(hash, at) = RefreshedCols
  BY <1>0 DEF RefreshedCols
<1>2. RefreshedCols \subseteq PointerCols /\ DOMAIN l = PointerCols /\ DOMAIN p = PointerCols
  BY DEF RefreshedCols, PointerCols, IsRow
<1>3. ASSUME NEW row, DOMAIN row = PointerCols, NEW at
      PROVE  Joined(Refreshed(hash, at), row)
               = [c \in PointerCols |-> IF c \in RefreshedCols THEN Refreshed(hash, at)[c] ELSE row[c]]
  <2>1. RefreshedCols \cup PointerCols = PointerCols BY <1>2
  <2> QED BY <1>1, <1>3, <2>1 DEF Joined
<1>4. ASSUME NEW c \in RefreshedCols PROVE Refreshed(hash, LiteTime(t))[c] = Seconds(c, Refreshed(hash, t)[c])
  <2>1. CASE c = "updated"
    <3>1. Refreshed(hash, LiteTime(t))[c] = LiteTime(t) /\ Refreshed(hash, t)[c] = t BY <2>1, <1>0
    <3> QED BY <3>1, <2>1, Instant DEF Times
  <2>2. CASE c = "staleAt"
    <3>1. Refreshed(hash, LiteTime(t))[c] = Null /\ Refreshed(hash, t)[c] = Null BY <2>2, <1>0
    <3> QED BY <3>1, Instant
  <2>3. CASE c = "hash"
    <3>1. Refreshed(hash, LiteTime(t))[c] = hash /\ Refreshed(hash, t)[c] = hash BY <2>3, <1>0
    <3> QED BY <3>1, <2>3, Instant DEF Times
  <2>4. CASE c = "stale"
    <3>1. Refreshed(hash, LiteTime(t))[c] = b /\ Refreshed(hash, t)[c] = b BY <2>4, <1>0
    <3> QED BY <3>1, <2>4, Instant DEF Times
  <2> QED BY <2>1, <2>2, <2>3, <2>4 DEF RefreshedCols
<1>5. /\ Joined(Refreshed(hash, LiteTime(t)), l)
           = [c \in PointerCols |-> IF c \in RefreshedCols THEN Refreshed(hash, LiteTime(t))[c] ELSE l[c]]
      /\ Joined(Refreshed(hash, t), p)
           = [c \in PointerCols |-> IF c \in RefreshedCols THEN Refreshed(hash, t)[c] ELSE p[c]]
  BY <1>2, <1>3
<1> QED BY <1>4, <1>5 DEF RowsAgree, IsRow

LEMMA WithRefreshedAgree ==
  ASSUME NEW l, NEW p, TablesAgree(l, p, PointerCols), NEW paths, NEW t \in Int
  PROVE  /\ HitBy(l, paths) = HitBy(p, paths)
         /\ DOMAIN WithRefreshed(l, paths, LiteTime(t)) = DOMAIN l
         /\ TablesAgree(WithRefreshed(l, paths, LiteTime(t)), WithRefreshed(p, paths, t), PointerCols)
<1> DEFINE u == WithRefreshed(l, paths, LiteTime(t))
           v == WithRefreshed(p, paths, t)
<1>0. /\ DOMAIN l = DOMAIN p
      /\ \A k \in DOMAIN l : l[k].path = p[k].path /\ l[k].stale = p[k].stale /\ l[k].hash = p[k].hash
  BY PointersAgree
<1>1. \A s : RefreshHit(l, s) = RefreshHit(p, s)
  BY <1>0 DEF RefreshHit
<1>2. HitBy(l, paths) = HitBy(p, paths)
  BY <1>0, <1>1 DEF HitBy
<1>3. /\ DOMAIN u = DOMAIN l /\ u = [k \in DOMAIN u |-> u[k]]
      /\ DOMAIN v = DOMAIN p /\ v = [k \in DOMAIN v |-> v[k]]
  BY DEF WithRefreshed
<1>4. ASSUME NEW k \in DOMAIN l
      PROVE  IsRow(u[k], PointerCols) /\ IsRow(v[k], PointerCols) /\ RowsAgree(u[k], v[k], PointerCols)
  <2>0. k \in DOMAIN p /\ IsRow(l[k], PointerCols) /\ IsRow(p[k], PointerCols) /\ RowsAgree(l[k], p[k], PointerCols)
    BY DEF TablesAgree, IsTable, IsRow
  <2>1. CASE k \in HitBy(l, paths)
    <3>1. /\ u[k] = Joined(Refreshed(HashAt(paths, l[k].path), LiteTime(t)), l[k])
          /\ v[k] = Joined(Refreshed(HashAt(paths, p[k].path), t), p[k])
      BY <2>0, <2>1, <1>2 DEF WithRefreshed
    <3>2. l[k].path = p[k].path BY <1>0
    <3> HIDE DEF u, v
    <3> QED BY <2>0, <3>1, <3>2, RefreshedRowsAgree
  <2>2. CASE k \notin HitBy(l, paths)
    <3>1. u[k] = l[k] /\ v[k] = p[k] BY <2>0, <2>2, <1>2 DEF WithRefreshed
    <3> QED BY <2>0, <3>1
  <2> QED BY <2>1, <2>2
<1> HIDE DEF u, v
<1>5. IsTable(u, PointerCols) /\ IsTable(v, PointerCols) /\ DOMAIN u = DOMAIN v
  BY <1>0, <1>3, <1>4 DEF IsTable, IsRow
<1> QED BY <1>2, <1>3, <1>4, <1>5 DEF TablesAgree, u, v

LEMMA WithFreshAgree ==
  ASSUME NEW l, NEW p, TablesAgree(l, p, CandidateCols), NEW fresh, NEW paths, NEW t \in Int
  PROVE  TablesAgree(WithFresh(l, fresh, paths, LiteTime(t)), WithFresh(p, fresh, paths, t), CandidateCols)
<1> DEFINE u == WithFresh(l, fresh, paths, LiteTime(t))
           v == WithFresh(p, fresh, paths, t)
<1>1. \A hash, at : IsRow(NewCandidate(hash, at), CandidateCols)
  BY DEF IsRow, NewCandidate, CandidateCols
<1>2. ASSUME NEW hash
      PROVE  RowsAgree(NewCandidate(hash, LiteTime(t)), NewCandidate(hash, t), CandidateCols)
  <2>1. NewCandidate(hash, LiteTime(t))["hash"] = Seconds("hash", NewCandidate(hash, t)["hash"])
    BY Instant DEF NewCandidate, Times
  <2>2. NewCandidate(hash, LiteTime(t))["created"] = Seconds("created", NewCandidate(hash, t)["created"])
    BY Instant DEF NewCandidate, Times
  <2> QED BY <2>1, <2>2 DEF RowsAgree, CandidateCols
<1>3. /\ DOMAIN u = DOMAIN l \cup fresh /\ u = [k \in DOMAIN u |-> u[k]]
      /\ DOMAIN v = DOMAIN p \cup fresh /\ v = [k \in DOMAIN v |-> v[k]]
      /\ \A k \in DOMAIN u : u[k] = IF k \in DOMAIN l THEN l[k] ELSE NewCandidate(HashAt(paths, k), LiteTime(t))
      /\ \A k \in DOMAIN v : v[k] = IF k \in DOMAIN p THEN p[k] ELSE NewCandidate(HashAt(paths, k), t)
  BY DEF WithFresh, Joined
<1> HIDE DEF u, v
<1>4. DOMAIN u = DOMAIN v /\ DOMAIN l = DOMAIN p
  BY <1>3 DEF TablesAgree
<1>5. ASSUME NEW k \in DOMAIN u
      PROVE  IsRow(u[k], CandidateCols) /\ IsRow(v[k], CandidateCols) /\ RowsAgree(u[k], v[k], CandidateCols)
  <2>1. CASE k \in DOMAIN l
    <3>1. u[k] = l[k] /\ v[k] = p[k] BY <2>1, <1>3, <1>4
    <3>2. IsRow(l[k], CandidateCols) /\ IsRow(p[k], CandidateCols) /\ RowsAgree(l[k], p[k], CandidateCols)
      BY <2>1 DEF TablesAgree, IsTable, IsRow
    <3> QED BY <3>1, <3>2
  <2>2. CASE k \notin DOMAIN l
    <3>1. u[k] = NewCandidate(HashAt(paths, k), LiteTime(t)) /\ v[k] = NewCandidate(HashAt(paths, k), t)
      BY <2>2, <1>3, <1>4
    <3> QED BY <3>1, <1>1, <1>2
  <2> QED BY <2>1, <2>2
<1>6. IsTable(u, CandidateCols) /\ IsTable(v, CandidateCols)
  BY <1>3, <1>4, <1>5 DEF IsTable, IsRow
<1> QED BY <1>4, <1>5, <1>6 DEF TablesAgree, u, v

(* The paths of an input, as SyncPaths leaves them. *)
LEMMA PathsOnce ==
  ASSUME NEW input \in SyncInputs
  PROVE  \E n \in Nat : ArePaths(SyncPaths(input), n)
<1> DEFINE list == input.paths
           rows == SyncPaths(input)
<1>1. input \in [mode : {"full", "changed", "working_tree"}, insertNew : BOOLEAN,
                 paths : Seq([key : Int, deleted : BOOLEAN, hash : STRING \cup {Null}])]
  BY InputAssumption
<1>2. list \in Seq([key : Int, deleted : BOOLEAN, hash : STRING \cup {Null}])
  BY <1>1
<1>3. /\ Len(list) \in Nat /\ DOMAIN list = 1..Len(list)
      /\ \A i \in 1..Len(list) : list[i] \in [key : Int, deleted : BOOLEAN, hash : STRING \cup {Null}]
  BY <1>2, SeqElements
<1>4. \A i \in 1..Len(list) : list[i].key \in Int /\ list[i].deleted \in BOOLEAN
  BY <1>3
<1>5. IsOfEachKey(rows, list)
  BY <1>3, <1>4, ByKeyOnce DEF SyncPaths
<1>6. rows = [i \in DOMAIN rows |-> rows[i]]
  BY DEF SyncPaths, ByKey
<1> HIDE DEF rows, list
<1>7. PICK m \in Nat : DOMAIN rows = 1..m
  BY <1>5 DEF IsOfEachKey
<1>8. \A i \in 1..m : rows[i].deleted \in BOOLEAN
  BY <1>3, <1>4, <1>5, <1>7 DEF IsOfEachKey
<1>9. \A i, j \in 1..m : rows[i].key = rows[j].key => i = j
  BY <1>5, <1>7 DEF IsOfEachKey
<1> QED BY <1>6, <1>7, <1>8, <1>9 DEF ArePaths, rows

LEMMA SyncAgree ==
  ASSUME NEW l, NEW p, StoresMatch(l, p), NEW input, NEW t \in Int
  PROVE  /\ StoresMatch(SyncCall(l, input, LiteTime(t)).db, SyncCall(p, input, t).db)
         /\ SyncCall(l, input, LiteTime(t)).result = SyncCall(p, input, t).result
<1> DEFINE paths   == SyncPaths(input)
           firstl  == WithDeleted(l.pointers, paths, LiteTime(t))
           firstp  == WithDeleted(p.pointers, paths, t)
           secondl == WithMissing(firstl, input.mode, paths, LiteTime(t))
           secondp == WithMissing(firstp, input.mode, paths, t)
           thirdl  == WithRefreshed(secondl, paths, LiteTime(t))
           thirdp  == WithRefreshed(secondp, paths, t)
           fresh   == FreshPaths(thirdl, l.candidates, input.insertNew, paths)
           lastl   == WithFresh(l.candidates, fresh, paths, LiteTime(t))
           lastp   == WithFresh(p.candidates, fresh, paths, t)
<1>0. TablesAgree(l.pointers, p.pointers, PointerCols) /\ TablesAgree(l.candidates, p.candidates, CandidateCols)
  BY DEF StoresMatch, Tables, Columns
<1>1. DeletedBy(l.pointers, paths) = DeletedBy(p.pointers, paths)
  <2> HIDE DEF paths
  <2> QED BY <1>0, PointersAgree DEF DeletedBy
<1>2. TablesAgree(firstl, firstp, PointerCols) /\ DOMAIN firstl = DOMAIN l.pointers
  <2>1. DOMAIN firstl = DOMAIN l.pointers BY DEF WithDeleted, Set
  <2> HIDE DEF paths
  <2> QED BY <1>0, <1>1, <2>1, StaleValuesAgree, SetAgree DEF WithDeleted
<1> HIDE DEF firstl, firstp
<1>3. MissingIn(firstl, input.mode, paths) = MissingIn(firstp, input.mode, paths)
  <2> HIDE DEF paths
  <2>1. /\ DOMAIN firstl = DOMAIN firstp
        /\ \A k \in DOMAIN firstl : firstl[k].path = firstp[k].path /\ firstl[k].stale = firstp[k].stale
    BY <1>2, PointersAgree
  <2>2. {k \in DOMAIN firstl : ~ firstl[k].stale /\ firstl[k].path \notin PresentPaths(paths)}
          = {k \in DOMAIN firstp : ~ firstp[k].stale /\ firstp[k].path \notin PresentPaths(paths)}
    BY <2>1
  <2> QED BY <2>2 DEF MissingIn
<1>4. TablesAgree(secondl, secondp, PointerCols) /\ DOMAIN secondl = DOMAIN l.pointers
  <2>1. DOMAIN secondl = DOMAIN l.pointers BY <1>2 DEF WithMissing, Set
  <2> HIDE DEF paths
  <2> QED BY <1>2, <1>3, <2>1, StaleValuesAgree, SetAgree DEF WithMissing
<1> HIDE DEF secondl, secondp, paths
<1>5. /\ HitBy(secondl, paths) = HitBy(secondp, paths)
      /\ DOMAIN thirdl = DOMAIN l.pointers
      /\ TablesAgree(thirdl, thirdp, PointerCols)
  BY <1>4, WithRefreshedAgree
<1> HIDE DEF thirdl, thirdp
<1>6. fresh = FreshPaths(thirdp, p.candidates, input.insertNew, paths)
  <2>1. DOMAIN l.candidates = DOMAIN p.candidates BY <1>0 DEF TablesAgree
  <2> QED BY <1>5, <2>1, PointersAgree DEF FreshPaths
<1> HIDE DEF fresh
<1>7. TablesAgree(lastl, lastp, CandidateCols)
  BY <1>0, WithFreshAgree
<1> DEFINE count == [deleted |-> Cardinality(DeletedBy(l.pointers, paths)),
                     missing |-> Cardinality(MissingIn(firstl, input.mode, paths)),
                     updated |-> Cardinality(HitBy(secondl, paths)), candidates |-> Cardinality(fresh)]
<1>8. /\ SyncCall(l, input, LiteTime(t)) = Done([[l EXCEPT !["pointers"] = thirdl] EXCEPT !["candidates"] = lastl], count)
      /\ SyncCall(p, input, t) = Done([[p EXCEPT !["pointers"] = thirdp] EXCEPT !["candidates"] = lastp], count)
  <2>1. SyncCall(l, input, LiteTime(t)) = Done([[l EXCEPT !["pointers"] = thirdl] EXCEPT !["candidates"] = lastl], count)
    BY DEF SyncCall, paths, firstl, secondl, thirdl, fresh
  <2>2. SyncCall(p, input, t) = Done([[p EXCEPT !["pointers"] = thirdp] EXCEPT !["candidates"] = lastp], count)
    BY <1>1, <1>3, <1>5, <1>6 DEF SyncCall, paths, firstp, secondp, thirdp
  <2> QED BY <2>1, <2>2
<1> HIDE DEF lastl, lastp, count
<1>9. IsFiniteSet(DOMAIN thirdl)
  BY <1>5 DEF StoresMatch
<1>10. StoresMatch([l EXCEPT !["pointers"] = thirdl], [p EXCEPT !["pointers"] = thirdp])
  <2>1. Columns["pointers"] = PointerCols /\ "pointers" \in Tables \ {"runs", "attempts", "results"}
    BY DEF Columns, Tables
  <2> QED BY <1>5, <1>9, <2>1, TableChanges
<1>11. StoresMatch([[l EXCEPT !["pointers"] = thirdl] EXCEPT !["candidates"] = lastl],
                   [[p EXCEPT !["pointers"] = thirdp] EXCEPT !["candidates"] = lastp])
  <2>1. Columns["candidates"] = CandidateCols /\ "candidates" \in Tables \ {"runs", "attempts", "results"}
        /\ "candidates" # "pointers"
    BY DEF Columns, Tables
  <2>2. PICK lq, pq : /\ lq = [l EXCEPT !["pointers"] = thirdl] /\ pq = [p EXCEPT !["pointers"] = thirdp]
    OBVIOUS
  <2>3. StoresMatch([lq EXCEPT !["candidates"] = lastl], [pq EXCEPT !["candidates"] = lastp])
    <3>1. StoresMatch(lq, pq) BY <1>10, <2>2
    <3> QED BY <1>7, <2>1, <3>1, TableChanges
  <2> QED BY <2>2, <2>3
<1> QED BY <1>8, <1>11 DEF Done

-------------------------------------------------------------------------------
(* The tables that rows are appended to. *)

LEMMA AppendForm ==
  ASSUME NEW table, NEW Cols, IsTable(table, Cols), NEW n \in Nat, DOMAIN table = 1..n, NEW row
  PROVE  /\ DOMAIN Append(table, row) = 1..(n+1)
         /\ \A i \in 1..n : Append(table, row)[i] = table[i]
         /\ Append(table, row)[n+1] = row
         /\ Append(table, row) = [i \in 1..(n+1) |-> Append(table, row)[i]]
<1> DEFINE S == {table[i] : i \in 1..n} \cup {row}
<1>1. table \in Seq(S)
  <2>1. table \in [1..n -> S] BY DEF IsTable
  <2> QED BY <2>1
<1>2. row \in S
  OBVIOUS
<1>3. Len(table) = n
  BY <1>1
<1> HIDE DEF S
<1> DEFINE u == Append(table, row)
<1>4. u \in Seq(S) /\ Len(u) = n + 1
  BY <1>1, <1>2, <1>3
<1>5. \A i \in 1..n : u[i] = table[i]
  BY <1>1, <1>2, <1>3
<1>6. u[n+1] = row
  BY <1>1, <1>2, <1>3
<1>7. DOMAIN u = 1..(n+1) /\ u = [i \in 1..(n+1) |-> u[i]]
  <2> HIDE DEF u
  <2> QED BY <1>4
<1> QED BY <1>5, <1>6, <1>7

LEMMA AppendAgree ==
  ASSUME NEW Cols, NEW l, NEW p, TablesAgree(l, p, Cols), IsLog(l),
         NEW rl, NEW rp, IsRow(rl, Cols), IsRow(rp, Cols), RowsAgree(rl, rp, Cols)
  PROVE  TablesAgree(Append(l, rl), Append(p, rp), Cols) /\ IsLog(Append(l, rl))
<1> DEFINE u == Append(l, rl)
           v == Append(p, rp)
<1>0. IsTable(l, Cols) /\ IsTable(p, Cols) /\ DOMAIN l = DOMAIN p
  BY DEF TablesAgree
<1>1. PICK n \in Nat : DOMAIN l = 1..n
  BY DEF IsLog
<1>1a. DOMAIN p = 1..n
  BY <1>0, <1>1
<1>2. /\ DOMAIN u = 1..(n+1) /\ u = [i \in 1..(n+1) |-> u[i]]
      /\ \A i \in 1..n : u[i] = l[i]
      /\ u[n+1] = rl
  BY <1>0, <1>1, AppendForm
<1>3. /\ DOMAIN v = 1..(n+1) /\ v = [i \in 1..(n+1) |-> v[i]]
      /\ \A i \in 1..n : v[i] = p[i]
      /\ v[n+1] = rp
  BY <1>0, <1>1a, AppendForm
<1> HIDE DEF u, v
<1>4. ASSUME NEW k \in 1..(n+1)
      PROVE  IsRow(u[k], Cols) /\ IsRow(v[k], Cols) /\ RowsAgree(u[k], v[k], Cols)
  <2>1. CASE k = n + 1 BY <2>1, <1>2, <1>3
  <2>2. CASE k \in 1..n
    <3>1. u[k] = l[k] /\ v[k] = p[k] BY <2>2, <1>2, <1>3
    <3>2. IsRow(l[k], Cols) /\ IsRow(p[k], Cols) /\ RowsAgree(l[k], p[k], Cols)
      BY <2>2, <1>1 DEF TablesAgree, IsTable, IsRow
    <3> QED BY <3>1, <3>2
  <2> QED BY <2>1, <2>2
<1>5. IsTable(u, Cols) /\ IsTable(v, Cols)
  BY <1>2, <1>3, <1>4 DEF IsTable, IsRow
<1>6. n + 1 \in Nat /\ IsLog(u)
  BY <1>2 DEF IsLog
<1> QED BY <1>2, <1>3, <1>4, <1>5, <1>6 DEF TablesAgree, u, v

(* Several rows at once: r is a function of the row's place. *)
LEMMA ConcatForm ==
  ASSUME NEW table, NEW Cols, IsTable(table, Cols), NEW n \in Nat, DOMAIN table = 1..n,
         NEW rows, NEW m \in Nat, rows = [i \in 1..m |-> rows[i]]
  PROVE  /\ DOMAIN (table \o rows) = 1..(n+m)
         /\ \A i \in 1..n : (table \o rows)[i] = table[i]
         /\ \A i \in (n+1)..(n+m) : i - n \in 1..m /\ (table \o rows)[i] = rows[i - n]
         /\ (table \o rows) = [i \in 1..(n+m) |-> (table \o rows)[i]]
<1> DEFINE S == {table[i] : i \in 1..n} \cup {rows[i] : i \in 1..m}
<1>1. table \in Seq(S) /\ rows \in Seq(S)
  <2>1. table \in [1..n -> S] BY DEF IsTable
  <2>2. rows \in [1..m -> S] OBVIOUS
  <2> HIDE DEF S
  <2> QED BY <2>1, <2>2
<1>3. Len(table) = n /\ Len(rows) = m
  BY <1>1
<1> HIDE DEF S
<1> QED BY <1>1, <1>3

LEMMA ConcatAgree ==
  ASSUME NEW Cols, NEW l, NEW p, TablesAgree(l, p, Cols), IsLog(l),
         NEW m \in Nat, NEW rl, NEW rp, rl = [i \in 1..m |-> rl[i]], rp = [i \in 1..m |-> rp[i]],
         \A i \in 1..m : IsRow(rl[i], Cols) /\ IsRow(rp[i], Cols) /\ RowsAgree(rl[i], rp[i], Cols)
  PROVE  TablesAgree(l \o rl, p \o rp, Cols) /\ IsLog(l \o rl)
<1> DEFINE u == l \o rl
           v == p \o rp
<1>0. IsTable(l, Cols) /\ IsTable(p, Cols) /\ DOMAIN l = DOMAIN p
  BY DEF TablesAgree
<1>1. PICK n \in Nat : DOMAIN l = 1..n
  BY DEF IsLog
<1>1a. DOMAIN p = 1..n
  BY <1>0, <1>1
<1>2. /\ DOMAIN u = 1..(n+m) /\ u = [i \in 1..(n+m) |-> u[i]]
      /\ \A i \in 1..n : u[i] = l[i]
      /\ \A i \in (n+1)..(n+m) : i - n \in 1..m /\ u[i] = rl[i - n]
  BY <1>0, <1>1, ConcatForm
<1>3. /\ DOMAIN v = 1..(n+m) /\ v = [i \in 1..(n+m) |-> v[i]]
      /\ \A i \in 1..n : v[i] = p[i]
      /\ \A i \in (n+1)..(n+m) : i - n \in 1..m /\ v[i] = rp[i - n]
  BY <1>0, <1>1a, ConcatForm
<1> HIDE DEF u, v
<1>4. ASSUME NEW k \in 1..(n+m)
      PROVE  IsRow(u[k], Cols) /\ IsRow(v[k], Cols) /\ RowsAgree(u[k], v[k], Cols)
  <2>1. CASE k \in (n+1)..(n+m) BY <2>1, <1>2, <1>3
  <2>2. CASE k \in 1..n
    <3>1. u[k] = l[k] /\ v[k] = p[k] BY <2>2, <1>2, <1>3
    <3>2. IsRow(l[k], Cols) /\ IsRow(p[k], Cols) /\ RowsAgree(l[k], p[k], Cols)
      BY <2>2, <1>1 DEF TablesAgree, IsTable, IsRow
    <3> QED BY <3>1, <3>2
  <2> QED BY <2>1, <2>2
<1>5. IsTable(u, Cols) /\ IsTable(v, Cols)
  BY <1>2, <1>3, <1>4 DEF IsTable, IsRow
<1>6. n + m \in Nat /\ IsLog(u)
  BY <1>2 DEF IsLog
<1> QED BY <1>2, <1>3, <1>4, <1>5, <1>6 DEF TablesAgree, u, v

(* The rows of the other calls. *)
LEMMA ScopeRowsAgree ==
  ASSUME NEW s, NEW t \in Int
  PROVE  /\ IsRow(ScopeRow(s, LiteTime(t)), Columns.receipts) /\ IsRow(ScopeRow(s, t), Columns.receipts)
         /\ RowsAgree(ScopeRow(s, LiteTime(t)), ScopeRow(s, t), Columns.receipts)
<1>1. \A at : IsRow(ScopeRow(s, at), Columns.receipts)
  BY DEF IsRow, ScopeRow, Columns
<1>2. ASSUME NEW c \in Columns.receipts PROVE ScopeRow(s, LiteTime(t))[c] = Seconds(c, ScopeRow(s, t)[c])
  <2>1. CASE c = "created" BY <2>1, Instant DEF ScopeRow, Times
  <2>2. CASE c # "created"
    <3>1. ScopeRow(s, LiteTime(t))[c] = ScopeRow(s, t)[c] /\ c \notin Times
      BY <2>2 DEF ScopeRow, Columns, Times
    <3> QED BY <3>1, Instant
  <2> QED BY <2>1, <2>2
<1> QED BY <1>1, <1>2 DEF RowsAgree

LEMMA RunReceiptsAgree ==
  ASSUME NEW s, NEW t \in Int
  PROVE  /\ IsRow(RunReceipt(s, LiteTime(t)), Columns.receipts) /\ IsRow(RunReceipt(s, t), Columns.receipts)
         /\ RowsAgree(RunReceipt(s, LiteTime(t)), RunReceipt(s, t), Columns.receipts)
<1>1. \A at : IsRow(RunReceipt(s, at), Columns.receipts)
  BY DEF IsRow, RunReceipt, Columns
<1>2. ASSUME NEW c \in Columns.receipts PROVE RunReceipt(s, LiteTime(t))[c] = Seconds(c, RunReceipt(s, t)[c])
  <2>1. CASE c = "created" BY <2>1, Instant DEF RunReceipt, Times
  <2>2. CASE c # "created"
    <3>1. RunReceipt(s, LiteTime(t))[c] = RunReceipt(s, t)[c] /\ c \notin Times
      BY <2>2 DEF RunReceipt, Columns, Times
    <3> QED BY <3>1, Instant
  <2> QED BY <2>1, <2>2
<1> QED BY <1>1, <1>2 DEF RowsAgree

LEMMA RunRowsAgree ==
  ASSUME NEW s, NEW t \in Int, NEW i, NEW j
  PROVE  /\ IsRow(NewRun(s, i, LiteTime(t)), Columns.runs) /\ IsRow(NewRun(s, j, t), Columns.runs)
         /\ RowsAgree(NewRun(s, i, LiteTime(t)), NewRun(s, j, t), Columns.runs)
<1>1. \A id, at : IsRow(NewRun(s, id, at), Columns.runs)
  BY DEF IsRow, NewRun, Columns
<1>2. ASSUME NEW c \in Columns.runs, c # "id" PROVE NewRun(s, i, LiteTime(t))[c] = Seconds(c, NewRun(s, j, t)[c])
  <2>1. CASE c = "created" BY <2>1, Instant DEF NewRun, Times
  <2>2. CASE c # "created"
    <3>1. NewRun(s, i, LiteTime(t))[c] = NewRun(s, j, t)[c] /\ c \notin Times
      BY <1>2, <2>2 DEF NewRun, Columns, Times
    <3> QED BY <3>1, Instant
  <2> QED BY <2>1, <2>2
<1> QED BY <1>1, <1>2 DEF RowsAgree

LEMMA AttemptRowsAgree ==
  ASSUME NEW input, NEW t \in Int, NEW i, NEW j
  PROVE  /\ IsRow(NewAttempt(input, i, LiteTime(t)), Columns.attempts) /\ IsRow(NewAttempt(input, j, t), Columns.attempts)
         /\ RowsAgree(NewAttempt(input, i, LiteTime(t)), NewAttempt(input, j, t), Columns.attempts)
<1>1. \A id, at : IsRow(NewAttempt(input, id, at), Columns.attempts)
  BY DEF IsRow, NewAttempt, Columns
<1>2. ASSUME NEW c \in Columns.attempts, c # "id"
      PROVE NewAttempt(input, i, LiteTime(t))[c] = Seconds(c, NewAttempt(input, j, t)[c])
  <2>1. CASE c = "created" BY <2>1, Instant DEF NewAttempt, Times
  <2>2. CASE c # "created"
    <3>1. NewAttempt(input, i, LiteTime(t))[c] = NewAttempt(input, j, t)[c] /\ c \notin Times
      BY <1>2, <2>2 DEF NewAttempt, Columns, Times
    <3> QED BY <3>1, Instant
  <2> QED BY <2>1, <2>2
<1> QED BY <1>1, <1>2 DEF RowsAgree

LEMMA BatchRowsAgree ==
  ASSUME NEW input, NEW t \in Int
  PROVE  /\ IsRow(NewBatch(input, LiteTime(t)), Columns.batches) /\ IsRow(NewBatch(input, t), Columns.batches)
         /\ RowsAgree(NewBatch(input, LiteTime(t)), NewBatch(input, t), Columns.batches)
<1>1. \A at : IsRow(NewBatch(input, at), Columns.batches)
  BY DEF IsRow, NewBatch, Columns
<1>2. ASSUME NEW c \in Columns.batches
      PROVE NewBatch(input, LiteTime(t))[c] = Seconds(c, NewBatch(input, t)[c])
  <2>1. CASE c = "created" BY <2>1, Instant DEF NewBatch, Times
  <2>2. CASE c # "created"
    <3>1. NewBatch(input, LiteTime(t))[c] = NewBatch(input, t)[c] /\ c \notin Times
      BY <2>2 DEF NewBatch, Columns, Times
    <3> QED BY <3>1, Instant
  <2> QED BY <2>1, <2>2
<1> QED BY <1>1, <1>2 DEF RowsAgree

ItemRow(status, at) == [status |-> status, created |-> at, updated |-> at]
LEMMA ItemRowsAgree ==
  ASSUME NEW status, NEW t \in Int
  PROVE  /\ IsRow(ItemRow(status, LiteTime(t)), Columns.items) /\ IsRow(ItemRow(status, t), Columns.items)
         /\ RowsAgree(ItemRow(status, LiteTime(t)), ItemRow(status, t), Columns.items)
<1>1. \A at : IsRow(ItemRow(status, at), Columns.items)
  BY DEF IsRow, ItemRow, Columns
<1>2. ASSUME NEW c \in Columns.items
      PROVE ItemRow(status, LiteTime(t))[c] = Seconds(c, ItemRow(status, t)[c])
  <2>1. CASE c \in {"created", "updated"}
    <3>1. ItemRow(status, LiteTime(t))[c] = LiteTime(t) /\ ItemRow(status, t)[c] = t /\ c \in Times
      BY <2>1 DEF ItemRow, Times
    <3> QED BY <3>1, Instant
  <2>2. CASE c \notin {"created", "updated"}
    <3>1. ItemRow(status, LiteTime(t))[c] = ItemRow(status, t)[c] /\ c \notin Times
      BY <2>2 DEF ItemRow, Columns, Times
    <3> QED BY <3>1, Instant
  <2> QED BY <2>1, <2>2
<1> QED BY <1>1, <1>2 DEF RowsAgree

TaskRow(task, at) ==
    [status |-> task.status, text |-> task.text, reason |-> task.reason, created |-> at, updated |-> at]
LEMMA TaskRowsAgree ==
  ASSUME NEW task, NEW t \in Int
  PROVE  /\ IsRow(TaskRow(task, LiteTime(t)), Columns.tasks) /\ IsRow(TaskRow(task, t), Columns.tasks)
         /\ RowsAgree(TaskRow(task, LiteTime(t)), TaskRow(task, t), Columns.tasks)
<1>1. \A at : IsRow(TaskRow(task, at), Columns.tasks)
  BY DEF IsRow, TaskRow, Columns
<1>2. ASSUME NEW c \in Columns.tasks
      PROVE TaskRow(task, LiteTime(t))[c] = Seconds(c, TaskRow(task, t)[c])
  <2>1. CASE c \in {"created", "updated"}
    <3>1. TaskRow(task, LiteTime(t))[c] = LiteTime(t) /\ TaskRow(task, t)[c] = t /\ c \in Times
      BY <2>1 DEF TaskRow, Times
    <3> QED BY <3>1, Instant
  <2>2. CASE c \notin {"created", "updated"}
    <3>1. TaskRow(task, LiteTime(t))[c] = TaskRow(task, t)[c] /\ c \notin Times
      BY <2>2 DEF TaskRow, Columns, Times
    <3> QED BY <3>1, Instant
  <2> QED BY <2>1, <2>2
<1> QED BY <1>1, <1>2 DEF RowsAgree

-------------------------------------------------------------------------------
(* The calls on receipts, items, attempts and batches. *)

LEMMA ScopeAgree ==
  ASSUME NEW l, NEW p, StoresMatch(l, p), NEW input, NEW t \in Int
  PROVE  /\ StoresMatch(ScopeCall(l, input, LiteTime(t)).db, ScopeCall(p, input, t).db)
         /\ ScopeCall(l, input, LiteTime(t)).result = ScopeCall(p, input, t).result
<1> DEFINE s == ReceiptScope(input)
           u == Upsert(l.receipts, s.key, ScopeRow(s, LiteTime(t)), ScopeCols)
           v == Upsert(p.receipts, s.key, ScopeRow(s, t), ScopeCols)
<1>1. TablesAgree(l.receipts, p.receipts, Columns.receipts)
  BY DEF StoresMatch, Tables
<1>2. TablesAgree(u, v, Columns.receipts)
  BY <1>1, ScopeRowsAgree, UpsertAgree
<1>3. /\ ScopeCall(l, input, LiteTime(t)) = Done([l EXCEPT !["receipts"] = u], "ok")
      /\ ScopeCall(p, input, t) = Done([p EXCEPT !["receipts"] = v], "ok")
  BY DEF ScopeCall
<1> HIDE DEF u, v
<1>4. StoresMatch([l EXCEPT !["receipts"] = u], [p EXCEPT !["receipts"] = v])
  BY <1>2, TableChanges DEF Tables
<1> QED BY <1>3, <1>4 DEF Done

LEMMA RunAgree ==
  ASSUME NEW l, NEW p, StoresMatch(l, p), NEW input, NEW t \in Int
  PROVE  /\ StoresMatch(RunCall(l, input, LiteTime(t)).db, RunCall(p, input, t).db)
         /\ RunCall(l, input, LiteTime(t)).result = l.nextRun /\ RunCall(p, input, t).result = p.nextRun
<1> DEFINE s  == RunSummary(input)
           u  == Upsert(l.receipts, s.key, RunReceipt(s, LiteTime(t)), RunReceiptCols)
           v  == Upsert(p.receipts, s.key, RunReceipt(s, t), RunReceiptCols)
           ur == Append(l.runs, NewRun(s, l.nextRun, LiteTime(t)))
           vr == Append(p.runs, NewRun(s, p.nextRun, t))
<1>1. /\ TablesAgree(l.receipts, p.receipts, Columns.receipts)
      /\ TablesAgree(l.runs, p.runs, Columns.runs) /\ IsLog(l.runs)
      /\ l.nextRun + 1 \in Nat /\ p.nextRun + 1 \in Nat
  BY DEF StoresMatch, Tables
<1>2. TablesAgree(u, v, Columns.receipts)
  BY <1>1, RunReceiptsAgree, UpsertAgree
<1>3. TablesAgree(ur, vr, Columns.runs) /\ IsLog(ur)
  BY <1>1, RunRowsAgree, AppendAgree
<1> HIDE DEF u, v, ur, vr
<1>4. PICK l1, p1 : /\ l1 = [l EXCEPT !["receipts"] = u] /\ p1 = [p EXCEPT !["receipts"] = v]
  OBVIOUS
<1>5. StoresMatch(l1, p1)
  BY <1>2, <1>4, TableChanges DEF Tables
<1>6. PICK l2, p2 : l2 = [l1 EXCEPT !["runs"] = ur] /\ p2 = [p1 EXCEPT !["runs"] = vr]
  OBVIOUS
<1>7. StoresMatch(l2, p2)
  BY <1>3, <1>5, <1>6, TableChanges DEF Tables
<1>8. PICK l3, p3 : l3 = [l2 EXCEPT !["nextRun"] = l.nextRun + 1] /\ p3 = [p2 EXCEPT !["nextRun"] = p.nextRun + 1]
  OBVIOUS
<1>9. StoresMatch(l3, p3)
  BY <1>1, <1>7, <1>8, CounterChanges
<1>10. ASSUME NEW db, NEW at
       PROVE  RunCall(db, input, at) =
                Done([db EXCEPT !["receipts"] = Upsert(db.receipts, s.key, RunReceipt(s, at), RunReceiptCols),
                                !["runs"] = Append(db.runs, NewRun(s, db.nextRun, at)),
                                !["nextRun"] = db.nextRun + 1], db.nextRun)
  BY DEF RunCall
<1>11. /\ RunCall(l, input, LiteTime(t)) = Done(l3, l.nextRun)
       /\ RunCall(p, input, t) = Done(p3, p.nextRun)
  <2>1. RunCall(l, input, LiteTime(t)) = Done(l3, l.nextRun)
    BY <1>4, <1>6, <1>8, <1>10, Zenon DEF u, ur
  <2>2. RunCall(p, input, t) = Done(p3, p.nextRun)
    BY <1>4, <1>6, <1>8, <1>10, Zenon DEF v, vr
  <2> QED BY <2>1, <2>2
<1> QED BY <1>9, <1>11 DEF Done

LEMMA ItemKeysOnce ==
  ASSUME NEW input \in ItemInputs
  PROVE  \E m \in Nat :
            /\ DOMAIN WorkItems(input.list) = 1..m
            /\ \A i, j \in 1..m : WorkItems(input.list)[i].key = WorkItems(input.list)[j].key => i = j
<1> DEFINE rows == WorkItems(input.list)
<1>1. input.list \in Seq([key : Int, status : Statuses])
  BY InputAssumption
<1>2. Len(input.list) \in Nat /\ DOMAIN input.list = 1..Len(input.list)
      /\ \A i \in 1..Len(input.list) : input.list[i] \in [key : Int, status : Statuses]
  BY <1>1, SeqElements
<1>3. \A i \in 1..Len(input.list) : input.list[i].key \in Int
  BY <1>2
<1>4. IsOfEachKey(rows, input.list) BY <1>2, <1>3, ByKeyOnce DEF WorkItems
<1> HIDE DEF rows
<1>5. \E m \in Nat : DOMAIN rows = 1..m /\ \A i, j \in 1..m : rows[i].key = rows[j].key => i = j
  BY <1>4 DEF IsOfEachKey
<1> QED BY <1>5 DEF rows

LEMMA ItemsAgree ==
  ASSUME NEW l, NEW p, StoresMatch(l, p), NEW input \in ItemInputs, NEW t \in Int
  PROVE  /\ StoresMatch(ItemsCall(l, input.receipt, input.list, LiteTime(t)).db,
                        ItemsCall(p, input.receipt, input.list, t).db)
         /\ ItemsCall(l, input.receipt, input.list, LiteTime(t)).result
              = ItemsCall(p, input.receipt, input.list, t).result
<1> DEFINE rows == WorkItems(input.list)
           el   == ItemEntries(input.receipt, rows, LiteTime(t))
           ep   == ItemEntries(input.receipt, rows, t)
           u    == UpsertEach(l.items, el, ItemCols)
           v    == UpsertEach(p.items, ep, ItemCols)
<1>1. PICK m \in Nat : DOMAIN rows = 1..m /\ \A i, j \in 1..m : rows[i].key = rows[j].key => i = j
  BY ItemKeysOnce
<1> HIDE DEF rows
<1>2. EntriesAgree(el, ep, m, Columns.items)
  <2>1. ASSUME NEW i \in 1..m
        PROVE  /\ el[i].key = <<input.receipt, rows[i].key>> /\ ep[i].key = <<input.receipt, rows[i].key>>
               /\ el[i].row = ItemRow(rows[i].status, LiteTime(t)) /\ ep[i].row = ItemRow(rows[i].status, t)
    BY <1>1 DEF ItemEntries, ItemRow
  <2>2. el = [i \in 1..m |-> el[i]] /\ ep = [i \in 1..m |-> ep[i]]
    BY <1>1 DEF ItemEntries
  <2> HIDE DEF el, ep
  <2>3. \A i \in 1..m : /\ IsRow(el[i].row, Columns.items) /\ IsRow(ep[i].row, Columns.items)
                       /\ RowsAgree(el[i].row, ep[i].row, Columns.items)
    BY <2>1, ItemRowsAgree
  <2>4. \A i, j \in 1..m : el[i].key = el[j].key => i = j
    BY <2>1, <1>1
  <2> QED BY <2>1, <2>2, <2>3, <2>4 DEF EntriesAgree, AreEntries, IsRow
<1>3. TablesAgree(l.items, p.items, Columns.items)
  BY DEF StoresMatch, Tables
<1>4. DOMAIN l.receipts = DOMAIN p.receipts
  BY DEF StoresMatch, Tables, TablesAgree
<1>5. CASE input.list = <<>> \/ input.receipt \notin DOMAIN l.receipts
  <2>1. /\ ItemsCall(l, input.receipt, input.list, LiteTime(t)) = Failed(l)
        /\ ItemsCall(p, input.receipt, input.list, t) = Failed(p)
    BY <1>4, <1>5 DEF ItemsCall
  <2> QED BY <2>1 DEF Failed
<1>6. CASE ~ (input.list = <<>> \/ input.receipt \notin DOMAIN l.receipts)
  <2>1. /\ ItemsCall(l, input.receipt, input.list, LiteTime(t)) = Done([l EXCEPT !["items"] = u], Len(rows))
        /\ ItemsCall(p, input.receipt, input.list, t) = Done([p EXCEPT !["items"] = v], Len(rows))
    BY <1>4, <1>6 DEF ItemsCall, rows
  <2> HIDE DEF el, ep
  <2>2. TablesAgree(u, v, Columns.items)
    BY <1>2, <1>3, UpsertEachAgree
  <2>2a. ArePairs(u)
    <3>1. \A i \in 1..m : el[i].key = <<input.receipt, rows[i].key>>
      BY <1>1 DEF el, ItemEntries
    <3>2. AreEntries(el, m, Columns.items) /\ IsTable(l.items, Columns.items) /\ ArePairs(l.items)
          /\ \A i, j \in 1..m : el[i].key = el[j].key => i = j
      BY <1>2, <1>3 DEF EntriesAgree, TablesAgree, StoresMatch
    <3>3. \A i \in 1..m : el[i].key = <<el[i].key[1], el[i].key[2]>>
      BY <3>1
    <3> QED BY <3>2, <3>3, UpsertEachPairs
  <2> HIDE DEF u, v
  <2>3. StoresMatch([l EXCEPT !["items"] = u], [p EXCEPT !["items"] = v])
    BY <2>2, <2>2a, TableChanges DEF Tables
  <2> QED BY <2>1, <2>3 DEF Done
<1> QED BY <1>5, <1>6

LEMMA AttemptsAgree ==
  ASSUME NEW l, NEW p, StoresMatch(l, p), NEW input, input.created \in Int
  PROVE  /\ StoresMatch(Lite!SaveReviewAttempt(l, input).db, Pg!SaveReviewAttempt(p, input).db)
         /\ (Lite!SaveReviewAttempt(l, input).result = Null) <=> (Pg!SaveReviewAttempt(p, input).result = Null)
<1> DEFINE u == Append(l.attempts, NewAttempt(input, l.nextAttempt, LiteTime(input.created)))
           v == Append(p.attempts, NewAttempt(input, p.nextAttempt, input.created))
<1>1. /\ TablesAgree(l.attempts, p.attempts, Columns.attempts) /\ IsLog(l.attempts)
      /\ l.nextAttempt \in Nat /\ p.nextAttempt \in Nat
      /\ l.nextAttempt + 1 \in Nat /\ p.nextAttempt + 1 \in Nat
      /\ DOMAIN l.receipts = DOMAIN p.receipts
  BY DEF StoresMatch, Tables, TablesAgree
<1>2. CASE ~ AttemptAccepted(input)
  <2>1. Lite!SaveReviewAttempt(l, input) = Failed(l) /\ Pg!SaveReviewAttempt(p, input) = Failed(p)
    BY <1>2 DEF Lite!SaveReviewAttempt, Lite!AttemptAccepted, Lite!Failed,
                Pg!SaveReviewAttempt, Pg!AttemptAccepted, Pg!Failed, AttemptAccepted, Failed
  <2> QED BY <2>1 DEF Failed
<1>3. CASE AttemptAccepted(input) /\ input.receipt \notin DOMAIN l.receipts
  <2>1. Lite!SaveReviewAttempt(l, input) = Failed(l)
    BY <1>3 DEF Lite!SaveReviewAttempt, Lite!Failed, Failed
  <2>2. Pg!SaveReviewAttempt(p, input) = Failed([p EXCEPT !["nextAttempt"] = p.nextAttempt + 1])
    BY <1>1, <1>3 DEF Pg!SaveReviewAttempt, Pg!AttemptAccepted, Pg!Failed, AttemptAccepted, Failed
  <2>3. StoresMatch(l, [p EXCEPT !["nextAttempt"] = p.nextAttempt + 1])
    BY <1>1, CounterChanges
  <2> QED BY <2>1, <2>2, <2>3 DEF Failed
<1>4. CASE AttemptAccepted(input) /\ input.receipt \in DOMAIN l.receipts
  <2>1. TablesAgree(u, v, Columns.attempts) /\ IsLog(u)
    BY <1>1, AttemptRowsAgree, AppendAgree
  <2>2. Lite!SaveReviewAttempt(l, input)
          = Done([l EXCEPT !["attempts"] = u, !["nextAttempt"] = l.nextAttempt + 1], l.nextAttempt)
    BY <1>4 DEF Lite!SaveReviewAttempt, Lite!AttemptAccepted, Lite!Done, Lite!unixepoch,
                AttemptAccepted, Done, NewAttempt, LiteTime
  <2>3. Pg!SaveReviewAttempt(p, input)
          = Done([p EXCEPT !["attempts"] = v, !["nextAttempt"] = p.nextAttempt + 1], p.nextAttempt)
    BY <1>1, <1>4 DEF Pg!SaveReviewAttempt, Pg!AttemptAccepted, Pg!Done, Pg!NOW,
                AttemptAccepted, Done, NewAttempt
  <2> HIDE DEF u, v
  <2>4. PICK l1, p1 : l1 = [l EXCEPT !["attempts"] = u] /\ p1 = [p EXCEPT !["attempts"] = v]
    OBVIOUS
  <2>5. StoresMatch(l1, p1)
    BY <2>1, <2>4, TableChanges DEF Tables
  <2>6. PICK l2, p2 : /\ l2 = [l1 EXCEPT !["nextAttempt"] = l.nextAttempt + 1]
                      /\ p2 = [p1 EXCEPT !["nextAttempt"] = p.nextAttempt + 1]
    OBVIOUS
  <2>7. StoresMatch(l2, p2)
    BY <1>1, <2>5, <2>6, CounterChanges
  <2>8. Lite!SaveReviewAttempt(l, input) = Done(l2, l.nextAttempt)
    BY <2>2, <2>4, <2>6, Zenon
  <2>9. Pg!SaveReviewAttempt(p, input) = Done(p2, p.nextAttempt)
    BY <2>3, <2>4, <2>6, Zenon
  <2>10. l.nextAttempt # Null /\ p.nextAttempt # Null
    BY <1>1, ParityAssumption
  <2> QED BY <2>7, <2>8, <2>9, <2>10 DEF Done
<1> QED BY <1>1, <1>2, <1>3, <1>4

(* A batch: its row, and a row for each of its results. *)
ResultRow(key, result, started, finished) ==
    [batch |-> key, test |-> result.test, status |-> result.status, started |-> started, finished |-> finished]
LEMMA ResultRowsAgree ==
  ASSUME NEW key, NEW result, NEW started \in Int, NEW finished \in Int
  PROVE  /\ IsRow(ResultRow(key, result, LiteTime(started), LiteTime(finished)), Columns.results)
         /\ IsRow(ResultRow(key, result, started, finished), Columns.results)
         /\ RowsAgree(ResultRow(key, result, LiteTime(started), LiteTime(finished)),
                      ResultRow(key, result, started, finished), Columns.results)
<1> DEFINE l == ResultRow(key, result, LiteTime(started), LiteTime(finished))
           p == ResultRow(key, result, started, finished)
<1>1. IsRow(l, Columns.results) /\ IsRow(p, Columns.results)
  BY DEF IsRow, ResultRow, Columns
<1>2. ASSUME NEW c \in Columns.results PROVE l[c] = Seconds(c, p[c])
  <2>1. CASE c = "started" BY <2>1, Instant DEF ResultRow, Times
  <2>2. CASE c = "finished" BY <2>2, Instant DEF ResultRow, Times
  <2>3. CASE c \notin {"started", "finished"}
    <3>1. l[c] = p[c] /\ c \notin Times BY <2>3 DEF ResultRow, Columns, Times
    <3> QED BY <3>1, Instant
  <2> QED BY <2>1, <2>2, <2>3
<1> QED BY <1>1, <1>2 DEF RowsAgree

MaxOf(a, b) == Max({a, b})
LEMMA MaxOfTwo ==
  \A a, b \in Int : MaxOf(a, b) \in Int
<1> SUFFICES ASSUME NEW a \in Int, NEW b \in Int PROVE MaxOf(a, b) \in Int
  OBVIOUS
<1>1. \E x \in {a, b} : \A y \in {a, b} : x >= y
  <2>1. CASE a >= b BY <2>1
  <2>2. CASE ~ (a >= b) BY <2>2
  <2> QED BY <2>1, <2>2
<1>2. (CHOOSE x \in {a, b} : \A y \in {a, b} : x >= y) \in {a, b}
  BY <1>1
<1> QED BY <1>2 DEF MaxOf, Max

LEMMA InsertedRow ==
  ASSUME NEW table, NEW key, key \notin DOMAIN table, NEW row
  PROVE  Joined(table, [k \in {key} |-> row]) = Upsert(table, key, row, {})
BY DEF Joined, Upsert

ResultInputs == [test : STRING, status : STRING, timeout : Int, started : Int, finished : Int]
ResultRows(key, given, m) ==
    [i \in 1..m |-> ResultRow(key, given[i], given[i].started, MaxOf(given[i].finished, given[i].started))]
LiteResultRows(key, given, m) ==
    [i \in 1..m |-> ResultRow(key, given[i], LiteTime(given[i].started),
                              LiteTime(MaxOf(given[i].finished, given[i].started)))]

LEMMA BatchesAgree ==
  ASSUME NEW l, NEW p, StoresMatch(l, p), NEW input, input.created \in Int, input.results \in Seq(ResultInputs)
  PROVE  /\ StoresMatch(Lite!SaveVerificationBatch(l, input).db, Pg!SaveVerificationBatch(p, input).db)
         /\ Lite!SaveVerificationBatch(l, input).result = Pg!SaveVerificationBatch(p, input).result
<1> DEFINE m  == Len(input.results)
           u  == Upsert(l.batches, input.key, NewBatch(input, LiteTime(input.created)), {})
           v  == Upsert(p.batches, input.key, NewBatch(input, input.created), {})
           rl == LiteResultRows(input.key, input.results, m)
           rp == ResultRows(input.key, input.results, m)
           ur == l.results \o rl
           vr == p.results \o rp
<1>1. /\ TablesAgree(l.batches, p.batches, Columns.batches) /\ DOMAIN l.batches = DOMAIN p.batches
      /\ TablesAgree(l.results, p.results, Columns.results) /\ IsLog(l.results)
  BY DEF StoresMatch, Tables, TablesAgree
<1>2. m \in Nat /\ DOMAIN input.results = 1..m /\ \A i \in 1..m : input.results[i] \in ResultInputs
  BY SeqElements
<1>3. CASE ~ BatchAccepted(input) \/ input.key \in DOMAIN l.batches
  <2>1. Lite!SaveVerificationBatch(l, input) = Failed(l) /\ Pg!SaveVerificationBatch(p, input) = Failed(p)
    BY <1>1, <1>3 DEF Lite!SaveVerificationBatch, Lite!BatchAccepted, Lite!Failed,
                Pg!SaveVerificationBatch, Pg!BatchAccepted, Pg!Failed, BatchAccepted, Failed
  <2> QED BY <2>1 DEF Failed
<1>4. CASE ~ (~ BatchAccepted(input) \/ input.key \in DOMAIN l.batches)
  <2>1. ASSUME NEW i \in 1..m
        PROVE  /\ Lite!BatchResults(input)[i] = BatchResults(input)[i] /\ Pg!BatchResults(input)[i] = BatchResults(input)[i]
               /\ BatchResults(input)[i].test = input.results[i].test
               /\ BatchResults(input)[i].status = input.results[i].status
               /\ BatchResults(input)[i].started = input.results[i].started
               /\ BatchResults(input)[i].finished = MaxOf(input.results[i].finished, input.results[i].started)
    <3>1. input.results[i] \in ResultInputs /\ i \in DOMAIN input.results BY <1>2
    <3>2. Lite!BatchResults(input)[i] = BatchResults(input)[i] /\ Pg!BatchResults(input)[i] = BatchResults(input)[i]
      BY DEF Lite!BatchResults, Pg!BatchResults, BatchResults, Lite!Max, Pg!Max, Max
    <3>3. BatchResults(input)[i] = [input.results[i] EXCEPT !.finished =
                                       MaxOf(input.results[i].finished, input.results[i].started)]
      BY <3>1 DEF BatchResults, MaxOf
    <3> HIDE DEF m
    <3> QED BY <3>1, <3>2, <3>3 DEF ResultInputs
  <2>2. /\ DOMAIN Lite!BatchResults(input) = 1..m /\ DOMAIN Pg!BatchResults(input) = 1..m
    BY <1>2 DEF Lite!BatchResults, Pg!BatchResults
  <2>3. Lite!SaveVerificationBatch(l, input) = Done([l EXCEPT !["batches"] = u, !["results"] = ur], "ok")
    <3>1. [i \in DOMAIN Lite!BatchResults(input) |->
              [batch |-> input.key, test |-> Lite!BatchResults(input)[i].test,
               status |-> Lite!BatchResults(input)[i].status,
               started |-> Lite!unixepoch(Lite!BatchResults(input)[i].started),
               finished |-> Lite!unixepoch(Lite!BatchResults(input)[i].finished)]] = rl
      BY <2>1, <2>2 DEF LiteResultRows, ResultRow, Lite!unixepoch, LiteTime
    <3>2. Lite!Joined(l.batches, [k \in {input.key} |-> [receipt |-> input.receipt, status |-> input.status,
                                                         created |-> Lite!unixepoch(input.created)]]) = u
      BY <1>4, InsertedRow, SharedForms DEF NewBatch, Lite!unixepoch, LiteTime
    <3> HIDE DEF rl, u
    <3> QED BY <1>4, <3>1, <3>2
            DEF Lite!SaveVerificationBatch, Lite!BatchAccepted, Lite!Done, BatchAccepted, Done
  <2>4. Pg!SaveVerificationBatch(p, input) = Done([p EXCEPT !["batches"] = v, !["results"] = vr], "ok")
    <3>1. [i \in DOMAIN Pg!BatchResults(input) |->
              [batch |-> input.key, test |-> Pg!BatchResults(input)[i].test,
               status |-> Pg!BatchResults(input)[i].status,
               started |-> Pg!NOW(Pg!BatchResults(input)[i].started),
               finished |-> Pg!NOW(Pg!BatchResults(input)[i].finished)]] = rp
      BY <2>1, <2>2 DEF ResultRows, ResultRow, Pg!NOW
    <3>2. Pg!Joined(p.batches, [k \in {input.key} |-> [receipt |-> input.receipt, status |-> input.status,
                                                       created |-> Pg!NOW(input.created)]]) = v
      BY <1>1, <1>4, InsertedRow, SharedForms DEF NewBatch, Pg!NOW
    <3> HIDE DEF rp, v
    <3> QED BY <1>1, <1>4, <3>1, <3>2
            DEF Pg!SaveVerificationBatch, Pg!BatchAccepted, Pg!Done, BatchAccepted, Done
  <2>5. TablesAgree(u, v, Columns.batches)
    <3> HIDE DEF m
    <3> QED BY <1>1, BatchRowsAgree, UpsertAgree
  <2>6. TablesAgree(ur, vr, Columns.results) /\ IsLog(ur)
    <3>1. \A i \in 1..m : IsRow(rl[i], Columns.results) /\ IsRow(rp[i], Columns.results)
                          /\ RowsAgree(rl[i], rp[i], Columns.results)
      <4> SUFFICES ASSUME NEW i \in 1..m
                   PROVE  IsRow(rl[i], Columns.results) /\ IsRow(rp[i], Columns.results)
                          /\ RowsAgree(rl[i], rp[i], Columns.results)
        OBVIOUS
      <4>1. /\ input.results[i].started \in Int
            /\ MaxOf(input.results[i].finished, input.results[i].started) \in Int
        BY <1>2, MaxOfTwo DEF ResultInputs
      <4>2. /\ rl[i] = ResultRow(input.key, input.results[i], LiteTime(input.results[i].started),
                                 LiteTime(MaxOf(input.results[i].finished, input.results[i].started)))
            /\ rp[i] = ResultRow(input.key, input.results[i], input.results[i].started,
                                 MaxOf(input.results[i].finished, input.results[i].started))
        BY DEF LiteResultRows, ResultRows
      <4> HIDE DEF rl, rp, m
      <4> QED BY <4>1, <4>2, ResultRowsAgree
    <3>2. rl = [i \in 1..m |-> rl[i]] /\ rp = [i \in 1..m |-> rp[i]]
      BY DEF LiteResultRows, ResultRows
    <3> HIDE DEF rl, rp, m
    <3> QED BY <1>1, <1>2, <3>1, <3>2, ConcatAgree
  <2> HIDE DEF u, v, ur, vr, rl, rp, m
  <2>7. PICK l1, p1 : l1 = [l EXCEPT !["batches"] = u] /\ p1 = [p EXCEPT !["batches"] = v]
    OBVIOUS
  <2>8. StoresMatch(l1, p1)
    BY <2>5, <2>7, TableChanges DEF Tables
  <2>9. PICK l2, p2 : l2 = [l1 EXCEPT !["results"] = ur] /\ p2 = [p1 EXCEPT !["results"] = vr]
    OBVIOUS
  <2>10. StoresMatch(l2, p2)
    BY <2>6, <2>8, <2>9, TableChanges DEF Tables
  <2>11. Lite!SaveVerificationBatch(l, input) = Done(l2, "ok")
    BY <2>3, <2>7, <2>9, Zenon
  <2>12. Pg!SaveVerificationBatch(p, input) = Done(p2, "ok")
    BY <2>4, <2>7, <2>9, Zenon
  <2> QED BY <2>10, <2>11, <2>12 DEF Done
<1> QED BY <1>3, <1>4

-------------------------------------------------------------------------------
(* A plan: the tasks that are merged into the stored ones. *)

StoredTask(stored, key) == IF key \in DOMAIN stored THEN stored[key] ELSE NewTask
MergeStep(base, t, key) == IF t.key = key THEN MergeTask(base, t) ELSE base
MergeValues(base, list, n) ==
    {base.status, base.text, base.reason, Blank}
      \cup {list[i].status : i \in 1..n} \cup {list[i].text : i \in 1..n} \cup {list[i].reason : i \in 1..n}
MergedRecords(W, key) == [key : {key}, status : W, text : W, reason : W]

LEMMA MergeStepType ==
  ASSUME NEW W, Blank \in W, NEW key, NEW base, base.status \in W, base.text \in W, base.reason \in W,
         NEW b \in {base} \cup MergedRecords(W, key),
         NEW t, t.status \in W, t.text \in W, t.reason \in W
  PROVE  MergeStep(b, t, key) \in {base} \cup MergedRecords(W, key)
<1>1. b.status \in W /\ b.text \in W /\ b.reason \in W
  BY DEF MergedRecords
<1>2. CASE t.key = key
  <2>1. MergeTask(b, t) \in MergedRecords(W, key)
    BY <1>1, <1>2 DEF MergeTask, OrElse, MergedRecords
  <2> QED BY <1>2, <2>1 DEF MergeStep
<1>3. CASE t.key # key
  BY <1>3 DEF MergeStep
<1> QED BY <1>2, <1>3

MergeRun(acc, stored, list, n, key) ==
    /\ acc[0] = StoredTask(stored, key)
    /\ \A k \in 1..n : acc[k] = MergeStep(acc[k-1], list[k], key)
    /\ MergedTask(stored, list, key) = acc[n]
LEMMA MergeSteps ==
  ASSUME NEW stored, NEW list, NEW n \in Nat, NEW X, list \in Seq(X), Len(list) = n, NEW key
  PROVE  \E acc : MergeRun(acc, stored, list, n, key)
<1> DEFINE base == StoredTask(stored, key)
           W == MergeValues(base, list, n)
           V == {base} \cup MergedRecords(W, key)
           E == {list[i] : i \in 1..n}
           step == [b \in V |-> [e \in E |-> MergeStep(b, e, key)]]
           Folds(f) == f = [s \in SUBSET DOMAIN list |->
                                IF s = {} THEN base ELSE MergeStep(f[s \ {Max(s)}], list[Max(s)], key)]
           it == CHOOSE f : Folds(f)
<1>0. /\ DOMAIN list = 1..n /\ list \in Seq(E)
      /\ \A i \in 1..n : list[i] \in E
  <2>1. DOMAIN list = 1..n OBVIOUS
  <2>2. \A i \in 1..n : list[i] \in E OBVIOUS
  <2>3. list \in [1..n -> E]
    <3>1. list = [i \in 1..n |-> list[i]] OBVIOUS
    <3> HIDE DEF E
    <3> QED BY <3>1, <2>2
  <2> HIDE DEF E
  <2> QED BY <2>1, <2>2, <2>3
<1>1. MergedTask(stored, list, key) = it[1..n]
  BY <1>0, Zenon DEF MergedTask, FoldLeft, MapThenFoldSet, StoredTask, MergeStep
<1>a. base \in V
  OBVIOUS
<1>b. /\ Blank \in W /\ base.status \in W /\ base.text \in W /\ base.reason \in W
      /\ \A e \in E : e.status \in W /\ e.text \in W /\ e.reason \in W
  <2> HIDE DEF base
  <2> QED BY DEF MergeValues
<1>c. step \in [V -> [E -> V]]
  <2> HIDE DEF W, E, base
  <2>1. ASSUME NEW b \in V, NEW e \in E PROVE MergeStep(b, e, key) \in V
    BY <1>b, MergeStepType
  <2> HIDE DEF V
  <2> QED BY <2>1
<1>2. \E f : Folds(f)
  <2> HIDE DEF V, base
  <2>1. PICK f : IsFoldTable(f, V, step, base, list)
    <3> HIDE DEF step, E
    <3> QED BY <1>0, <1>a, <1>c, FoldTableExists
  <2>1a. /\ f \in [SUBSET (1..n) -> V]
         /\ \A s \in SUBSET (1..n) :
               f[s] = IF s = {} THEN base ELSE step[f[s \ {Max(s)}]][list[Max(s)]]
    <3> HIDE DEF step, E
    <3> QED BY <2>1, <1>0 DEF IsFoldTable
  <2>2. ASSUME NEW s \in SUBSET (1..n)
        PROVE  f[s] = IF s = {} THEN base ELSE MergeStep(f[s \ {Max(s)}], list[Max(s)], key)
    <3>1. CASE s # {}
      <4>1. Max(s) \in 1..n BY <3>1, MaxInSet
      <4>2. f[s \ {Max(s)}] \in V BY <2>1a
      <4>3. list[Max(s)] \in E BY <4>1, <1>0
      <4>4. f[s] = step[f[s \ {Max(s)}]][list[Max(s)]] BY <3>1, <2>1a
      <4>5. step[f[s \ {Max(s)}]][list[Max(s)]] = MergeStep(f[s \ {Max(s)}], list[Max(s)], key)
        <5> HIDE DEF E
        <5> QED BY <4>2, <4>3
      <4> HIDE DEF E, step
      <4> QED BY <3>1, <4>4, <4>5
    <3>2. CASE s = {}
      <4>1. f[s] = base
        <5> HIDE DEF E, step
        <5> QED BY <3>2, <2>1a
      <4> QED BY <3>2, <4>1
    <3> QED BY <3>1, <3>2
  <2>3. f = [s \in SUBSET (1..n) |-> f[s]]
    <3> HIDE DEF E, step
    <3> QED BY <2>1a
  <2>4. f = [s \in SUBSET DOMAIN list |->
                IF s = {} THEN base ELSE MergeStep(f[s \ {Max(s)}], list[Max(s)], key)]
    <3> HIDE DEF E, step
    <3> QED BY <2>2, <2>3, <1>0
  <2> QED BY <2>4
<1>3. Folds(it)
  <2> HIDE DEF Folds
  <2> QED BY <1>2
<1> DEFINE acc == [k \in 0..n |-> it[1..k]]
<1>4. acc[0] = base
  <2>1. 1..0 = {} /\ {} \in SUBSET (1..n) OBVIOUS
  <2> HIDE DEF it, base
  <2> QED BY <1>0, <1>3, <2>1
<1>5. ASSUME NEW k \in 1..n
      PROVE  acc[k] = MergeStep(acc[k-1], list[k], key)
  <2>1. /\ 1..k \in SUBSET (1..n) /\ 1..k # {}
        /\ Max(1..k) = k /\ (1..k) \ {k} = 1..(k-1)
    BY MaxOfPrefix
  <2>2. it[1..k] = MergeStep(it[(1..k) \ {Max(1..k)}], list[Max(1..k)], key)
    <3> HIDE DEF it
    <3> QED BY <1>0, <1>3, <2>1
  <2>3. k \in 0..n /\ k - 1 \in 0..n
    OBVIOUS
  <2> HIDE DEF it
  <2> QED BY <2>1, <2>2, <2>3
<1>6. acc[n] = MergedTask(stored, list, key)
  BY <1>1
<1> HIDE DEF acc
<1>7. MergeRun(acc, stored, list, n, key)
  BY <1>4, <1>5, <1>6 DEF MergeRun
<1> QED BY <1>7

(* What is stored of the tasks of a plan, as far as a merge can tell. *)
TaskAlike(a, b) == a.status = b.status /\ a.text = b.text /\ a.reason = b.reason
TasksAlike(s, t) == DOMAIN s = DOMAIN t /\ \A k \in DOMAIN s : TaskAlike(s[k], t[k])

LEMMA MergeAlike ==
  ASSUME NEW a, NEW b, TaskAlike(a, b), NEW task
  PROVE  MergeTask(a, task) = MergeTask(b, task) /\ MergeTask(a, task).key = task.key
BY DEF TaskAlike, MergeTask

(* Equal entries, merged into tasks that are alike, leave the same task. *)
LEMMA MergedAlike ==
  ASSUME NEW s, NEW t, TasksAlike(s, t), NEW list, NEW n \in Nat, NEW X, list \in Seq(X), Len(list) = n,
         NEW key \in KeysOf(list)
  PROVE  MergedTask(s, list, key) = MergedTask(t, list, key) /\ MergedTask(s, list, key).key = key
<1>0. /\ \E a : MergeRun(a, s, list, n, key)
      /\ \E b : MergeRun(b, t, list, n, key)
  BY MergeSteps
<1>1. PICK a : /\ a[0] = StoredTask(s, key)
               /\ \A k \in 1..n : a[k] = MergeStep(a[k-1], list[k], key)
               /\ MergedTask(s, list, key) = a[n]
  BY <1>0 DEF MergeRun
<1>2. PICK b : /\ b[0] = StoredTask(t, key)
               /\ \A k \in 1..n : b[k] = MergeStep(b[k-1], list[k], key)
               /\ MergedTask(t, list, key) = b[n]
  BY <1>0 DEF MergeRun
<1> DEFINE Good(k) == /\ TaskAlike(a[k], b[k])
                      /\ (\E i \in 1..k : list[i].key = key) => a[k] = b[k] /\ a[k].key = key
           T == {k \in Nat : k <= n => Good(k)}
<1>3. Good(0)
  BY <1>1, <1>2 DEF StoredTask, TasksAlike, TaskAlike
<1>4. ASSUME NEW m \in Nat, m + 1 <= n, Good(m) PROVE Good(m + 1)
  <2>1. /\ m + 1 \in 1..n /\ (m + 1) - 1 = m
        /\ a[m+1] = MergeStep(a[m], list[m+1], key) /\ b[m+1] = MergeStep(b[m], list[m+1], key)
    <3>1. m + 1 \in 1..n /\ (m + 1) - 1 = m BY <1>4
    <3> QED BY <3>1, <1>1, <1>2
  <2>2. CASE list[m+1].key = key
    <3>1. a[m+1] = b[m+1] /\ a[m+1].key = key
      BY <2>1, <2>2, <1>4, MergeAlike DEF MergeStep
    <3> QED BY <3>1 DEF TaskAlike
  <2>3. CASE list[m+1].key # key
    <3>1. a[m+1] = a[m] /\ b[m+1] = b[m] BY <2>1, <2>3 DEF MergeStep
    <3>2. \A i \in 1..(m+1) : i \in 1..m \/ i = m + 1 OBVIOUS
    <3> QED BY <3>1, <3>2, <2>3, <1>4
  <2> QED BY <2>2, <2>3
<1>5. n \in T
  <2>1. 0 \in T BY <1>3
  <2>2. ASSUME NEW m \in Nat, m \in T PROVE m + 1 \in T
    <3> SUFFICES ASSUME m + 1 <= n PROVE Good(m + 1)
      OBVIOUS
    <3>1. m <= n /\ Good(m)
      <4> HIDE DEF Good
      <4> QED BY <2>2
    <3> HIDE DEF Good
    <3> QED BY <3>1, <1>4
  <2> HIDE DEF T
  <2> QED BY <2>1, <2>2, Induction
<1>6. \E i \in 1..n : list[i].key = key
  BY DEF KeysOf
<1> QED BY <1>1, <1>2, <1>5, <1>6

IncomingOnce(rows, list) ==
    /\ \E m \in Nat : DOMAIN rows = 1..m
    /\ \A i, j \in DOMAIN rows : rows[i].key = rows[j].key => i = j
    /\ \A i \in DOMAIN rows : rows[i].key \in KeysOf(list)
LEMMA IncomingAlike ==
  ASSUME NEW s, NEW t, TasksAlike(s, t), NEW input \in PlanInputs
  PROVE  /\ IncomingTasks(s, input) = IncomingTasks(t, input)
         /\ IncomingOnce(IncomingTasks(s, input), input.tasks)
<1> DEFINE list == input.tasks
           X == [key : Int, status : Optional(Statuses), text : Text, reason : Optional(STRING)]
           n == Len(list)
           ks == SortedKeys(list)
<1>1. list \in Seq(X) /\ input.mode \in {"merge", "replace"}
  BY InputAssumption
<1>2. n \in Nat /\ DOMAIN list = 1..n /\ \A i \in 1..n : list[i] \in X
  BY <1>1, SeqElements
<1>3. \A i \in 1..n : list[i].key \in Int
  BY <1>2
<1> HIDE DEF X
<1>4. CASE input.mode = "replace"
  <2> DEFINE new == [i \in DOMAIN list |-> MergeTask(NewTask, list[i])]
  <2>1. IncomingTasks(s, input) = ByKey(new, OpenFirst) /\ IncomingTasks(t, input) = ByKey(new, OpenFirst)
    BY <1>4 DEF IncomingTasks
  <2>2. DOMAIN new = 1..n /\ \A i \in 1..n : new[i].key = list[i].key
    BY <1>2 DEF MergeTask
  <2> HIDE DEF new
  <2>3. \A i \in 1..n : new[i].key \in Int BY <2>2, <1>3
  <2>4. IsOfEachKey(ByKey(new, OpenFirst), new) BY <1>2, <2>2, <2>3, ByKeyOnce
  <2>5. KeysOf(new) = KeysOf(list) BY <2>2, <1>2 DEF KeysOf
  <2> DEFINE rows == ByKey(new, OpenFirst)
  <2>6. \A i \in DOMAIN rows : rows[i].key \in KeysOf(rows) BY DEF KeysOf
  <2> HIDE DEF rows
  <2>7. IncomingOnce(rows, list) BY <2>4, <2>5, <2>6 DEF IsOfEachKey, IncomingOnce, rows
  <2> QED BY <2>1, <2>7 DEF rows
<1>5. CASE input.mode # "replace"
  <2>1. /\ IncomingTasks(s, input) = [i \in DOMAIN ks |-> MergedTask(s, list, ks[i])]
        /\ IncomingTasks(t, input) = [i \in DOMAIN ks |-> MergedTask(t, list, ks[i])]
    BY <1>5 DEF IncomingTasks
  <2>2. PICK m \in Nat :
            /\ DOMAIN ks = 1..m
            /\ \A i \in 1..m : ks[i] \in KeysOf(list)
            /\ \A i, j \in 1..m : ks[i] = ks[j] => i = j
    BY <1>2, <1>3, SortedKeysOnce
  <2> HIDE DEF ks
  <2>3. ASSUME NEW i \in 1..m
        PROVE  MergedTask(s, list, ks[i]) = MergedTask(t, list, ks[i]) /\ MergedTask(s, list, ks[i]).key = ks[i]
    <3>1. ks[i] \in KeysOf(list) BY <2>2
    <3> HIDE DEF list
    <3> QED BY <3>1, <1>1, <1>2, MergedAlike
  <2>4. IncomingTasks(s, input) = IncomingTasks(t, input)
    BY <2>1, <2>2, <2>3
  <2> DEFINE rows == IncomingTasks(s, input)
  <2>5. DOMAIN rows = 1..m /\ \A i \in 1..m : rows[i].key = ks[i]
    BY <2>1, <2>2, <2>3
  <2> HIDE DEF rows
  <2>6. IncomingOnce(rows, list)
    BY <2>2, <2>5 DEF IncomingOnce
  <2> QED BY <2>4, <2>6 DEF rows
<1> QED BY <1>4, <1>5

LEMMA TaskEntriesAgree ==
  ASSUME NEW plan, NEW rows, NEW m \in Nat, DOMAIN rows = 1..m,
         \A i, j \in 1..m : rows[i].key = rows[j].key => i = j, NEW t \in Int
  PROVE  EntriesAgree(TaskEntries(plan, rows, LiteTime(t)), TaskEntries(plan, rows, t), m, Columns.tasks)
<1> DEFINE el == TaskEntries(plan, rows, LiteTime(t))
           ep == TaskEntries(plan, rows, t)
<1>1. ASSUME NEW i \in 1..m
      PROVE  /\ el[i].key = <<plan, rows[i].key>> /\ ep[i].key = <<plan, rows[i].key>>
             /\ el[i].row = TaskRow(rows[i], LiteTime(t)) /\ ep[i].row = TaskRow(rows[i], t)
  BY DEF TaskEntries, TaskRow
<1>2. el = [i \in 1..m |-> el[i]] /\ ep = [i \in 1..m |-> ep[i]]
  BY DEF TaskEntries
<1> HIDE DEF el, ep
<1>3. \A i \in 1..m : /\ IsRow(el[i].row, Columns.tasks) /\ IsRow(ep[i].row, Columns.tasks)
                     /\ RowsAgree(el[i].row, ep[i].row, Columns.tasks)
  BY <1>1, TaskRowsAgree
<1>4. \A i, j \in 1..m : el[i].key = el[j].key => i = j
  BY <1>1
<1>5. EntriesAgree(el, ep, m, Columns.tasks)
  BY <1>1, <1>2, <1>3, <1>4 DEF EntriesAgree, AreEntries, IsRow
<1> QED BY <1>5 DEF el, ep

LEMMA NextPlanAgree ==
  ASSUME NEW l, NEW p, StoresMatch(l, p), NEW input
  PROVE  NextPlan(PlanNow(l, input), input) = NextPlan(PlanNow(p, input), input)
<1>1. TablesAgree(l.plans, p.plans, Columns.plans)
  BY DEF StoresMatch, Tables
<1>2. /\ DOMAIN l.plans = DOMAIN p.plans
      /\ \A k \in DOMAIN l.plans : \A c \in Columns.plans \ (Times \cup {"id"}) : l.plans[k][c] = p.plans[k][c]
  BY <1>1, ValuesAgree
<1>3. {"receipt", "text", "kind", "status", "stages"} \subseteq Columns.plans \ (Times \cup {"id"})
  BY DEF Columns, Times
<1>4. CASE input.key \in DOMAIN l.plans
  <2>1. \A c \in {"receipt", "text", "kind", "status", "stages"} :
            l.plans[input.key][c] = p.plans[input.key][c]
    BY <1>2, <1>3, <1>4
  <2> QED BY <2>1, <1>2, <1>4 DEF PlanNow, NextPlan
<1>5. CASE input.key \notin DOMAIN l.plans
  BY <1>2, <1>5 DEF PlanNow
<1> QED BY <1>4, <1>5

PlanRecord(next, at) ==
    [receipt |-> next.receipt, text |-> next.text, kind |-> next.kind, status |-> next.status,
     stages |-> next.stages, created |-> at, updated |-> at]
LEMMA PlanRowsAgree ==
  ASSUME NEW base, NEW input, NEW t \in Int
  PROVE  /\ IsRow(PlanRow(NextPlan(base, input), LiteTime(t)), Columns.plans)
         /\ IsRow(PlanRow(NextPlan(base, input), t), Columns.plans)
         /\ RowsAgree(PlanRow(NextPlan(base, input), LiteTime(t)), PlanRow(NextPlan(base, input), t), Columns.plans)
<1>1. PICK r, x, k, s, g : NextPlan(base, input) = [receipt |-> r, text |-> x, kind |-> k, status |-> s, stages |-> g]
  BY DEF NextPlan
<1> DEFINE row(at) == PlanRecord([receipt |-> r, text |-> x, kind |-> k, status |-> s, stages |-> g], at)
<1>2. \A at : PlanRow(NextPlan(base, input), at) = row(at)
  BY <1>1 DEF PlanRow, PlanRecord, Joined
<1>3. \A at : IsRow(row(at), Columns.plans)
  BY DEF IsRow, PlanRecord, Columns
<1>4. ASSUME NEW c \in Columns.plans PROVE row(LiteTime(t))[c] = Seconds(c, row(t)[c])
  <2>1. CASE c \in {"created", "updated"}
    <3>1. row(LiteTime(t))[c] = LiteTime(t) /\ row(t)[c] = t /\ c \in Times
      BY <2>1 DEF PlanRecord, Times
    <3> QED BY <3>1, Instant
  <2>2. CASE c \notin {"created", "updated"}
    <3>1. row(LiteTime(t))[c] = row(t)[c] /\ c \notin Times
      BY <2>2 DEF PlanRecord, Columns, Times
    <3> QED BY <3>1, Instant
  <2> QED BY <2>1, <2>2
<1> HIDE DEF row
<1> QED BY <1>2, <1>3, <1>4 DEF RowsAgree

WithStatus(table, key, status) == [table EXCEPT ![key] = [@ EXCEPT !.status = status]]
LEMMA StatusAgree ==
  ASSUME NEW u, NEW v, NEW Cols, TablesAgree(u, v, Cols), NEW key, NEW status, "status" \in Cols
  PROVE  TablesAgree(WithStatus(u, key, status), WithStatus(v, key, status), Cols)
<1> DEFINE x == WithStatus(u, key, status)
           y == WithStatus(v, key, status)
<1>1. /\ DOMAIN x = DOMAIN u /\ x = [k \in DOMAIN x |-> x[k]]
      /\ DOMAIN y = DOMAIN v /\ y = [k \in DOMAIN y |-> y[k]]
      /\ \A k \in DOMAIN u : x[k] = IF k = key THEN [u[k] EXCEPT !.status = status] ELSE u[k]
      /\ \A k \in DOMAIN v : y[k] = IF k = key THEN [v[k] EXCEPT !.status = status] ELSE v[k]
  BY DEF WithStatus
<1> HIDE DEF x, y
<1>2. DOMAIN u = DOMAIN v
  BY DEF TablesAgree
<1>3. ASSUME NEW k \in DOMAIN u
      PROVE  IsRow(x[k], Cols) /\ IsRow(y[k], Cols) /\ RowsAgree(x[k], y[k], Cols)
  <2>1. IsRow(u[k], Cols) /\ IsRow(v[k], Cols) /\ RowsAgree(u[k], v[k], Cols)
    BY DEF TablesAgree, IsTable, IsRow
  <2>2. CASE k = key
    <3>1. /\ x[k] = [c \in Cols |-> IF c = "status" THEN status ELSE u[k][c]]
          /\ y[k] = [c \in Cols |-> IF c = "status" THEN status ELSE v[k][c]]
      BY <1>1, <1>2, <2>1, <2>2 DEF IsRow
    <3>2. Seconds("status", status) = status
      BY Instant DEF Times
    <3> QED BY <2>1, <3>1, <3>2 DEF IsRow, RowsAgree
  <2>3. CASE k # key
    <3>1. x[k] = u[k] /\ y[k] = v[k] BY <1>1, <1>2, <2>3
    <3> QED BY <2>1, <3>1
  <2> QED BY <2>2, <2>3
<1>4. IsTable(x, Cols) /\ IsTable(y, Cols)
  BY <1>1, <1>2, <1>3 DEF IsTable, IsRow
<1> QED BY <1>1, <1>2, <1>3, <1>4 DEF TablesAgree, x, y

LEMMA StatusesAgree ==
  ASSUME NEW l, NEW p, TablesAgree(l.tasks, p.tasks, Columns.tasks), ArePairs(l.tasks), NEW plan
  PROVE  /\ TasksAlike(TasksAt(l, plan), TasksAt(p, plan))
         /\ StatusesAt(l, plan) = StatusesAt(p, plan)
<1>1. /\ DOMAIN l.tasks = DOMAIN p.tasks
      /\ \A k \in DOMAIN l.tasks : \A c \in Columns.tasks \ (Times \cup {"id"}) : l.tasks[k][c] = p.tasks[k][c]
  BY ValuesAgree
<1>2. {"status", "text", "reason"} \subseteq Columns.tasks \ (Times \cup {"id"})
  BY DEF Columns, Times
<1>3. ASSUME NEW k \in DOMAIN l.tasks
      PROVE  \A c \in {"status", "text", "reason"} : l.tasks[k][c] = p.tasks[k][c]
  BY <1>1, <1>2
<1>4. \A k \in DOMAIN l.tasks : TaskAlike(l.tasks[k], p.tasks[k])
  BY <1>3 DEF TaskAlike
<1>5. PICK q : q = {k[2] : k \in {x \in DOMAIN l.tasks : x[1] = plan}}
  OBVIOUS
<1>6. TasksAt(l, plan) = [t \in q |-> l.tasks[<<plan, t>>]] /\ TasksAt(p, plan) = [t \in q |-> p.tasks[<<plan, t>>]]
  BY <1>1, <1>5 DEF TasksAt
<1>7. \A t \in q : <<plan, t>> \in DOMAIN l.tasks
  BY <1>5 DEF ArePairs
<1>8. \A t \in q : TaskAlike(l.tasks[<<plan, t>>], p.tasks[<<plan, t>>])
  BY <1>4, <1>7
<1> HIDE DEF TaskAlike
<1>9. TasksAlike(TasksAt(l, plan), TasksAt(p, plan))
  BY <1>6, <1>8 DEF TasksAlike
<1>10. \A t \in q : l.tasks[<<plan, t>>].status = p.tasks[<<plan, t>>].status
  BY <1>8 DEF TaskAlike
<1>11. StatusesAt(l, plan) = {l.tasks[<<plan, t>>].status : t \in q}
  BY <1>6 DEF StatusesAt
<1>12. StatusesAt(p, plan) = {p.tasks[<<plan, t>>].status : t \in q}
  BY <1>6 DEF StatusesAt
<1> QED BY <1>9, <1>10, <1>11, <1>12

LEMMA StoredAlike ==
  ASSUME NEW l, NEW p, StoresMatch(l, p), NEW input
  PROVE  TasksAlike(StoredTasks(l, input), StoredTasks(p, input))
<1>1. TablesAgree(l.tasks, p.tasks, Columns.tasks) /\ ArePairs(l.tasks) /\ DOMAIN l.plans = DOMAIN p.plans
  BY DEF StoresMatch, Tables, TablesAgree
<1>2. TasksAlike(TasksAt(l, input.key), TasksAt(p, input.key))
  BY <1>1, StatusesAgree
<1>3. TasksAlike([t \in {} |-> t], [t \in {} |-> t])
  BY DEF TasksAlike
<1> QED BY <1>1, <1>2, <1>3 DEF StoredTasks

PlanTable(db, input, at) ==
    Upsert(db.plans, input.key, PlanRow(NextPlan(PlanNow(db, input), input), at), PlanCols)
LEMMA PlanTablesAgree ==
  ASSUME NEW l, NEW p, StoresMatch(l, p), NEW input, NEW t \in Int
  PROVE  TablesAgree(PlanTable(l, input, LiteTime(t)), PlanTable(p, input, t), Columns.plans)
<1>1. TablesAgree(l.plans, p.plans, Columns.plans)
  BY DEF StoresMatch, Tables
<1> QED BY <1>1, NextPlanAgree, PlanRowsAgree, UpsertAgree DEF PlanTable

LEMMA TaskTablesAgree ==
  ASSUME NEW l, NEW p, StoresMatch(l, p), NEW input \in PlanInputs, NEW t \in Int
  PROVE  /\ TablesAgree(TasksWritten(l.tasks, l, input, LiteTime(t)), TasksWritten(p.tasks, p, input, t),
                        Columns.tasks)
         /\ ArePairs(TasksWritten(l.tasks, l, input, LiteTime(t)))
<1> DEFINE rows == IncomingTasks(StoredTasks(l, input), input)
           el == TaskEntries(input.key, rows, LiteTime(t))
           ep == TaskEntries(input.key, rows, t)
           dl == Delete(l.tasks, DoomedTasks(l, input))
           dp == Delete(p.tasks, DoomedTasks(p, input))
<1>1. IncomingTasks(StoredTasks(p, input), input) = rows /\ IncomingOnce(rows, input.tasks)
  BY StoredAlike, IncomingAlike
<1>2. PICK m \in Nat : DOMAIN rows = 1..m /\ \A i, j \in 1..m : rows[i].key = rows[j].key => i = j
  <2> HIDE DEF rows
  <2> QED BY <1>1 DEF IncomingOnce
<1>3. /\ TasksWritten(l.tasks, l, input, LiteTime(t)) = UpsertEach(dl, el, TaskCols)
      /\ TasksWritten(p.tasks, p, input, t) = UpsertEach(dp, ep, TaskCols)
  BY <1>1 DEF TasksWritten
<1> HIDE DEF rows
<1>4. EntriesAgree(el, ep, m, Columns.tasks)
  BY <1>2, TaskEntriesAgree
<1>5. /\ TablesAgree(l.tasks, p.tasks, Columns.tasks) /\ ArePairs(l.tasks)
      /\ DoomedTasks(l, input) = DoomedTasks(p, input)
  BY DEF StoresMatch, Tables, TablesAgree, DoomedTasks
<1>6. TablesAgree(dl, dp, Columns.tasks)
  BY <1>5, DeleteAgree
<1>7. \A i \in 1..m : el[i].key = <<input.key, rows[i].key>>
  BY <1>2 DEF TaskEntries
<1>8. ArePairs(dl)
  BY <1>5 DEF ArePairs, Delete
<1> HIDE DEF el, ep, dl, dp
<1>9. TablesAgree(UpsertEach(dl, el, TaskCols), UpsertEach(dp, ep, TaskCols), Columns.tasks)
  BY <1>4, <1>6, UpsertEachAgree
<1>10. /\ IsTable(dl, Columns.tasks) /\ AreEntries(el, m, Columns.tasks)
       /\ \A i, j \in 1..m : el[i].key = el[j].key => i = j
  BY <1>4, <1>6 DEF EntriesAgree, TablesAgree
<1>11. \A i \in 1..m : el[i].key = <<el[i].key[1], el[i].key[2]>>
  BY <1>7
<1>12. ArePairs(UpsertEach(dl, el, TaskCols))
  BY <1>8, <1>10, <1>11, UpsertEachPairs
<1> QED BY <1>3, <1>9, <1>12

LEMMA PlanAgree ==
  ASSUME NEW l, NEW p, StoresMatch(l, p), NEW input \in PlanInputs, NEW t \in Int
  PROVE  /\ StoresMatch(PlanCall(l, input, LiteTime(t)).db, PlanCall(p, input, t).db)
         /\ PlanCall(l, input, LiteTime(t)).result = PlanCall(p, input, t).result
<1> DEFINE u  == PlanTable(l, input, LiteTime(t))
           v  == PlanTable(p, input, t)
           ut == TasksWritten(l.tasks, l, input, LiteTime(t))
           vt == TasksWritten(p.tasks, p, input, t)
           n(db) == Cardinality(DoomedTasks(db, input)) + Len(IncomingTasks(StoredTasks(db, input), input))
<1>1. TablesAgree(u, v, Columns.plans)
  BY PlanTablesAgree
<1>2. TablesAgree(ut, vt, Columns.tasks) /\ ArePairs(ut)
  BY TaskTablesAgree
<1>3. n(l) = n(p)
  <2>1. DoomedTasks(l, input) = DoomedTasks(p, input)
    BY DEF StoresMatch, Tables, TablesAgree, DoomedTasks
  <2>2. IncomingTasks(StoredTasks(l, input), input) = IncomingTasks(StoredTasks(p, input), input)
    BY StoredAlike, IncomingAlike
  <2> QED BY <2>1, <2>2
<1>4. /\ PlanWritten(l, input, LiteTime(t)) = [l EXCEPT !["plans"] = u, !["tasks"] = ut]
      /\ PlanWritten(p, input, t) = [p EXCEPT !["plans"] = v, !["tasks"] = vt]
  BY DEF PlanWritten, PlanTable
<1> HIDE DEF u, v, ut, vt
<1>5. PICK l1, p1 : l1 = [l EXCEPT !["plans"] = u] /\ p1 = [p EXCEPT !["plans"] = v]
  OBVIOUS
<1>6. StoresMatch(l1, p1)
  BY <1>1, <1>5, TableChanges DEF Tables
<1>7. PICK l2, p2 : l2 = [l1 EXCEPT !["tasks"] = ut] /\ p2 = [p1 EXCEPT !["tasks"] = vt]
  OBVIOUS
<1>8. StoresMatch(l2, p2)
  BY <1>2, <1>6, <1>7, TableChanges DEF Tables
<1>9. PlanWritten(l, input, LiteTime(t)) = l2 /\ PlanWritten(p, input, t) = p2
  BY <1>4, <1>5, <1>7, Zenon
<1>10. CASE input.status # Blank
  <2>1. PlanCall(l, input, LiteTime(t)) = Done(l2, n(l)) /\ PlanCall(p, input, t) = Done(p2, n(p))
    BY <1>9, <1>10 DEF PlanCall
  <2> HIDE DEF n
  <2> QED BY <1>3, <1>8, <2>1 DEF Done
<1>11. CASE input.status = Blank
  <2>1. TablesAgree(l2.plans, p2.plans, Columns.plans) /\ TablesAgree(l2.tasks, p2.tasks, Columns.tasks)
        /\ ArePairs(l2.tasks)
    BY <1>8 DEF StoresMatch, Tables
  <2>2. StatusesAt(l2, input.key) = StatusesAt(p2, input.key)
    BY <2>1, StatusesAgree
  <2>3. PICK s : s = DerivePlanStatus(StatusesAt(l2, input.key))
    OBVIOUS
  <2>4. PICK lu, pu : lu = WithStatus(l2.plans, input.key, s) /\ pu = WithStatus(p2.plans, input.key, s)
    OBVIOUS
  <2>5. PICK l3, p3 : l3 = [l2 EXCEPT !["plans"] = lu] /\ p3 = [p2 EXCEPT !["plans"] = pu]
    OBVIOUS
  <2>6. TablesAgree(lu, pu, Columns.plans)
    <3>1. "status" \in Columns.plans BY DEF Columns
    <3> QED BY <2>1, <2>4, <3>1, StatusAgree
  <2>7. StoresMatch(l3, p3)
    BY <1>8, <2>5, <2>6, TableChanges DEF Tables
  <2>8. ASSUME NEW d, NEW x PROVE [d EXCEPT !.plans[input.key].status = x]
                                    = [d EXCEPT !["plans"] = WithStatus(d.plans, input.key, x)]
    BY Zenon DEF WithStatus
  <2>9. PlanCall(l, input, LiteTime(t)) = Done(l3, n(l))
    <3>1. PlanCall(l, input, LiteTime(t)) = Done([l2 EXCEPT !.plans[input.key].status = s], n(l))
      BY <1>9, <1>11, <2>3, Zenon DEF PlanCall
    <3> QED BY <2>4, <2>5, <2>8, <3>1, Zenon
  <2>10. PlanCall(p, input, t) = Done(p3, n(p))
    <3>1. PlanCall(p, input, t) = Done([p2 EXCEPT !.plans[input.key].status = s], n(p))
      BY <1>9, <1>11, <2>2, <2>3, Zenon DEF PlanCall
    <3> QED BY <2>4, <2>5, <2>8, <3>1, Zenon
  <2> HIDE DEF n
  <2> QED BY <1>3, <2>7, <2>9, <2>10 DEF Done
<1> QED BY <1>10, <1>11

-------------------------------------------------------------------------------
(* Each call of both adapters. *)

SameOutcome(a, b) == StoresMatch(a.db, b.db) /\ a.result = b.result

LEMMA StubsOutcome ==
  ASSUME NEW l, NEW p, StoresMatch(l, p), NEW t \in Int, NEW stubs \in StubLists
  PROVE  SameOutcome(Lite!UpsertPointerStubs(l, stubs, t), Pg!UpsertPointerStubs(p, stubs, t))
BY StubsForm, StubsAgree DEF SameOutcome

LEMMA RulesOutcome ==
  ASSUME NEW l, NEW p, StoresMatch(l, p), NEW t \in Int, NEW s \in RuleSyncs
  PROVE  SameOutcome(Lite!SyncRulePointers(l, s.source, s.rules, t), Pg!SyncRulePointers(p, s.source, s.rules, t))
BY RulesForm, RulesAgree DEF SameOutcome

LEMMA SyncOutcome ==
  ASSUME NEW l, NEW p, StoresMatch(l, p), NEW t \in Int, NEW input \in SyncInputs
  PROVE  SameOutcome(Lite!ApplySync(l, input, t), Pg!ApplySync(p, input, t))
<1>1. PICK n \in Nat : ArePaths(SyncPaths(input), n)
  BY PathsOnce
<1>2. /\ IsTable(l.pointers, PointerCols) /\ IsFiniteSet(DOMAIN l.pointers)
      /\ IsTable(l.candidates, CandidateCols) /\ IsTable(p.pointers, PointerCols)
  BY DEF StoresMatch, Tables, TablesAgree, Columns
<1>3. Lite!ApplySync(l, input, t) = SyncCall(l, input, LiteTime(t))
  BY <1>1, <1>2, LiteSyncForm
<1>4. Pg!ApplySync(p, input, t) = SyncCall(p, input, t)
  BY <1>1, <1>2, PgSyncForm
<1> QED BY <1>3, <1>4, SyncAgree DEF SameOutcome

LEMMA ScopeOutcome ==
  ASSUME NEW l, NEW p, StoresMatch(l, p), NEW t \in Int, NEW input
  PROVE  SameOutcome(Lite!UpsertReceiptScope(l, input, t), Pg!UpsertReceiptScope(p, input, t))
BY ScopeForm, ScopeAgree DEF SameOutcome

LEMMA NumberedAgree ==
  ASSUME NEW a, NEW b, StoresMatch(a.db, b.db), a.result = Null <=> b.result = Null,
         NEW x, NEW y, a = [db |-> x, result |-> a.result], b = [db |-> y, result |-> b.result]
  PROVE  SameOutcome(Numbered(a), Numbered(b))
BY DEF SameOutcome, Numbered

LEMMA RunOutcome ==
  ASSUME NEW l, NEW p, StoresMatch(l, p), NEW t \in Int, NEW input
  PROVE  SameOutcome(Numbered(Lite!SaveRunReceiptSummary(l, input, t)), Numbered(Pg!SaveRunReceiptSummary(p, input, t)))
<1> DEFINE a == RunCall(l, input, LiteTime(t))
           b == RunCall(p, input, t)
<1>1. StoresMatch(a.db, b.db) /\ a.result = l.nextRun /\ b.result = p.nextRun
  BY RunAgree
<1>2. a.result # Null /\ b.result # Null
  BY <1>1, ParityAssumption DEF StoresMatch
<1>3. a = [db |-> a.db, result |-> a.result] /\ b = [db |-> b.db, result |-> b.result]
  BY DEF RunCall, Done
<1> HIDE DEF a, b
<1>4. SameOutcome(Numbered(a), Numbered(b))
  BY <1>1, <1>2, <1>3, NumberedAgree
<1> QED BY <1>4, RunForm DEF a, b

LEMMA ItemsOutcome ==
  ASSUME NEW l, NEW p, StoresMatch(l, p), NEW t \in Int, NEW input \in ItemInputs
  PROVE  SameOutcome(Lite!UpsertWorkItems(l, input.receipt, input.list, t),
                Pg!UpsertWorkItems(p, input.receipt, input.list, t))
<1>1. input.list \in Seq([key : Int, status : Statuses])
  BY InputAssumption
<1>2. /\ Len(input.list) \in Nat /\ DOMAIN input.list = 1..Len(input.list)
      /\ \A i \in 1..Len(input.list) : input.list[i] \in [key : Int, status : Statuses]
  BY <1>1, SeqElements
<1>3. \A i \in 1..Len(input.list) : input.list[i].key \in Int
  BY <1>2
<1>4. /\ Lite!UpsertWorkItems(l, input.receipt, input.list, t)
             = ItemsCall(l, input.receipt, input.list, LiteTime(t))
      /\ Pg!UpsertWorkItems(p, input.receipt, input.list, t) = ItemsCall(p, input.receipt, input.list, t)
  BY <1>2, <1>3, ItemsForm
<1> QED BY <1>4, ItemsAgree DEF SameOutcome

LEMMA PlanOutcome ==
  ASSUME NEW l, NEW p, StoresMatch(l, p), NEW t \in Int, NEW input \in PlanInputs
  PROVE  SameOutcome(Lite!UpsertWorkPlan(l, input, t), Pg!UpsertWorkPlan(p, input, t))
BY PlanForm, PlanAgree DEF SameOutcome

LEMMA AttemptOutcome ==
  ASSUME NEW l, NEW p, StoresMatch(l, p), NEW input, input.created \in Int
  PROVE  SameOutcome(Numbered(Lite!SaveReviewAttempt(l, input)), Numbered(Pg!SaveReviewAttempt(p, input)))
<1> DEFINE a == Lite!SaveReviewAttempt(l, input)
           b == Pg!SaveReviewAttempt(p, input)
<1>1. StoresMatch(a.db, b.db) /\ (a.result = Null <=> b.result = Null)
  BY AttemptsAgree
<1>2. a = [db |-> a.db, result |-> a.result]
  BY DEF Lite!SaveReviewAttempt, Lite!Done, Lite!Failed
<1>3. b = [db |-> b.db, result |-> b.result]
  BY DEF Pg!SaveReviewAttempt, Pg!Done, Pg!Failed
<1> HIDE DEF a, b
<1>4. SameOutcome(Numbered(a), Numbered(b))
  BY <1>1, <1>2, <1>3, NumberedAgree
<1> QED BY <1>4 DEF a, b

LEMMA BatchOutcome ==
  ASSUME NEW l, NEW p, StoresMatch(l, p), NEW input, input.created \in Int, input.results \in Seq(ResultInputs)
  PROVE  SameOutcome(Lite!SaveVerificationBatch(l, input), Pg!SaveVerificationBatch(p, input))
BY BatchesAgree DEF SameOutcome

LEMMA InterruptOutcome ==
  ASSUME NEW l, NEW p, StoresMatch(l, p)
  PROVE  SameOutcome(Lite!Interrupted(l), Pg!Interrupted(p))
<1>1. p.nextRun + 1 \in Nat /\ p.nextAttempt + 1 \in Nat
  BY DEF StoresMatch
<1>2. PICK p1 : p1 = [p EXCEPT !["nextRun"] = p.nextRun + 1]
  OBVIOUS
<1>3. StoresMatch(l, p1)
  BY <1>1, <1>2, CounterChanges
<1>4. PICK p2 : p2 = [p1 EXCEPT !["nextAttempt"] = p.nextAttempt + 1]
  OBVIOUS
<1>5. StoresMatch(l, p2)
  BY <1>1, <1>3, <1>4, CounterChanges
<1>6. Pg!Interrupted(p) = [db |-> p2, result |-> Null]
  BY <1>2, <1>4, Zenon DEF Pg!Interrupted
<1>7. Lite!Interrupted(l) = [db |-> l, result |-> Null]
  BY DEF Lite!Interrupted, Lite!Failed
<1> QED BY <1>5, <1>6, <1>7 DEF SameOutcome

LEMMA EmptyStores ==
  StoresMatch(EmptyDb, EmptyDb)
<1>1. \A t \in Tables : EmptyDb[t] = [k \in {} |-> k] \/ EmptyDb[t] = <<>>
  BY DEF EmptyDb, Tables
<1>2. \A t \in Tables : DOMAIN EmptyDb[t] = {} /\ EmptyDb[t] = [k \in {} |-> EmptyDb[t][k]]
  BY <1>1
<1>3. \A t \in Tables : TablesAgree(EmptyDb[t], EmptyDb[t], Columns[t])
  BY <1>2 DEF TablesAgree, IsTable
<1>4. /\ IsFiniteSet(DOMAIN EmptyDb.pointers) /\ ArePairs(EmptyDb.items) /\ ArePairs(EmptyDb.tasks)
  BY <1>2, FS_EmptySet DEF Tables, ArePairs
<1>5. IsLog(EmptyDb.runs) /\ IsLog(EmptyDb.attempts) /\ IsLog(EmptyDb.results)
  <2>1. 0 \in Nat /\ 1..0 = {} OBVIOUS
  <2> QED BY <1>2, <2>1 DEF Tables, IsLog
<1>6. DOMAIN EmptyDb = Tables \cup {"nextRun", "nextAttempt"} /\ EmptyDb.nextRun \in Nat /\ EmptyDb.nextAttempt \in Nat
  BY DEF EmptyDb, Tables
<1> QED BY <1>3, <1>4, <1>5, <1>6 DEF StoresMatch

-------------------------------------------------------------------------------
(* The stores agree after every call. *)

(* The inductive invariant: the databases match table by table, the last results are equal. *)
StoresInv == StoresMatch(lite, pg) /\ results.lite = results.pg /\ now \in Int

LEMMA SameStores ==
  ASSUME StoresInv PROVE StoresAgree
<1> SUFFICES ASSUME NEW t \in Tables PROVE SameRows(lite[t], pg[t])
  BY DEF StoresAgree, StoresInv
<1>1. TablesAgree(lite[t], pg[t], Columns[t])
  BY DEF StoresInv, StoresMatch
<1> QED BY <1>1, SameRowsForm

LEMMA StoresInit ==
  ASSUME Init PROVE StoresInv
BY EmptyStores, ParityAssumption DEF Init, StoresInv

LEMMA BothKeep ==
  ASSUME StoresInv, NEW g, NEW a, NEW b, SameOutcome(a, b), Both(g, a, b)
  PROVE  StoresInv'
<1>1. now' \in Int
  BY ParityAssumption DEF StoresInv, Both
<1>2. StoresMatch(lite, pg)' /\ (results.lite = results.pg)'
  BY DEF SameOutcome, Both
<1> QED BY <1>1, <1>2 DEF StoresInv

DatedResult(r, at) == [r EXCEPT !.started = at - @, !.finished = at - @]
Dated(b, at) ==
    [b EXCEPT !.created = at - b.created,
              !.results = [i \in DOMAIN b.results |-> DatedResult(b.results[i], at)]]
LEMMA DatedResultType ==
  ASSUME NEW r \in ResultInputs, NEW at \in Int
  PROVE  DatedResult(r, at) \in ResultInputs
<1>1. PICK x : x = [r EXCEPT !["started"] = at - r.started]
  OBVIOUS
<1>2. x \in ResultInputs
  BY <1>1 DEF ResultInputs
<1>3. DatedResult(r, at) = [x EXCEPT !["finished"] = at - @]
  BY <1>1, Zenon DEF DatedResult
<1> QED BY <1>2, <1>3 DEF ResultInputs

LEMMA StoresStep ==
  ASSUME StoresInv, [Next]_vars
  PROVE  StoresInv'
<1> USE DEF StoresInv
<1>1. ASSUME UpsertPointerStubs PROVE StoresInv'
  BY <1>1, BothKeep, StubsOutcome DEF UpsertPointerStubs
<1>2. ASSUME SyncRulePointers PROVE StoresInv'
  BY <1>2, BothKeep, RulesOutcome DEF SyncRulePointers
<1>3. ASSUME ApplySync PROVE StoresInv'
  BY <1>3, BothKeep, SyncOutcome DEF ApplySync
<1>4. ASSUME UpsertReceiptScope PROVE StoresInv'
  BY <1>4, BothKeep, ScopeOutcome DEF UpsertReceiptScope
<1>5. ASSUME SaveRunReceiptSummary PROVE StoresInv'
  BY <1>5, BothKeep, RunOutcome DEF SaveRunReceiptSummary
<1>6. ASSUME UpsertWorkItems PROVE StoresInv'
  BY <1>6, BothKeep, ItemsOutcome DEF UpsertWorkItems
<1>7. ASSUME UpsertWorkPlan PROVE StoresInv'
  BY <1>7, BothKeep, PlanOutcome DEF UpsertWorkPlan
<1>8. ASSUME SaveReviewAttempt PROVE StoresInv'
  <2>1. PICK a \in AttemptInputs :
          LET input == [a EXCEPT !.created = now - a.created]
          IN  Both("gates", Numbered(Lite!SaveReviewAttempt(lite, input)),
                            Numbered(Pg!SaveReviewAttempt(pg, input)))
    BY <1>8 DEF SaveReviewAttempt
  <2> DEFINE input == [a EXCEPT !.created = now - a.created]
  <2>2. input.created \in Int
    BY InputAssumption
  <2>3. SameOutcome(Numbered(Lite!SaveReviewAttempt(lite, input)), Numbered(Pg!SaveReviewAttempt(pg, input)))
    BY <2>2, AttemptOutcome
  <2> HIDE DEF input
  <2> QED BY <2>1, <2>3, BothKeep DEF input
<1>9. ASSUME SaveVerificationBatch PROVE StoresInv'
  <2>0. SaveVerificationBatch <=> \E b \in BatchInputs :
           Both("gates", Lite!SaveVerificationBatch(lite, Dated(b, now)), Pg!SaveVerificationBatch(pg, Dated(b, now)))
    BY Zenon DEF SaveVerificationBatch, Dated, DatedResult
  <2>1. PICK b \in BatchInputs :
           Both("gates", Lite!SaveVerificationBatch(lite, Dated(b, now)), Pg!SaveVerificationBatch(pg, Dated(b, now)))
    BY <1>9, <2>0
  <2> DEFINE dated == [i \in DOMAIN b.results |-> DatedResult(b.results[i], now)]
             input == Dated(b, now)
  <2>2. dated \in Seq(ResultInputs)
    <3>1. b.results \in Seq(ResultInputs)
      BY InputAssumption DEF ResultInputs
    <3>2. Len(b.results) \in Nat /\ DOMAIN b.results = 1..Len(b.results)
          /\ \A i \in 1..Len(b.results) : b.results[i] \in ResultInputs
      BY <3>1, SeqElements
    <3>3. \A i \in 1..Len(b.results) : DatedResult(b.results[i], now) \in ResultInputs
      BY <3>2, DatedResultType
    <3>4. /\ dated = [i \in 1..Len(b.results) |-> dated[i]]
          /\ \A i \in 1..Len(b.results) : dated[i] \in ResultInputs
      BY <3>2, <3>3
    <3> HIDE DEF StoresInv, dated
    <3> QED BY <3>2, <3>4
  <2>3. input.created \in Int /\ input.results = dated
    <3>1. input = [b EXCEPT !["created"] = now - b.created, !["results"] = dated]
      BY DEF Dated
    <3>2. /\ b.created \in Int /\ "created" \in DOMAIN b /\ "results" \in DOMAIN b
      BY InputAssumption
    <3> HIDE DEF dated, input
    <3>3. PICK x : x = [b EXCEPT !["created"] = now - b.created]
      OBVIOUS
    <3>4. input = [x EXCEPT !["results"] = dated]
      BY <3>1, <3>3, Zenon
    <3> QED BY <3>2, <3>3, <3>4
  <2>4. SameOutcome(Lite!SaveVerificationBatch(lite, input), Pg!SaveVerificationBatch(pg, input))
    <3> HIDE DEF input, dated
    <3> QED BY <2>2, <2>3, BatchOutcome
  <2> HIDE DEF input
  <2> QED BY <2>1, <2>4, BothKeep DEF input
<1>10. ASSUME Interrupt PROVE StoresInv'
  BY <1>10, BothKeep, InterruptOutcome DEF Interrupt
<1>11. ASSUME UNCHANGED vars PROVE StoresInv'
  BY <1>11 DEF vars
<1> QED
  BY <1>1, <1>2, <1>3, <1>4, <1>5, <1>6, <1>7, <1>8, <1>9, <1>10, <1>11 DEF Next

(* After the same calls SQLite and Postgres hold the same rows, times in seconds,
   and their last call has failed on both or returned the same counts. *)
THEOREM EquivalentStores ==
  Spec => []StoresAgree
<1>1. Init => StoresInv
  BY StoresInit
<1>2. StoresInv /\ [Next]_vars => StoresInv'
  BY StoresStep
<1>3. StoresInv => StoresAgree
  BY SameStores
<1> QED BY <1>1, <1>2, <1>3, PTL DEF Spec

-------------------------------------------------------------------------------
(* Calls made again.  A second call finds its rows there: it leaves the columns
   it sets as they are, but for the instants. *)

(* The same rows, but for the instants. *)
SameTable(u, v, Cols) ==
    /\ IsTable(u, Cols) /\ IsTable(v, Cols)
    /\ DOMAIN u = DOMAIN v
    /\ \A k \in DOMAIN u : \A c \in Cols \ Times : u[k][c] = v[k][c]

LEMMA TimelessEqual ==
  ASSUME NEW Cols, NEW u, NEW v, SameTable(u, v, Cols)
  PROVE  DOMAIN u = DOMAIN v /\ \A k \in DOMAIN u : Timeless(u[k]) = Timeless(v[k])
<1> SUFFICES ASSUME NEW k \in DOMAIN u PROVE Timeless(u[k]) = Timeless(v[k])
  BY DEF SameTable
<1>1. DOMAIN u[k] = Cols /\ DOMAIN v[k] = Cols
  BY DEF SameTable, IsTable
<1>2. /\ Timeless(u[k]) = [c \in Cols \ Times |-> u[k][c]]
      /\ Timeless(v[k]) = [c \in Cols \ Times |-> v[k][c]]
  BY <1>1 DEF Timeless
<1>3. \A c \in Cols \ Times : u[k][c] = v[k][c]
  BY DEF SameTable
<1> QED BY <1>2, <1>3

(* A database as the calls leave it. *)
IsStore(d) ==
    /\ DOMAIN d = Tables \cup {"nextRun", "nextAttempt"}
    /\ \A t \in Tables : IsTable(d[t], Columns[t])
    /\ IsFiniteSet(DOMAIN d.pointers)
    /\ ArePairs(d.items) /\ ArePairs(d.tasks)

LEMMA MatchingStores ==
  ASSUME NEW l, NEW p, StoresMatch(l, p)
  PROVE  IsStore(l) /\ IsStore(p)
<1>1. \A t \in Tables : IsTable(l[t], Columns[t]) /\ IsTable(p[t], Columns[t]) /\ DOMAIN l[t] = DOMAIN p[t]
  BY DEF StoresMatch, TablesAgree
<1>2. DOMAIN l.pointers = DOMAIN p.pointers /\ DOMAIN l.items = DOMAIN p.items /\ DOMAIN l.tasks = DOMAIN p.tasks
  BY <1>1 DEF Tables
<1>3. ArePairs(p.items) /\ ArePairs(p.tasks)
  BY <1>2 DEF StoresMatch, ArePairs
<1>4. DOMAIN l = Tables \cup {"nextRun", "nextAttempt"} /\ DOMAIN p = DOMAIN l
      /\ IsFiniteSet(DOMAIN l.pointers) /\ ArePairs(l.items) /\ ArePairs(l.tasks)
  BY DEF StoresMatch
<1> QED BY <1>1, <1>2, <1>3, <1>4 DEF IsStore

(* The columns cols of the entries are in the table, but for the instants. *)
Holds(u, entries, n, cols) ==
    \A i \in 1..n : /\ entries[i].key \in DOMAIN u
                    /\ \A c \in cols \ Times : u[entries[i].key][c] = entries[i].row[c]

LEMMA UpsertEachHolds ==
  ASSUME NEW table, NEW Cols, IsTable(table, Cols), NEW cols \in SUBSET Cols,
         NEW entries, NEW n \in Nat, AreEntries(entries, n, Cols),
         \A i, j \in 1..n : entries[i].key = entries[j].key => i = j
  PROVE  Holds(UpsertEach(table, entries, cols), entries, n, cols)
<1> DEFINE u == UpsertEach(table, entries, cols)
<1>1. UpsertedUpTo(u, table, entries, n, cols)
  BY UpsertEachForm
<1> HIDE DEF u
<1>2. ASSUME NEW i \in 1..n
      PROVE  /\ entries[i].key \in DOMAIN u
             /\ \A c \in cols : u[entries[i].key][c] = entries[i].row[c]
  <2>1. u[entries[i].key] = Upserted(table, entries[i].key, entries[i].row, cols)
    BY <1>1 DEF UpsertedUpTo
  <2>2. DOMAIN entries[i].row = Cols
    BY DEF AreEntries
  <2>3. entries[i].key \in DOMAIN u
    BY <1>1 DEF UpsertedUpTo, EntryKeys
  <2> QED BY <2>1, <2>2, <2>3 DEF Upserted
<1> QED BY <1>2 DEF Holds, u

(* Upserts of what is there change instants at most, and so when some of the rows are deleted
   before and inserted again. *)
LEMMA UpsertEachAgain ==
  ASSUME NEW u, NEW Cols, IsTable(u, Cols), NEW cols \in SUBSET Cols,
         NEW entries, NEW n \in Nat, AreEntries(entries, n, Cols),
         \A i, j \in 1..n : entries[i].key = entries[j].key => i = j,
         Holds(u, entries, n, cols),
         NEW D \in SUBSET EntryKeys(entries, n), D = {} \/ Cols \ Times \subseteq cols
  PROVE  SameTable(u, UpsertEach(Delete(u, D), entries, cols), Cols)
<1> DEFINE w == Delete(u, D)
           v == UpsertEach(w, entries, cols)
<1>1. DOMAIN w = DOMAIN u \ D /\ w = [k \in DOMAIN w |-> w[k]] /\ \A k \in DOMAIN w : w[k] = u[k]
  BY DEF Delete
<1> HIDE DEF w
<1>2. IsTable(w, Cols)
  BY <1>1 DEF IsTable
<1>3. UpsertedUpTo(v, w, entries, n, cols) /\ IsTable(v, Cols)
  BY <1>2, UpsertEachForm
<1> HIDE DEF v
<1>4. EntryKeys(entries, n) \subseteq DOMAIN u
  BY DEF Holds, EntryKeys
<1>5. DOMAIN v = DOMAIN u
  BY <1>1, <1>3, <1>4 DEF UpsertedUpTo
<1>6. ASSUME NEW k \in DOMAIN u, NEW c \in Cols \ Times PROVE u[k][c] = v[k][c]
  <2>1. CASE \E i \in 1..n : k = entries[i].key
    <3>1. PICK i \in 1..n : k = entries[i].key BY <2>1
    <3>2. v[k] = Upserted(w, k, entries[i].row, cols) BY <3>1, <1>3 DEF UpsertedUpTo
    <3>3. DOMAIN entries[i].row = Cols BY DEF AreEntries
    <3>4. CASE c \in cols
      <4>1. v[k][c] = entries[i].row[c] BY <3>2, <3>3, <3>4 DEF Upserted
      <4>2. u[k][c] = entries[i].row[c] BY <3>1, <3>4 DEF Holds
      <4> QED BY <4>1, <4>2
    <3>5. CASE c \notin cols
      <4>1. k \in DOMAIN w BY <3>5, <1>1
      <4> QED BY <3>2, <3>3, <3>5, <4>1, <1>1 DEF Upserted
    <3> QED BY <3>4, <3>5
  <2>2. CASE \A i \in 1..n : k # entries[i].key
    <3>1. k \notin EntryKeys(entries, n) BY <2>2 DEF EntryKeys
    <3>2. k \in DOMAIN w BY <3>1, <1>1
    <3> QED BY <2>2, <3>2, <1>1, <1>3 DEF UpsertedUpTo
  <2> QED BY <2>1, <2>2
<1> QED BY <1>3, <1>5, <1>6 DEF SameTable, v, w

LEMMA DeleteNothing ==
  ASSUME NEW u, NEW Cols, IsTable(u, Cols)
  PROVE  Delete(u, {}) = u
BY DEF Delete, IsTable

(* The same for one upsert. *)
LEMMA UpsertAgain ==
  ASSUME NEW table, NEW Cols, IsTable(table, Cols), NEW cols, NEW key,
         NEW a, NEW b, IsRow(a, Cols), IsRow(b, Cols), \A c \in cols \ Times : a[c] = b[c]
  PROVE  /\ SameTable(Upsert(table, key, a, cols), Upsert(Upsert(table, key, a, cols), key, b, cols), Cols)
<1> DEFINE u == Upsert(table, key, a, cols)
           v == Upsert(u, key, b, cols)
<1>0. DOMAIN a = Cols /\ DOMAIN b = Cols
  BY DEF IsRow
<1>1. /\ DOMAIN u = DOMAIN table \cup {key} /\ u = [k \in DOMAIN u |-> u[k]]
      /\ u[key] = Upserted(table, key, a, cols) /\ \A k \in DOMAIN table : k # key => u[k] = table[k]
  BY DEF Upsert, Upserted
<1>2. IsTable(u, Cols)
  <2>1. IsRow(u[key], Cols)
    BY <1>0, <1>1 DEF Upserted, IsTable, IsRow
  <2> HIDE DEF u
  <2> QED BY <1>1, <2>1 DEF IsTable, IsRow
<1> HIDE DEF u
<1>3. /\ DOMAIN v = DOMAIN u /\ v = [k \in DOMAIN v |-> v[k]]
      /\ v[key] = [c \in Cols |-> IF c \in cols THEN b[c] ELSE u[key][c]]
      /\ \A k \in DOMAIN u : k # key => v[k] = u[k]
  BY <1>0, <1>1 DEF Upsert
<1> HIDE DEF v
<1>4. IsTable(v, Cols)
  BY <1>2, <1>3 DEF IsTable
<1>5. \A c \in cols \cap Cols : u[key][c] = a[c]
  BY <1>0, <1>1 DEF Upserted
<1>6. ASSUME NEW k \in DOMAIN u, NEW c \in Cols \ Times PROVE u[k][c] = v[k][c]
  BY <1>3, <1>5
<1> QED BY <1>2, <1>3, <1>4, <1>6 DEF SameTable, u, v

(* One table has changed in its instants at most. *)
LEMMA OneTableAgain ==
  ASSUME NEW d, IsStore(d), NEW t \in Tables, NEW u, NEW v, SameTable(u, v, Columns[t]),
         NEW once, once = [d EXCEPT ![t] = u], NEW again, again = [once EXCEPT ![t] = v]
  PROVE  SameButTimes(once, again)
<1>1. t \in DOMAIN d /\ DOMAIN once = DOMAIN d
  BY DEF IsStore
<1>2. once[t] = u /\ again[t] = v /\ \A f \in DOMAIN d : f # t => again[f] = once[f]
  BY <1>1
<1>3. \A f \in Tables : f \in DOMAIN d
  BY DEF IsStore
<1>4. ASSUME NEW f \in Tables
      PROVE  /\ DOMAIN once[f] = DOMAIN again[f]
             /\ \A k \in DOMAIN once[f] : Timeless(once[f][k]) = Timeless(again[f][k])
  <2>1. CASE f = t
    <3>1. DOMAIN u = DOMAIN v /\ \A k \in DOMAIN u : Timeless(u[k]) = Timeless(v[k])
      BY TimelessEqual
    <3> QED BY <2>1, <1>2, <3>1
  <2>2. CASE f # t BY <2>2, <1>2, <1>3
  <2> QED BY <2>1, <2>2
<1> QED BY <1>4 DEF SameButTimes

LEMMA StubsAgain ==
  ASSUME NEW d, IsStore(d), NEW stubs \in StubLists, NEW at \in Int, NEW later \in Int
  PROVE  SameButTimes(StubsCall(d, stubs, at).db, StubsCall(StubsCall(d, stubs, at).db, stubs, later).db)
<1> DEFINE rows == ByKey(Keyed(stubs), Alike)
           e    == StubEntries(rows, at)
           el   == StubEntries(rows, later)
           u    == UpsertEach(d.pointers, e, StubCols)
           v    == UpsertEach(u, el, StubCols)
<1>1. PICK m \in Nat : DOMAIN rows = 1..m /\ \A i, j \in 1..m : rows[i].key = rows[j].key => i = j
  BY StubKeysOnce
<1> HIDE DEF rows
<1>2. ASSUME NEW i \in 1..m
      PROVE  /\ e[i].key = rows[i].key /\ el[i].key = rows[i].key
             /\ e[i].row = StubRow(rows[i], at) /\ el[i].row = StubRow(rows[i], later)
  BY <1>1 DEF StubEntries
<1>3. e = [i \in 1..m |-> e[i]] /\ el = [i \in 1..m |-> el[i]]
  BY <1>1 DEF StubEntries
<1> HIDE DEF e, el
<1>4. /\ AreEntries(e, m, PointerCols) /\ AreEntries(el, m, PointerCols)
      /\ \A i, j \in 1..m : e[i].key = e[j].key => i = j
      /\ \A i, j \in 1..m : el[i].key = el[j].key => i = j
  <2>1. \A i \in 1..m : IsRow(e[i].row, PointerCols) /\ IsRow(el[i].row, PointerCols)
    BY <1>2, StubRowsAgree
  <2> QED BY <1>1, <1>2, <1>3, <2>1 DEF AreEntries, IsRow
<1>5. IsTable(d.pointers, PointerCols)
  BY DEF IsStore, Tables, Columns
<1>6. StubCols \in SUBSET PointerCols
  BY DEF StubCols, PointerCols
<1>7. Holds(u, e, m, StubCols) /\ IsTable(u, PointerCols)
  BY <1>4, <1>5, <1>6, UpsertEachHolds, UpsertEachForm
<1>8. Holds(u, el, m, StubCols)
  <2>1. ASSUME NEW i \in 1..m, NEW c \in StubCols \ Times PROVE e[i].row[c] = el[i].row[c]
    <3>1. e[i].row[c] = StubRow(rows[i], at)[c] /\ el[i].row[c] = StubRow(rows[i], later)[c]
      BY <1>2
    <3>2. c \in {"path", "stale"} BY DEF StubCols, Times
    <3>3. \A t : /\ StubRow(rows[i], t).path = rows[i].path /\ StubRow(rows[i], t).stale = FALSE
      BY Zenon DEF StubRow
    <3>4. StubRow(rows[i], at).path = StubRow(rows[i], later).path
      BY <3>3, Zenon
    <3>5. StubRow(rows[i], at).stale = StubRow(rows[i], later).stale
      BY <3>3, Zenon
    <3> QED BY <3>1, <3>2, <3>4, <3>5
  <2> HIDE DEF u
  <2> QED BY <1>2, <1>7, <2>1 DEF Holds
<1> HIDE DEF u
<1>9. SameTable(u, UpsertEach(Delete(u, {}), el, StubCols), PointerCols)
  BY <1>4, <1>6, <1>7, <1>8, UpsertEachAgain
<1>10. SameTable(u, v, PointerCols)
  BY <1>7, <1>9, DeleteNothing
<1>11. PICK once : once = [d EXCEPT !["pointers"] = u]
  OBVIOUS
<1>12. "pointers" \in DOMAIN d /\ "pointers" \in Tables /\ Columns["pointers"] = PointerCols
  BY DEF IsStore, Tables, Columns
<1>13. StubsCall(d, stubs, at).db = once
  BY <1>11 DEF StubsCall, Done, u, e, rows
<1>14. once.pointers = u
  BY <1>11, <1>12
<1>15. StubsCall(once, stubs, later).db = [once EXCEPT !["pointers"] = v]
  BY <1>14 DEF StubsCall, Done, el, rows
<1> HIDE DEF v
<1>16. PICK again : again = [once EXCEPT !["pointers"] = v]
  OBVIOUS
<1>17. SameTable(u, v, Columns["pointers"])
  BY <1>10, <1>12
<1>18. SameButTimes(once, again)
  BY <1>11, <1>12, <1>16, <1>17, OneTableAgain
<1> QED BY <1>13, <1>15, <1>16, <1>18

(* A rule of the list stays, the others of its source are gone. *)
LEMMA RulesAgain ==
  ASSUME NEW d, IsStore(d), NEW s \in RuleSyncs, NEW at \in Int, NEW later \in Int
  PROVE  SameButTimes(RulesCall(d, s.source, s.rules, at).db,
                      RulesCall(RulesCall(d, s.source, s.rules, at).db, s.source, s.rules, later).db)
<1> DEFINE rows == ByKey(s.rules, Alike)
           e    == RuleEntries(s.source, rows, at)
           el   == RuleEntries(s.source, rows, later)
           full == UpsertEach(d.pointers, e, RuleCols)
           gone == MissingRules(full, s.source, rows)
           u    == Delete(full, gone)
           v    == UpsertEach(u, el, RuleCols)
<1>1. PICK m \in Nat : DOMAIN rows = 1..m /\ \A i, j \in 1..m : rows[i].key = rows[j].key => i = j
  BY RuleKeysOnce
<1> HIDE DEF rows
<1>2. ASSUME NEW i \in 1..m
      PROVE  /\ e[i].key = rows[i].key /\ el[i].key = rows[i].key
             /\ e[i].row = RuleRow(s.source, rows[i], at) /\ el[i].row = RuleRow(s.source, rows[i], later)
  BY <1>1 DEF RuleEntries
<1>3. e = [i \in 1..m |-> e[i]] /\ el = [i \in 1..m |-> el[i]]
  BY <1>1 DEF RuleEntries
<1> HIDE DEF e, el
<1>4. /\ AreEntries(e, m, PointerCols) /\ AreEntries(el, m, PointerCols)
      /\ \A i, j \in 1..m : e[i].key = e[j].key => i = j
      /\ \A i, j \in 1..m : el[i].key = el[j].key => i = j
  <2>1. \A i \in 1..m : IsRow(e[i].row, PointerCols) /\ IsRow(el[i].row, PointerCols)
    BY <1>2, RuleRowsAgree
  <2> QED BY <1>1, <1>2, <1>3, <2>1 DEF AreEntries, IsRow
<1>5. IsTable(d.pointers, PointerCols)
  BY DEF IsStore, Tables, Columns
<1>6. RuleCols \in SUBSET PointerCols
  BY DEF RuleCols, PointerCols
<1>7. Holds(full, e, m, RuleCols) /\ IsTable(full, PointerCols)
  BY <1>4, <1>5, <1>6, UpsertEachHolds, UpsertEachForm
<1> HIDE DEF full
<1>8. \A i \in 1..m : rows[i].key \in DOMAIN full /\ rows[i].key \notin gone
  BY <1>1, <1>2, <1>7 DEF Holds, MissingRules
<1>8a. DOMAIN u = DOMAIN full \ gone /\ u = [k \in DOMAIN u |-> u[k]] /\ \A k \in DOMAIN u : u[k] = full[k]
  BY DEF Delete
<1> HIDE DEF gone, u
<1>9. IsTable(u, PointerCols)
  BY <1>7, <1>8a DEF IsTable
<1>10. Holds(u, el, m, RuleCols)
  <2>1. ASSUME NEW i \in 1..m, NEW c \in RuleCols \ Times PROVE e[i].row[c] = el[i].row[c]
    <3>1. e[i].row[c] = RuleRow(s.source, rows[i], at)[c] /\ el[i].row[c] = RuleRow(s.source, rows[i], later)[c]
      BY <1>2
    <3>2. \A t : RuleRow(s.source, rows[i], t) = PointerRow(s.source, "rule", rows[i].text, TRUE, FALSE, Null, t)
      BY Zenon DEF RuleRow, PointerRow
    <3>3. PICK rule, stale : \A t : RuleRow(s.source, rows[i], t)
                                      = PointerRow(s.source, "rule", rows[i].text, rule, stale, Null, t)
      BY <3>2, Zenon
    <3>4. PointerRow(s.source, "rule", rows[i].text, rule, stale, Null, at)[c]
            = PointerRow(s.source, "rule", rows[i].text, rule, stale, Null, later)[c]
      BY DEF PointerRow, RuleCols, Times
    <3> QED BY <3>1, <3>3, <3>4
  <2>2. ASSUME NEW i \in 1..m PROVE el[i].key = e[i].key /\ el[i].key \in DOMAIN u /\ u[el[i].key] = full[e[i].key]
    BY <1>2, <1>8, <1>8a
  <2> QED BY <1>7, <2>1, <2>2 DEF Holds
<1>11. SameTable(u, UpsertEach(Delete(u, {}), el, RuleCols), PointerCols)
  BY <1>4, <1>6, <1>9, <1>10, UpsertEachAgain
<1>12. SameTable(u, v, PointerCols)
  BY <1>9, <1>11, DeleteNothing
<1> HIDE DEF v
<1>13. MissingRules(v, s.source, rows) = {}
  <2> SUFFICES ASSUME NEW k \in DOMAIN v, v[k].path = s.source, v[k].rule, k \notin {rows[i].key : i \in DOMAIN rows}
               PROVE  FALSE
    BY DEF MissingRules
  <2>1. k \in DOMAIN u /\ u[k].path = v[k].path /\ u[k].rule = v[k].rule
    BY <1>12 DEF SameTable, PointerCols, Times
  <2>2. k \in DOMAIN full /\ full[k].path = s.source /\ full[k].rule /\ k \notin gone
    BY <2>1, <1>8a
  <2> QED BY <2>2 DEF gone, MissingRules
<1>14. Delete(v, MissingRules(v, s.source, rows)) = v
  BY <1>12, <1>13, DeleteNothing DEF SameTable
<1>15. PICK once : once = [d EXCEPT !["pointers"] = u]
  OBVIOUS
<1>16. "pointers" \in DOMAIN d /\ "pointers" \in Tables /\ Columns["pointers"] = PointerCols
  BY DEF IsStore, Tables, Columns
<1>17. RulesCall(d, s.source, s.rules, at).db = once
  BY <1>15 DEF RulesCall, Done, u, full, gone, e, rows
<1>18. once.pointers = u
  BY <1>15, <1>16
<1>19. RulesCall(once, s.source, s.rules, later).db = [once EXCEPT !["pointers"] = Delete(v, MissingRules(v, s.source, rows))]
  BY <1>18 DEF RulesCall, Done, v, el, rows
<1>20. RulesCall(once, s.source, s.rules, later).db = [once EXCEPT !["pointers"] = v]
  BY <1>14, <1>19
<1>21. PICK again : again = [once EXCEPT !["pointers"] = v]
  OBVIOUS
<1>22. SameTable(u, v, Columns["pointers"])
  BY <1>12, <1>16
<1>23. SameButTimes(once, again)
  BY <1>15, <1>16, <1>21, <1>22, OneTableAgain
<1> QED BY <1>17, <1>20, <1>21, <1>23

LEMMA ScopeAgain ==
  ASSUME NEW d, IsStore(d), NEW input, NEW at \in Int, NEW later \in Int
  PROVE  SameButTimes(ScopeCall(d, input, at).db, ScopeCall(ScopeCall(d, input, at).db, input, later).db)
<1> DEFINE s == ReceiptScope(input)
           u == Upsert(d.receipts, s.key, ScopeRow(s, at), ScopeCols)
           v == Upsert(u, s.key, ScopeRow(s, later), ScopeCols)
<1>1. IsTable(d.receipts, Columns.receipts)
  BY DEF IsStore, Tables
<1>2. IsRow(ScopeRow(s, at), Columns.receipts) /\ IsRow(ScopeRow(s, later), Columns.receipts)
  BY ScopeRowsAgree
<1>3. \A c \in ScopeCols \ Times : ScopeRow(s, at)[c] = ScopeRow(s, later)[c]
  <2> HIDE DEF s
  <2> QED BY DEF ScopeRow, ScopeCols
<1>4. SameTable(u, v, Columns.receipts)
  <2> HIDE DEF s
  <2> QED BY <1>1, <1>2, <1>3, UpsertAgain
<1>5. "receipts" \in DOMAIN d /\ "receipts" \in Tables
  BY DEF IsStore, Tables
<1>6. PICK once : once = [d EXCEPT !["receipts"] = u]
  OBVIOUS
<1>7. ScopeCall(d, input, at).db = once
  BY <1>6 DEF ScopeCall, Done
<1> HIDE DEF u
<1>8. once.receipts = u
  BY <1>5, <1>6
<1>9. ScopeCall(once, input, later).db = [once EXCEPT !["receipts"] = v]
  BY <1>8 DEF ScopeCall, Done
<1> HIDE DEF v
<1>10. PICK again : again = [once EXCEPT !["receipts"] = v]
  OBVIOUS
<1>11. SameButTimes(once, again)
  BY <1>4, <1>5, <1>6, <1>10, OneTableAgain
<1> QED BY <1>7, <1>9, <1>10, <1>11

(* A call that fails is made in vain a second time too. *)
LEMMA ItemsAgain ==
  ASSUME NEW d, IsStore(d), NEW input \in ItemInputs, NEW at \in Int, NEW later \in Int
  PROVE  SameButTimes(ItemsCall(d, input.receipt, input.list, at).db,
                      ItemsCall(ItemsCall(d, input.receipt, input.list, at).db, input.receipt, input.list, later).db)
<1> DEFINE rows == WorkItems(input.list)
           e    == ItemEntries(input.receipt, rows, at)
           el   == ItemEntries(input.receipt, rows, later)
           u    == UpsertEach(d.items, e, ItemCols)
           v    == UpsertEach(u, el, ItemCols)
<1>1. PICK m \in Nat : DOMAIN rows = 1..m /\ \A i, j \in 1..m : rows[i].key = rows[j].key => i = j
  BY ItemKeysOnce
<1> HIDE DEF rows
<1>2. ASSUME NEW i \in 1..m
      PROVE  /\ e[i].key = <<input.receipt, rows[i].key>> /\ el[i].key = <<input.receipt, rows[i].key>>
             /\ e[i].row = ItemRow(rows[i].status, at) /\ el[i].row = ItemRow(rows[i].status, later)
  BY <1>1 DEF ItemEntries, ItemRow
<1>3. e = [i \in 1..m |-> e[i]] /\ el = [i \in 1..m |-> el[i]]
  BY <1>1 DEF ItemEntries
<1> HIDE DEF e, el
<1>4. /\ AreEntries(e, m, Columns.items) /\ AreEntries(el, m, Columns.items)
      /\ \A i, j \in 1..m : e[i].key = e[j].key => i = j
      /\ \A i, j \in 1..m : el[i].key = el[j].key => i = j
  <2>1. \A i \in 1..m : IsRow(e[i].row, Columns.items) /\ IsRow(el[i].row, Columns.items)
    BY <1>2, ItemRowsAgree
  <2>2. ASSUME NEW i \in 1..m, NEW j \in 1..m, e[i].key = e[j].key \/ el[i].key = el[j].key
        PROVE  i = j
    <3>1. <<input.receipt, rows[i].key>> = <<input.receipt, rows[j].key>> BY <1>2, <2>2
    <3>2. rows[i].key = rows[j].key BY <3>1
    <3> QED BY <1>1, <3>2
  <2>3. AreEntries(e, m, Columns.items) /\ AreEntries(el, m, Columns.items)
    BY <1>3, <2>1 DEF AreEntries, IsRow
  <2> QED BY <2>2, <2>3
<1>5. IsTable(d.items, Columns.items)
  BY DEF IsStore, Tables
<1>6. ItemCols \in SUBSET Columns.items
  BY DEF ItemCols, Columns
<1>7. Holds(u, e, m, ItemCols) /\ IsTable(u, Columns.items)
  BY <1>4, <1>5, <1>6, UpsertEachHolds, UpsertEachForm
<1> HIDE DEF u
<1>8. Holds(u, el, m, ItemCols)
  <2>1. ASSUME NEW i \in 1..m, NEW c \in ItemCols \ Times PROVE e[i].row[c] = el[i].row[c]
    <3>1. c = "status" BY DEF ItemCols, Times
    <3>2. \A x, t : ItemRow(x, t).status = x BY DEF ItemRow
    <3>3. e[i].row.status = rows[i].status /\ el[i].row.status = rows[i].status BY <1>2, <3>2
    <3> QED BY <3>1, <3>3
  <2> QED BY <1>2, <1>7, <2>1 DEF Holds
<1>9. SameTable(u, UpsertEach(Delete(u, {}), el, ItemCols), Columns.items)
  BY <1>4, <1>6, <1>7, <1>8, UpsertEachAgain
<1>10. SameTable(u, v, Columns.items)
  BY <1>7, <1>9, DeleteNothing
<1>11. "items" \in DOMAIN d /\ "items" \in Tables
  BY DEF IsStore, Tables
<1>12. CASE input.list = <<>> \/ input.receipt \notin DOMAIN d.receipts
  <2>1. \A t : ItemsCall(d, input.receipt, input.list, t).db = d
    BY <1>12 DEF ItemsCall, Failed
  <2>2. SameButTimes(d, d)
    BY DEF SameButTimes
  <2> QED BY <2>1, <2>2
<1>13. CASE ~ (input.list = <<>> \/ input.receipt \notin DOMAIN d.receipts)
  <2>1. PICK once : once = [d EXCEPT !["items"] = u]
    OBVIOUS
  <2>2. ItemsCall(d, input.receipt, input.list, at).db = once
    BY <1>13, <2>1 DEF ItemsCall, Done, u, e, rows
  <2>3. once.items = u /\ once.receipts = d.receipts
    BY <1>11, <2>1
  <2>4. ItemsCall(once, input.receipt, input.list, later).db = [once EXCEPT !["items"] = v]
    BY <1>13, <2>3 DEF ItemsCall, Done, el, rows
  <2> HIDE DEF v
  <2>5. PICK again : again = [once EXCEPT !["items"] = v]
    OBVIOUS
  <2>6. SameButTimes(once, again)
    BY <1>10, <1>11, <2>1, <2>5, OneTableAgain
  <2> QED BY <2>2, <2>4, <2>5, <2>6
<1> QED BY <1>12, <1>13

(* A second synchronisation: what was marked is stale, what is present has its hash. *)
LEMMA MarkedStale ==
  ASSUME NEW table, IsTable(table, PointerCols), NEW keys, NEW at
  PROVE  LET u == Set(table, keys, StaleValues(at))
         IN  /\ IsTable(u, PointerCols) /\ DOMAIN u = DOMAIN table
             /\ \A k \in DOMAIN table : /\ u[k].path = table[k].path
                                        /\ k \in keys => u[k].stale
                                        /\ k \notin keys => u[k] = table[k]
<1> DEFINE u == Set(table, keys, StaleValues(at))
<1>0. PICK b : b = TRUE /\ StaleValues(at) = [stale |-> b, staleAt |-> at, updated |-> at]
  BY Zenon DEF StaleValues
<1>1. DOMAIN StaleValues(at) = StaleCols /\ StaleCols \subseteq PointerCols
  BY <1>0 DEF StaleCols, PointerCols
<1>2. IsTable(u, PointerCols) /\ DOMAIN u = DOMAIN table
  BY <1>1, SetKeeps
<1>3. ASSUME NEW k \in DOMAIN table
      PROVE  /\ u[k].path = table[k].path
             /\ k \in keys => u[k].stale
             /\ k \notin keys => u[k] = table[k]
  <2>1. CASE k \notin keys
    <3>1. u[k] = table[k] BY <2>1 DEF Set
    <3> QED BY <2>1, <3>1
  <2>2. CASE k \in keys
    <3>1. u[k] = Joined(StaleValues(at), table[k]) BY <2>2 DEF Set
    <3>2. DOMAIN table[k] = PointerCols BY DEF IsTable
    <3>3. "path" \in PointerCols /\ "path" \notin StaleCols /\ "stale" \in StaleCols
      BY DEF PointerCols, StaleCols
    <3> DEFINE f == StaleValues(at)
    <3> HIDE DEF f
    <3>4. Joined(f, table[k]).path = table[k].path BY <1>1, <3>2, <3>3 DEF Joined, f
    <3>5. Joined(f, table[k]).stale = f.stale BY <1>1, <3>2, <3>3 DEF Joined, f
    <3>6. f.stale = b BY <1>0 DEF f
    <3> QED BY <2>2, <3>1, <3>4, <3>5, <3>6, <1>0 DEF f
  <2> QED BY <2>1, <2>2
<1> QED BY <1>2, <1>3

LEMMA RefreshedOnce ==
  ASSUME NEW table, IsTable(table, PointerCols), NEW paths, NEW at
  PROVE  LET u == WithRefreshed(table, paths, at)
         IN  /\ IsTable(u, PointerCols) /\ DOMAIN u = DOMAIN table
             /\ \A k \in DOMAIN table :
                   /\ u[k].path = table[k].path
                   /\ k \in HitBy(table, paths) => ~ u[k].stale /\ u[k].hash = HashAt(paths, table[k].path)
                   /\ k \notin HitBy(table, paths) => u[k] = table[k]
<1> DEFINE u == WithRefreshed(table, paths, at)
<1>0. \A hash : \E b : b = FALSE /\ Refreshed(hash, at) = [hash |-> hash, stale |-> b, staleAt |-> Null, updated |-> at]
  BY Zenon DEF Refreshed
<1>1. \A hash : DOMAIN Refreshed(hash, at) = RefreshedCols
  BY <1>0 DEF RefreshedCols
<1>2. DOMAIN u = DOMAIN table /\ u = [k \in DOMAIN u |-> u[k]]
  BY DEF WithRefreshed
<1>3. ASSUME NEW k \in DOMAIN table
      PROVE  /\ IsRow(u[k], PointerCols)
             /\ u[k].path = table[k].path
             /\ k \in HitBy(table, paths) => ~ u[k].stale /\ u[k].hash = HashAt(paths, table[k].path)
             /\ k \notin HitBy(table, paths) => u[k] = table[k]
  <2>0. DOMAIN table[k] = PointerCols /\ IsRow(table[k], PointerCols) BY DEF IsTable, IsRow
  <2>1. CASE k \notin HitBy(table, paths)
    <3>1. u[k] = table[k] BY <2>1 DEF WithRefreshed
    <3> QED BY <2>0, <2>1, <3>1
  <2>2. CASE k \in HitBy(table, paths)
    <3> DEFINE hash == HashAt(paths, table[k].path)
    <3>1. u[k] = Joined(Refreshed(hash, at), table[k]) BY <2>2 DEF WithRefreshed
    <3> HIDE DEF hash, u
    <3>2. PICK b : b = FALSE /\ Refreshed(hash, at) = [hash |-> hash, stale |-> b, staleAt |-> Null, updated |-> at]
      BY <1>0
    <3>3. /\ "path" \in PointerCols /\ "path" \notin RefreshedCols /\ {"stale", "hash"} \subseteq RefreshedCols
          /\ RefreshedCols \cup PointerCols = PointerCols
      BY DEF PointerCols, RefreshedCols
    <3>4. PICK f : f = Refreshed(hash, at)
      OBVIOUS
    <3>5. DOMAIN f = RefreshedCols BY <3>4, <1>1
    <3>6. Joined(f, table[k]).path = table[k].path BY <3>5, <2>0, <3>3 DEF Joined
    <3>7. Joined(f, table[k]).stale = f.stale /\ Joined(f, table[k]).hash = f.hash BY <3>5, <2>0, <3>3 DEF Joined
    <3>8. f.stale = b /\ f.hash = hash BY <3>2, <3>4
    <3>9. IsRow(Joined(f, table[k]), PointerCols) BY <3>5, <2>0, <3>3 DEF Joined, IsRow
    <3> QED BY <2>2, <3>1, <3>2, <3>4, <3>6, <3>7, <3>8, <3>9 DEF hash
  <2> QED BY <2>1, <2>2
<1> HIDE DEF u
<1>4. IsTable(u, PointerCols)
  BY <1>2, <1>3 DEF IsTable, IsRow
<1> QED BY <1>2, <1>3, <1>4 DEF u

NothingDone == [deleted |-> 0, missing |-> 0, updated |-> 0, candidates |-> 0]
LEMMA SyncSettles ==
  ASSUME NEW d, IsStore(d), NEW input, NEW n \in Nat, ArePaths(SyncPaths(input), n), NEW at, NEW later
  PROVE  SyncCall(SyncCall(d, input, at).db, input, later) = Done(SyncCall(d, input, at).db, NothingDone)
<1> DEFINE paths  == SyncPaths(input)
           first  == WithDeleted(d.pointers, paths, at)
           second == WithMissing(first, input.mode, paths, at)
           third  == WithRefreshed(second, paths, at)
           fresh  == FreshPaths(third, d.candidates, input.insertNew, paths)
           last   == WithFresh(d.candidates, fresh, paths, at)
           count  == [deleted |-> Cardinality(DeletedBy(d.pointers, paths)),
                      missing |-> Cardinality(MissingIn(first, input.mode, paths)),
                      updated |-> Cardinality(HitBy(second, paths)), candidates |-> Cardinality(fresh)]
<1>0. ArePaths(paths, n) /\ DOMAIN paths = 1..n
  BY DEF ArePaths
<1>1. PICK once : once = [[d EXCEPT !["pointers"] = third] EXCEPT !["candidates"] = last]
  OBVIOUS
<1>2. SyncCall(d, input, at) = Done(once, count)
  BY <1>1 DEF SyncCall
<1> HIDE DEF count
<1>3. SyncCall(d, input, at).db = once
  BY <1>2 DEF Done
<1> HIDE DEF paths
<1>4. IsTable(d.pointers, PointerCols) /\ IsTable(d.candidates, CandidateCols)
  BY DEF IsStore, Tables, Columns
<1>5. /\ IsTable(first, PointerCols) /\ DOMAIN first = DOMAIN d.pointers
      /\ \A k \in DOMAIN d.pointers : /\ first[k].path = d.pointers[k].path
                                      /\ k \in DeletedBy(d.pointers, paths) => first[k].stale
                                      /\ k \notin DeletedBy(d.pointers, paths) => first[k] = d.pointers[k]
  BY <1>4, MarkedStale DEF WithDeleted
<1> HIDE DEF first
<1>6. /\ IsTable(second, PointerCols) /\ DOMAIN second = DOMAIN first
      /\ \A k \in DOMAIN first : /\ second[k].path = first[k].path
                                 /\ k \in MissingIn(first, input.mode, paths) => second[k].stale
                                 /\ k \notin MissingIn(first, input.mode, paths) => second[k] = first[k]
  BY <1>5, MarkedStale DEF WithMissing
<1> HIDE DEF second
<1>7. /\ IsTable(third, PointerCols) /\ DOMAIN third = DOMAIN second
      /\ \A k \in DOMAIN second :
            /\ third[k].path = second[k].path
            /\ k \in HitBy(second, paths) => ~ third[k].stale /\ third[k].hash = HashAt(paths, second[k].path)
            /\ k \notin HitBy(second, paths) => third[k] = second[k]
  BY <1>6, RefreshedOnce
<1> HIDE DEF third
<1>8. \A k \in HitBy(second, paths) : second[k].path \in PresentPaths(paths)
  BY DEF HitBy, RefreshHit, PresentPaths
<1>9. \A x \in GonePaths(paths) : x \notin PresentPaths(paths)
  <2> SUFFICES ASSUME NEW i \in 1..n, NEW j \in 1..n, paths[i].deleted, ~ paths[j].deleted,
                      paths[i].key = paths[j].key
               PROVE  FALSE
    BY <1>0 DEF GonePaths, PresentPaths
  <2> QED BY <1>0 DEF ArePaths
<1>10. DeletedBy(third, paths) = {}
  <2> SUFFICES ASSUME NEW k \in DOMAIN third, ~ third[k].stale, third[k].path \in GonePaths(paths)
               PROVE  FALSE
    BY DEF DeletedBy
  <2>1. k \in DOMAIN second /\ k \in DOMAIN first /\ k \in DOMAIN d.pointers BY <1>5, <1>6, <1>7
  <2>2. k \notin HitBy(second, paths) BY <2>1, <1>7, <1>8, <1>9
  <2>3. third[k] = second[k] BY <2>1, <2>2, <1>7
  <2>4. second[k] = first[k] BY <2>1, <2>3, <1>6
  <2>5. first[k] = d.pointers[k] BY <2>1, <2>3, <2>4, <1>5
  <2>6. k \in DeletedBy(d.pointers, paths) BY <2>1, <2>3, <2>4, <2>5 DEF DeletedBy
  <2> QED BY <2>1, <2>3, <2>4, <2>6, <1>5
<1>11. MissingIn(third, input.mode, paths) = {}
  <2> SUFFICES ASSUME input.mode = "full", NEW k \in DOMAIN third, ~ third[k].stale,
                      third[k].path \notin PresentPaths(paths)
               PROVE  FALSE
    BY DEF MissingIn
  <2>1. k \in DOMAIN second /\ k \in DOMAIN first BY <1>6, <1>7
  <2>2. k \notin HitBy(second, paths) BY <2>1, <1>7, <1>8
  <2>3. third[k] = second[k] BY <2>1, <2>2, <1>7
  <2>4. second[k] = first[k] BY <2>1, <2>3, <1>6
  <2>5. k \in MissingIn(first, input.mode, paths) BY <2>1, <2>3, <2>4 DEF MissingIn
  <2> QED BY <2>1, <2>3, <2>5, <1>6
<1>12. HitBy(third, paths) = {}
  <2> SUFFICES ASSUME NEW k \in DOMAIN third, NEW i \in 1..n, k \in RefreshHit(third, paths[i])
               PROVE  FALSE
    BY <1>0 DEF HitBy
  <2>1. /\ k \in DOMAIN second /\ ~ paths[i].deleted /\ third[k].path = paths[i].key /\ second[k].path = paths[i].key
        /\ third[k].stale \/ third[k].hash # paths[i].hash
    BY <1>7 DEF RefreshHit
  <2>2. CASE k \in HitBy(second, paths)
    <3>1. HashAt(paths, paths[i].key) = paths[i].hash BY <1>0, <2>1, HashAtForm
    <3> QED BY <2>1, <2>2, <3>1, <1>7
  <2>3. CASE k \notin HitBy(second, paths)
    <3>1. third[k] = second[k] BY <2>1, <2>3, <1>7
    <3>2. k \in RefreshHit(second, paths[i]) BY <2>1, <3>1 DEF RefreshHit
    <3> QED BY <2>1, <2>3, <3>2, <1>0 DEF HitBy
  <2> QED BY <2>2, <2>3
<1>13. /\ WithDeleted(third, paths, later) = third
       /\ WithMissing(third, input.mode, paths, later) = third
       /\ WithRefreshed(third, paths, later) = third
  <2>1. third = [k \in DOMAIN third |-> third[k]] BY <1>7 DEF IsTable
  <2>2. Set(third, {}, StaleValues(later)) = third BY <2>1 DEF Set
  <2>3. WithDeleted(third, paths, later) = third BY <1>10, <2>2 DEF WithDeleted
  <2>4. WithMissing(third, input.mode, paths, later) = third BY <1>11, <2>2 DEF WithMissing
  <2>5. WithRefreshed(third, paths, later) = third BY <1>12, <2>1 DEF WithRefreshed
  <2> QED BY <2>3, <2>4, <2>5
<1>14. /\ DOMAIN last = DOMAIN d.candidates \cup fresh
       /\ last = [x \in DOMAIN last |-> last[x]]
  BY DEF WithFresh, Joined
<1>15. FreshPaths(third, last, input.insertNew, paths) = {}
  <2> SUFFICES ASSUME NEW x \in PresentPaths(paths), input.insertNew, x \notin DOMAIN last,
                      \A k \in DOMAIN third : third[k].path # x
               PROVE  FALSE
    BY DEF FreshPaths
  <2>1. x \notin DOMAIN d.candidates /\ x \notin fresh
    <3> HIDE DEF last, fresh
    <3> QED BY <1>14
  <2> QED BY <2>1 DEF FreshPaths
<1> HIDE DEF fresh, last
<1>16. WithFresh(last, {}, paths, later) = last
  BY <1>14 DEF WithFresh, Joined
<1>17. {"pointers", "candidates"} \subseteq DOMAIN d
  BY DEF IsStore, Tables
<1>18. once.pointers = third /\ once.candidates = last
       /\ [[once EXCEPT !["pointers"] = third] EXCEPT !["candidates"] = last] = once
  BY <1>1, <1>17
<1>19. Cardinality({}) = 0
  BY FS_EmptySet
<1>20. SyncCall(once, input, later) = Done(once, NothingDone)
  <2>1. SyncCall(once, input, later)
          = Done([[once EXCEPT !["pointers"] = third] EXCEPT !["candidates"] = last],
                 [deleted |-> Cardinality({}), missing |-> Cardinality({}),
                  updated |-> Cardinality({}), candidates |-> Cardinality({})])
    BY <1>10, <1>11, <1>12, <1>13, <1>15, <1>16, <1>18 DEF SyncCall, paths
  <2> QED BY <1>18, <1>19, <2>1 DEF NothingDone
<1> QED BY <1>3, <1>20

(* A merge made again: an entry either sets a field to what it has or leaves it. *)
EitherWay(x, y, a, b) ==
    /\ y.status = x.status \/ (y.status = b.status /\ x.status = a.status)
    /\ y.text = x.text \/ (y.text = b.text /\ x.text = a.text)
    /\ y.reason = x.reason \/ (y.reason = b.reason /\ x.reason = a.reason)
LEMMA SetOrLeft ==
  ASSUME NEW a, NEW b, NEW task
  PROVE  EitherWay(MergeTask(a, task), MergeTask(b, task), a, b)
<1> DEFINE x == MergeTask(a, task)
           y == MergeTask(b, task)
<1>1. x.status = OrElse(task.status, a.status) /\ y.status = OrElse(task.status, b.status)
  BY DEF MergeTask
<1>2. /\ x.text = IF task.text = {} THEN a.text ELSE task.text
      /\ y.text = IF task.text = {} THEN b.text ELSE task.text
  BY DEF MergeTask
<1>3. /\ x.reason = IF task.reason # Blank THEN task.reason
                    ELSE IF task.status \notin {Blank, "blocked"} THEN Blank ELSE a.reason
      /\ y.reason = IF task.reason # Blank THEN task.reason
                    ELSE IF task.status \notin {Blank, "blocked"} THEN Blank ELSE b.reason
  BY DEF MergeTask
<1> HIDE DEF x, y
<1>4. y.status = x.status \/ (y.status = b.status /\ x.status = a.status)
  BY <1>1 DEF OrElse
<1>5. y.text = x.text \/ (y.text = b.text /\ x.text = a.text)
  BY <1>2
<1>6. y.reason = x.reason \/ (y.reason = b.reason /\ x.reason = a.reason)
  BY <1>3
<1> QED BY <1>4, <1>5, <1>6 DEF EitherWay, x, y

LEMMA MergedAgain ==
  ASSUME NEW s, NEW t, NEW list, NEW n \in Nat, NEW X, list \in Seq(X), Len(list) = n, NEW key,
         key \in DOMAIN t, TaskAlike(t[key], MergedTask(s, list, key))
  PROVE  TaskAlike(MergedTask(t, list, key), MergedTask(s, list, key))
<1>0. /\ \E a : MergeRun(a, s, list, n, key)
      /\ \E b : MergeRun(b, t, list, n, key)
  BY MergeSteps
<1>1. PICK a : /\ a[0] = StoredTask(s, key)
               /\ \A k \in 1..n : a[k] = MergeStep(a[k-1], list[k], key)
               /\ MergedTask(s, list, key) = a[n]
  BY <1>0 DEF MergeRun
<1>2. PICK b : /\ b[0] = StoredTask(t, key)
               /\ \A k \in 1..n : b[k] = MergeStep(b[k-1], list[k], key)
               /\ MergedTask(t, list, key) = b[n]
  BY <1>0 DEF MergeRun
<1> DEFINE Good(k) == /\ b[k].status = a[k].status \/ (b[k].status = b[0].status /\ a[k].status = a[0].status)
                      /\ b[k].text = a[k].text \/ (b[k].text = b[0].text /\ a[k].text = a[0].text)
                      /\ b[k].reason = a[k].reason \/ (b[k].reason = b[0].reason /\ a[k].reason = a[0].reason)
           T == {k \in Nat : k <= n => Good(k)}
<1>3. Good(0)
  OBVIOUS
<1>4. ASSUME NEW m \in Nat, m + 1 <= n, Good(m) PROVE Good(m + 1)
  <2>1. /\ m + 1 \in 1..n /\ (m + 1) - 1 = m
        /\ a[m+1] = MergeStep(a[m], list[m+1], key) /\ b[m+1] = MergeStep(b[m], list[m+1], key)
    <3>1. m + 1 \in 1..n /\ (m + 1) - 1 = m BY <1>4
    <3> QED BY <3>1, <1>1, <1>2
  <2>2. CASE list[m+1].key = key
    <3>1. a[m+1] = MergeTask(a[m], list[m+1]) /\ b[m+1] = MergeTask(b[m], list[m+1])
      BY <2>1, <2>2 DEF MergeStep
    <3>2. EitherWay(a[m+1], b[m+1], a[m], b[m]) BY <3>1, SetOrLeft
    <3>3. PICK p, q : p = a[m+1] /\ q = b[m+1]
      OBVIOUS
    <3>4. q.status = p.status \/ (q.status = b[0].status /\ p.status = a[0].status) BY <3>2, <3>3, <1>4 DEF EitherWay
    <3>5. q.text = p.text \/ (q.text = b[0].text /\ p.text = a[0].text) BY <3>2, <3>3, <1>4 DEF EitherWay
    <3>6. q.reason = p.reason \/ (q.reason = b[0].reason /\ p.reason = a[0].reason) BY <3>2, <3>3, <1>4 DEF EitherWay
    <3> QED BY <3>3, <3>4, <3>5, <3>6
  <2>3. CASE list[m+1].key # key
    <3>1. a[m+1] = a[m] /\ b[m+1] = b[m] BY <2>1, <2>3 DEF MergeStep
    <3> QED BY <3>1, <1>4
  <2> QED BY <2>2, <2>3
<1>5. n \in T
  <2>1. 0 \in T BY <1>3
  <2>2. ASSUME NEW m \in Nat, m \in T PROVE m + 1 \in T
    <3> SUFFICES ASSUME m + 1 <= n PROVE Good(m + 1)
      OBVIOUS
    <3>1. m <= n /\ Good(m)
      <4> HIDE DEF Good
      <4> QED BY <2>2
    <3> HIDE DEF Good
    <3> QED BY <3>1, <1>4
  <2> HIDE DEF T
  <2> QED BY <2>1, <2>2, Induction
<1>6. TaskAlike(b[0], a[n])
  BY <1>1, <1>2 DEF StoredTask
<1>7. Good(n)
  <2> HIDE DEF Good
  <2> QED BY <1>5
<1>8. b[0].status = a[n].status /\ b[0].text = a[n].text /\ b[0].reason = a[n].reason
  BY <1>6 DEF TaskAlike
<1>9. b[n].status = a[n].status /\ b[n].text = a[n].text /\ b[n].reason = a[n].reason
  BY <1>7, <1>8
<1> QED BY <1>1, <1>2, <1>9 DEF TaskAlike

(* The tasks that a plan is given, and given again. *)
RowsAlike(rows, again, m) ==
    /\ DOMAIN rows = 1..m /\ DOMAIN again = 1..m
    /\ \A i \in 1..m : again[i].key = rows[i].key /\ TaskAlike(again[i], rows[i])
LEMMA IncomingAgain ==
  ASSUME NEW s, NEW t, NEW input \in PlanInputs,
         input.mode # "replace" =>
            \A key \in KeysOf(input.tasks) :
               key \in DOMAIN t /\ TaskAlike(t[key], MergedTask(s, input.tasks, key))
  PROVE  \E m \in Nat : RowsAlike(IncomingTasks(s, input), IncomingTasks(t, input), m)
<1> DEFINE list == input.tasks
           X == [key : Int, status : Optional(Statuses), text : Text, reason : Optional(STRING)]
           n == Len(list)
           ks == SortedKeys(list)
<1>1. list \in Seq(X)
  BY InputAssumption
<1>2. n \in Nat /\ DOMAIN list = 1..n /\ \A i \in 1..n : list[i] \in X
  BY <1>1, SeqElements
<1>3. \A i \in 1..n : list[i].key \in Int
  BY <1>2
<1> HIDE DEF X
<1>4. CASE input.mode = "replace"
  <2>1. IncomingTasks(s, input) = IncomingTasks(t, input)
    BY <1>4 DEF IncomingTasks
  <2>2. IncomingOnce(IncomingTasks(s, input), list)
    <3>1. TasksAlike(s, s) BY DEF TasksAlike, TaskAlike
    <3> QED BY <3>1, IncomingAlike
  <2> DEFINE rows == IncomingTasks(s, input)
  <2> HIDE DEF rows
  <2>3. PICK m \in Nat : DOMAIN rows = 1..m BY <2>2 DEF IncomingOnce, rows
  <2>4. RowsAlike(rows, rows, m) BY <2>3 DEF RowsAlike, TaskAlike
  <2> QED BY <2>1, <2>4 DEF rows
<1>5. CASE input.mode # "replace"
  <2>1. /\ IncomingTasks(s, input) = [i \in DOMAIN ks |-> MergedTask(s, list, ks[i])]
        /\ IncomingTasks(t, input) = [i \in DOMAIN ks |-> MergedTask(t, list, ks[i])]
    BY <1>5 DEF IncomingTasks
  <2>2. PICK m \in Nat : DOMAIN ks = 1..m /\ \A i \in 1..m : ks[i] \in KeysOf(list)
    BY <1>2, <1>3, SortedKeysOnce
  <2> HIDE DEF ks
  <2>3. ASSUME NEW i \in 1..m
        PROVE  /\ MergedTask(s, list, ks[i]).key = ks[i] /\ MergedTask(t, list, ks[i]).key = ks[i]
               /\ TaskAlike(MergedTask(t, list, ks[i]), MergedTask(s, list, ks[i]))
    <3>1. ks[i] \in KeysOf(list) BY <2>2
    <3>2. TasksAlike(s, s) /\ TasksAlike(t, t) BY DEF TasksAlike, TaskAlike
    <3>3. ks[i] \in DOMAIN t /\ TaskAlike(t[ks[i]], MergedTask(s, list, ks[i])) BY <3>1, <1>5
    <3> HIDE DEF list
    <3>4. MergedTask(s, list, ks[i]).key = ks[i] /\ MergedTask(t, list, ks[i]).key = ks[i]
      BY <3>1, <3>2, <1>1, <1>2, MergedAlike
    <3>5. TaskAlike(MergedTask(t, list, ks[i]), MergedTask(s, list, ks[i]))
      BY <3>3, <1>1, <1>2, MergedAgain
    <3> QED BY <3>4, <3>5
  <2> DEFINE rows  == IncomingTasks(s, input)
             again == IncomingTasks(t, input)
  <2>4. DOMAIN rows = 1..m /\ DOMAIN again = 1..m
        /\ \A i \in 1..m : rows[i] = MergedTask(s, list, ks[i]) /\ again[i] = MergedTask(t, list, ks[i])
    BY <2>1, <2>2
  <2> HIDE DEF rows, again, list
  <2>5. RowsAlike(rows, again, m)
    BY <2>3, <2>4 DEF RowsAlike
  <2> QED BY <2>5 DEF rows, again
<1> QED BY <1>4, <1>5

LEMMA TaskRowFields ==
  ASSUME NEW task, NEW at, NEW row, row = TaskRow(task, at)
  PROVE  TaskAlike(row, task)
BY DEF TaskRow, TaskAlike

LEMMA TasksAgain ==
  ASSUME NEW d, IsStore(d), NEW input \in PlanInputs, NEW at \in Int, NEW later \in Int,
         NEW once, once.tasks = TasksWritten(d.tasks, d, input, at), input.key \in DOMAIN once.plans
  PROVE  SameTable(once.tasks, TasksWritten(once.tasks, once, input, later), Columns.tasks)
<1> DEFINE s    == StoredTasks(d, input)
           t    == StoredTasks(once, input)
           list == input.tasks
           rows == IncomingTasks(s, input)
           more == IncomingTasks(t, input)
           e    == TaskEntries(input.key, rows, at)
           el   == TaskEntries(input.key, more, later)
           kept == Delete(d.tasks, DoomedTasks(d, input))
           u    == once.tasks
           D    == DoomedTasks(once, input)
<1>1. IncomingOnce(rows, list)
  <2>1. TasksAlike(s, s) BY DEF TasksAlike, TaskAlike
  <2> QED BY <2>1, IncomingAlike
<1>2. PICK m \in Nat : DOMAIN rows = 1..m /\ \A i, j \in 1..m : rows[i].key = rows[j].key => i = j
  <2> HIDE DEF rows
  <2> QED BY <1>1 DEF IncomingOnce
<1> HIDE DEF rows
<1>3. ASSUME NEW i \in 1..m
      PROVE  e[i].key = <<input.key, rows[i].key>> /\ e[i].row = TaskRow(rows[i], at)
  BY <1>2 DEF TaskEntries, TaskRow
<1>4. EntriesAgree(TaskEntries(input.key, rows, LiteTime(at)), e, m, Columns.tasks)
  BY <1>2, TaskEntriesAgree
<1> HIDE DEF e
<1>5. AreEntries(e, m, Columns.tasks) /\ \A i, j \in 1..m : e[i].key = e[j].key => i = j
  BY <1>4 DEF EntriesAgree
<1>6. /\ IsTable(d.tasks, Columns.tasks) /\ ArePairs(d.tasks)
      /\ TaskCols \in SUBSET Columns.tasks /\ Columns.tasks \ Times \subseteq TaskCols
  BY DEF IsStore, Tables, TaskCols, Columns, Times
<1>7. /\ kept = [k \in DOMAIN kept |-> kept[k]] /\ DOMAIN kept = DOMAIN d.tasks \ DoomedTasks(d, input)
      /\ \A k \in DOMAIN kept : kept[k] = d.tasks[k]
  BY DEF Delete
<1>8. u = UpsertEach(kept, e, TaskCols)
  BY DEF TasksWritten, e, rows
<1> HIDE DEF kept, u
<1>9. IsTable(kept, Columns.tasks)
  BY <1>6, <1>7 DEF IsTable
<1>10. /\ Holds(u, e, m, TaskCols) /\ IsTable(u, Columns.tasks)
       /\ UpsertedUpTo(u, kept, e, m, TaskCols)
  BY <1>5, <1>6, <1>8, <1>9, UpsertEachHolds, UpsertEachForm
<1>11. DOMAIN u = DOMAIN kept \cup EntryKeys(e, m)
  BY <1>10 DEF UpsertedUpTo
<1>12. ASSUME NEW i \in 1..m
       PROVE  <<input.key, rows[i].key>> \in DOMAIN u /\ TaskAlike(u[<<input.key, rows[i].key>>], rows[i])
  <2>1. e[i].key \in DOMAIN u /\ \A c \in TaskCols \ Times : u[e[i].key][c] = e[i].row[c]
    BY <1>10 DEF Holds
  <2>2. \A c \in {"status", "text", "reason"} : u[e[i].key][c] = e[i].row[c]
    BY <2>1 DEF TaskCols, Times
  <2>3. TaskAlike(e[i].row, rows[i])
    BY <1>3, TaskRowFields
  <2> QED BY <2>1, <2>2, <2>3, <1>3 DEF TaskAlike
<1>13. input.mode # "replace" =>
          \A key \in KeysOf(list) : key \in DOMAIN t /\ TaskAlike(t[key], MergedTask(s, list, key))
  <2> SUFFICES ASSUME input.mode # "replace", NEW key \in KeysOf(list)
               PROVE  key \in DOMAIN t /\ TaskAlike(t[key], MergedTask(s, list, key))
    OBVIOUS
  <2>1. /\ list \in Seq([key : Int, status : Optional(Statuses), text : Text, reason : Optional(STRING)])
        /\ input.mode = "merge"
    BY InputAssumption
  <2>2. /\ Len(list) \in Nat /\ DOMAIN list = 1..Len(list)
        /\ \A i \in 1..Len(list) : list[i].key \in Int
    <3>1. Len(list) \in Nat /\ DOMAIN list = 1..Len(list)
          /\ \A i \in 1..Len(list) :
                list[i] \in [key : Int, status : Optional(Statuses), text : Text, reason : Optional(STRING)]
      BY <2>1, SeqElements
    <3> QED BY <3>1
  <2>3. list # <<>>
    BY DEF KeysOf
  <2>4. t = TasksAt(once, input.key)
    BY <2>1, <2>3 DEF StoredTasks
  <2>5. PICK i \in 1..m : rows[i] = MergedTask(s, list, key) /\ rows[i].key = key
    <3>1. rows = [i \in DOMAIN SortedKeys(list) |-> MergedTask(s, list, SortedKeys(list)[i])]
      BY <2>1 DEF rows, IncomingTasks
    <3>2. PICK i \in DOMAIN SortedKeys(list) : SortedKeys(list)[i] = key
      BY <2>2, SortedKeysOnce
    <3>3. i \in 1..m /\ rows[i] = MergedTask(s, list, key)
      BY <3>1, <3>2, <1>2
    <3>4. MergedTask(s, list, key).key = key
      <4>1. TasksAlike(s, s) BY DEF TasksAlike, TaskAlike
      <4> HIDE DEF s, list
      <4> QED BY <2>1, <2>2, <4>1, MergedAlike
    <3> QED BY <3>3, <3>4
  <2>6. <<input.key, key>> \in DOMAIN u /\ TaskAlike(u[<<input.key, key>>], MergedTask(s, list, key))
    BY <2>5, <1>12
  <2>7. PICK q : q = {k[2] : k \in {x \in DOMAIN u : x[1] = input.key}}
    OBVIOUS
  <2>8. t = [k \in q |-> u[<<input.key, k>>]]
    BY <2>4, <2>7 DEF TasksAt, u
  <2>9. key \in q
    BY <2>6, <2>7
  <2> HIDE DEF t
  <2> QED BY <2>6, <2>8, <2>9
<1>14. \E k \in Nat : RowsAlike(rows, more, k)
  BY <1>13, IncomingAgain DEF rows
<1> HIDE DEF more, t, s
<1>15. DOMAIN more = 1..m /\ \A i \in 1..m : more[i].key = rows[i].key /\ TaskAlike(more[i], rows[i])
  <2>1. PICK k \in Nat : RowsAlike(rows, more, k) BY <1>14
  <2>2. DOMAIN more = DOMAIN rows /\ \A i \in DOMAIN rows : more[i].key = rows[i].key /\ TaskAlike(more[i], rows[i])
    BY <2>1 DEF RowsAlike
  <2> QED BY <2>2, <1>2
<1>16. ASSUME NEW i \in 1..m
       PROVE  el[i].key = <<input.key, rows[i].key>> /\ el[i].row = TaskRow(more[i], later)
  BY <1>15 DEF TaskEntries, TaskRow
<1>17. EntriesAgree(TaskEntries(input.key, more, LiteTime(later)), el, m, Columns.tasks)
  BY <1>2, <1>15, TaskEntriesAgree
<1>18. TasksWritten(u, once, input, later) = UpsertEach(Delete(u, D), el, TaskCols)
  BY DEF TasksWritten, more, t
<1> HIDE DEF el
<1>19. AreEntries(el, m, Columns.tasks) /\ \A i, j \in 1..m : el[i].key = el[j].key => i = j
  BY <1>17 DEF EntriesAgree
<1>20. Holds(u, el, m, TaskCols)
  <2>1. ASSUME NEW i \in 1..m
        PROVE  /\ el[i].key \in DOMAIN u
               /\ \A c \in {"status", "text", "reason"} : u[el[i].key][c] = el[i].row[c]
    <3>1. TaskAlike(el[i].row, more[i])
      BY <1>16, TaskRowFields
    <3>2. TaskAlike(more[i], rows[i]) /\ TaskAlike(u[el[i].key], rows[i]) /\ el[i].key \in DOMAIN u
      BY <1>12, <1>15, <1>16
    <3> QED BY <3>1, <3>2 DEF TaskAlike
  <2>2. TaskCols \ Times \subseteq {"status", "text", "reason"} BY DEF TaskCols, Times
  <2> QED BY <2>1, <2>2 DEF Holds
<1>21. EntryKeys(el, m) = EntryKeys(e, m)
  BY <1>3, <1>16 DEF EntryKeys
<1>22. D \in SUBSET EntryKeys(el, m)
  <2> SUFFICES ASSUME NEW k \in D PROVE k \in EntryKeys(e, m)
    BY <1>21
  <2>1. k \in DOMAIN u /\ input.mode = "replace" /\ k[1] = input.key
    BY DEF DoomedTasks, u
  <2>2. k \notin DOMAIN kept
    BY <2>1, <1>7 DEF DoomedTasks
  <2> QED BY <2>1, <2>2, <1>11
<1> HIDE DEF D
<1>23. SameTable(u, UpsertEach(Delete(u, D), el, TaskCols), Columns.tasks)
  BY <1>6, <1>10, <1>19, <1>20, <1>22, UpsertEachAgain
<1> QED BY <1>18, <1>23 DEF u

(* The statuses that a plan's own is derived from. *)
LEMMA StatusesAgain ==
  ASSUME NEW l, NEW p, SameTable(l.tasks, p.tasks, Columns.tasks), ArePairs(l.tasks), NEW plan
  PROVE  StatusesAt(l, plan) = StatusesAt(p, plan)
<1>1. "status" \in Columns.tasks \ Times /\ DOMAIN l.tasks = DOMAIN p.tasks
  BY DEF Columns, Times, SameTable
<1>2. \A k \in DOMAIN l.tasks : l.tasks[k].status = p.tasks[k].status
  BY <1>1 DEF SameTable
<1>3. PICK q : q = {k[2] : k \in {x \in DOMAIN l.tasks : x[1] = plan}}
  OBVIOUS
<1>4. TasksAt(l, plan) = [t \in q |-> l.tasks[<<plan, t>>]] /\ TasksAt(p, plan) = [t \in q |-> p.tasks[<<plan, t>>]]
  BY <1>1, <1>3 DEF TasksAt
<1>5. \A t \in q : <<plan, t>> \in DOMAIN l.tasks
  BY <1>3 DEF ArePairs
<1>6. \A t \in q : l.tasks[<<plan, t>>].status = p.tasks[<<plan, t>>].status
  BY <1>2, <1>5
<1>7. StatusesAt(l, plan) = {l.tasks[<<plan, t>>].status : t \in q}
  BY <1>4 DEF StatusesAt
<1>8. StatusesAt(p, plan) = {p.tasks[<<plan, t>>].status : t \in q}
  BY <1>4 DEF StatusesAt
<1> QED BY <1>6, <1>7, <1>8

(* The columns of a plan, given again. *)
PlanColumns == {"receipt", "text", "kind", "stages"}
LEMMA NextPlanAgain ==
  ASSUME NEW base, NEW input, NEW row,
         \A c \in PlanColumns : row[c] = NextPlan(base, input)[c],
         input.status # Blank => row.status = NextPlan(base, input).status
  PROVE  /\ \A c \in PlanColumns : NextPlan(row, input)[c] = row[c]
         /\ input.status # Blank => NextPlan(row, input).status = row.status
<1> DEFINE next == NextPlan(base, input)
           more == NextPlan(row, input)
           old  == IF input.mode = "replace" THEN EmptyPlan ELSE base
           new  == IF input.mode = "replace" THEN EmptyPlan ELSE row
<1>1. /\ next.receipt = OrElse(input.receipt, old.receipt) /\ next.kind = OrElse(input.kind, old.kind)
      /\ next.stages = OrElse(input.stages, old.stages) /\ next.status = OrElse(input.status, old.status)
      /\ next.text = IF input.text = {} THEN old.text ELSE input.text
  BY DEF NextPlan
<1>2. /\ more.receipt = OrElse(input.receipt, new.receipt) /\ more.kind = OrElse(input.kind, new.kind)
      /\ more.stages = OrElse(input.stages, new.stages) /\ more.status = OrElse(input.status, new.status)
      /\ more.text = IF input.text = {} THEN new.text ELSE input.text
  BY DEF NextPlan
<1>3. new = old \/ new = row
  OBVIOUS
<1> HIDE DEF next, more, old, new
<1>4. /\ row.receipt = next.receipt /\ row.kind = next.kind /\ row.stages = next.stages /\ row.text = next.text
      /\ input.status # Blank => row.status = next.status
  BY DEF PlanColumns, next
<1>5. more.receipt = row.receipt
  BY <1>1, <1>2, <1>3, <1>4 DEF OrElse
<1>6. more.kind = row.kind
  BY <1>1, <1>2, <1>3, <1>4 DEF OrElse
<1>7. more.stages = row.stages
  BY <1>1, <1>2, <1>3, <1>4 DEF OrElse
<1>8. more.text = row.text
  BY <1>1, <1>2, <1>3, <1>4
<1>9. input.status # Blank => more.status = row.status
  BY <1>1, <1>2, <1>3, <1>4 DEF OrElse
<1>10. \A c \in PlanColumns : more[c] = row[c]
  BY <1>5, <1>6, <1>7, <1>8 DEF PlanColumns
<1> QED BY <1>9, <1>10 DEF more

(* The row of a plan, written again. *)
LEMMA PlanRowAgain ==
  ASSUME NEW table, IsTable(table, Columns.plans), NEW key \in DOMAIN table, NEW b, IsRow(b, Columns.plans),
         \A c \in PlanColumns : b[c] = table[key][c]
  PROVE  LET u == Upsert(table, key, b, PlanCols)
         IN  /\ b.status = table[key].status => SameTable(table, u, Columns.plans)
             /\ SameTable(table, WithStatus(u, key, table[key].status), Columns.plans)
<1> DEFINE Cols == Columns.plans
           u == Upsert(table, key, b, PlanCols)
           w == WithStatus(u, key, table[key].status)
<1>0. DOMAIN b = Cols /\ "status" \in Cols /\ "status" \in PlanCols /\ DOMAIN table[key] = Cols
      /\ PlanCols \ Times = PlanColumns \cup {"status"}
  BY DEF IsRow, Columns, PlanCols, IsTable, Times, PlanColumns
<1>1. /\ DOMAIN u = DOMAIN table /\ u = [k \in DOMAIN u |-> u[k]]
      /\ \A k \in DOMAIN table : k # key => u[k] = table[k]
      /\ u[key] = [c \in Cols |-> IF c \in PlanCols THEN b[c] ELSE table[key][c]]
  BY <1>0 DEF Upsert
<1> HIDE DEF u, Cols
<1>2. /\ DOMAIN w = DOMAIN u /\ w = [k \in DOMAIN w |-> w[k]]
      /\ \A k \in DOMAIN u : w[k] = IF k = key THEN [u[k] EXCEPT !.status = table[key].status] ELSE u[k]
  BY DEF WithStatus
<1> HIDE DEF w
<1>3. w[key] = [c \in Cols |-> IF c = "status" THEN table[key].status ELSE u[key][c]]
  BY <1>1, <1>2
<1>4. \A k \in DOMAIN table : k # key => w[k] = table[k]
  BY <1>1, <1>2
<1>5. IsTable(u, Cols) /\ IsTable(w, Cols)
  <2>1. \A k \in DOMAIN table : table[k] = [c \in Cols |-> table[k][c]] BY DEF IsTable, Cols
  <2>2. ASSUME NEW k \in DOMAIN table
        PROVE  u[k] = [c \in Cols |-> u[k][c]] /\ w[k] = [c \in Cols |-> w[k][c]]
    <3>1. CASE k = key BY <3>1, <1>1, <1>3
    <3>2. CASE k # key
      <4>1. u[k] = table[k] /\ w[k] = table[k] BY <3>2, <1>1, <1>4
      <4> QED BY <4>1, <2>1
    <3> QED BY <3>1, <3>2
  <2> QED BY <1>1, <1>2, <2>2 DEF IsTable
<1>6. \A c \in Cols \ Times : c # "status" => u[key][c] = table[key][c]
  BY <1>0, <1>1
<1>7. u[key].status = b.status
  BY <1>0, <1>1
<1>8. ASSUME b.status = table[key].status PROVE SameTable(table, u, Cols)
  <2>1. ASSUME NEW k \in DOMAIN table, NEW c \in Cols \ Times PROVE table[k][c] = u[k][c]
    BY <1>1, <1>6, <1>7, <1>8
  <2> QED BY <1>1, <1>5, <2>1 DEF SameTable, Cols
<1>9. SameTable(table, w, Cols)
  <2>1. ASSUME NEW k \in DOMAIN table, NEW c \in Cols \ Times PROVE table[k][c] = w[k][c]
    <3>1. CASE k # key BY <3>1, <1>4
    <3>2. CASE k = key /\ c = "status" BY <3>2, <1>3, <1>0
    <3>3. CASE k = key /\ c # "status" BY <3>3, <1>3, <1>6
    <3> QED BY <3>1, <3>2, <3>3
  <2> QED BY <1>1, <1>2, <1>5, <2>1 DEF SameTable, Cols
<1> QED BY <1>8, <1>9 DEF u, w, Cols

LEMMA PlanCallTables ==
  ASSUME NEW d, {"plans", "tasks"} \subseteq DOMAIN d, NEW input, NEW at
  PROVE  LET r == PlanCall(d, input, at).db
             u == PlanTable(d, input, at)
         IN  /\ \A f \in DOMAIN d : f \notin {"plans", "tasks"} => r[f] = d[f]
             /\ r.tasks = TasksWritten(d.tasks, d, input, at)
             /\ input.status # Blank => r.plans = u
             /\ input.status = Blank => r.plans = WithStatus(u, input.key, DerivePlanStatus(StatusesAt(r, input.key)))
<1> DEFINE r == PlanCall(d, input, at).db
           u == PlanTable(d, input, at)
           x == TasksWritten(d.tasks, d, input, at)
           n == Cardinality(DoomedTasks(d, input)) + Len(IncomingTasks(StoredTasks(d, input), input))
<1>1. PlanWritten(d, input, at) = [[d EXCEPT !["plans"] = u] EXCEPT !["tasks"] = x]
  BY DEF PlanWritten, PlanTable
<1> HIDE DEF u, x
<1>2. PICK w : w = [[d EXCEPT !["plans"] = u] EXCEPT !["tasks"] = x]
  OBVIOUS
<1>3. /\ w.plans = u /\ w.tasks = x /\ DOMAIN w = DOMAIN d
      /\ \A f \in DOMAIN d : f \notin {"plans", "tasks"} => w[f] = d[f]
  BY <1>2
<1>4. CASE input.status # Blank
  <2>1. r = w
    BY <1>1, <1>2, <1>4 DEF PlanCall, Done
  <2> HIDE DEF r
  <2> QED BY <1>3, <1>4, <2>1 DEF r, u, x
<1>5. CASE input.status = Blank
  <2>1. PICK s : s = DerivePlanStatus(StatusesAt(w, input.key))
    OBVIOUS
  <2>2. [w EXCEPT !.plans[input.key].status = s] = [w EXCEPT !["plans"] = WithStatus(w.plans, input.key, s)]
    BY Zenon DEF WithStatus
  <2>3. PlanCall(d, input, at) = Done([w EXCEPT !.plans[input.key].status = s], n)
    BY <1>1, <1>2, <1>5, <2>1, Zenon DEF PlanCall
  <2>4. PICK y : y = WithStatus(w.plans, input.key, s)
    OBVIOUS
  <2>5. r = [w EXCEPT !["plans"] = y]
    BY <2>2, <2>3, <2>4 DEF Done
  <2> HIDE DEF r
  <2>6. r.plans = y /\ r.tasks = x /\ \A f \in DOMAIN d : f \notin {"plans", "tasks"} => r[f] = d[f]
    BY <1>3, <2>5
  <2>7. StatusesAt(w, input.key) = StatusesAt(r, input.key)
    BY <1>3, <2>6 DEF StatusesAt, TasksAt
  <2>8. r.plans = WithStatus(u, input.key, DerivePlanStatus(StatusesAt(r, input.key)))
    BY <1>3, <2>1, <2>4, <2>6, <2>7
  <2> QED BY <1>5, <2>6, <2>8 DEF r, u, x
<1> QED BY <1>4, <1>5

(* The plan's row, as a call has left it. *)
LEMMA PlanRowWritten ==
  ASSUME NEW d, NEW input, NEW at, IsTable(d.plans, Columns.plans)
  PROVE  LET u    == PlanTable(d, input, at)
             next == NextPlan(PlanNow(d, input), input)
         IN  /\ input.key \in DOMAIN u /\ DOMAIN u[input.key] = Columns.plans
             /\ \A c \in PlanColumns : u[input.key][c] = next[c]
             /\ u[input.key].status = next.status
<1> DEFINE u    == PlanTable(d, input, at)
           next == NextPlan(PlanNow(d, input), input)
           b    == PlanRow(next, at)
<1>0. PICK r, x, k, s, g : next = [receipt |-> r, text |-> x, kind |-> k, status |-> s, stages |-> g]
  BY DEF NextPlan
<1>1. u = Upsert(d.plans, input.key, b, PlanCols)
  BY DEF PlanTable
<1> HIDE DEF next, u
<1>2. DOMAIN b = Columns.plans /\ \A c \in PlanColumns \cup {"status"} : b[c] = next[c]
  BY <1>0 DEF PlanRow, Joined, Columns, PlanColumns
<1> HIDE DEF b
<1>3. /\ input.key \in DOMAIN u /\ DOMAIN u[input.key] = Columns.plans
      /\ \A c \in PlanCols : u[input.key][c] = b[c]
  <2>1. PlanCols \subseteq Columns.plans BY DEF PlanCols, Columns
  <2> QED BY <1>1, <1>2, <2>1 DEF Upsert
<1>4. PlanColumns \cup {"status"} \subseteq PlanCols
  BY DEF PlanColumns, PlanCols
<1>5. \A c \in PlanColumns \cup {"status"} : u[input.key][c] = next[c]
  BY <1>2, <1>3, <1>4
<1> QED BY <1>3, <1>5 DEF u, next

LEMMA WithStatusRow ==
  ASSUME NEW u, NEW key \in DOMAIN u, NEW status, "status" \in DOMAIN u[key]
  PROVE  LET w == WithStatus(u, key, status)
         IN  /\ DOMAIN w = DOMAIN u /\ w[key].status = status
             /\ \A c \in DOMAIN u[key] : c # "status" => w[key][c] = u[key][c]
<1> DEFINE w == WithStatus(u, key, status)
<1>1. DOMAIN w = DOMAIN u /\ w[key] = [u[key] EXCEPT !.status = status]
  BY DEF WithStatus
<1> HIDE DEF w
<1> QED BY <1>1 DEF w

LEMMA PlanAgain ==
  ASSUME NEW d, IsStore(d), NEW input \in PlanInputs, NEW at \in Int, NEW later \in Int,
         NEW once, once = PlanCall(d, input, at).db, IsStore(once)
  PROVE  SameButTimes(once, PlanCall(once, input, later).db)
<1> DEFINE key   == input.key
           again == PlanCall(once, input, later).db
           u     == PlanTable(d, input, at)
           next  == NextPlan(PlanNow(d, input), input)
           row   == once.plans[key]
           b     == PlanRow(NextPlan(row, input), later)
           v     == Upsert(once.plans, key, b, PlanCols)
<1>1. /\ {"plans", "tasks"} \subseteq DOMAIN d /\ {"plans", "tasks"} \subseteq DOMAIN once
      /\ DOMAIN once = Tables \cup {"nextRun", "nextAttempt"}
      /\ IsTable(d.plans, Columns.plans) /\ IsTable(once.plans, Columns.plans) /\ ArePairs(once.tasks)
  BY DEF IsStore, Tables
<1>2. /\ once.tasks = TasksWritten(d.tasks, d, input, at)
      /\ input.status # Blank => once.plans = u
      /\ input.status = Blank => once.plans = WithStatus(u, key, DerivePlanStatus(StatusesAt(once, key)))
  BY <1>1, PlanCallTables
<1>3. /\ key \in DOMAIN u /\ DOMAIN u[key] = Columns.plans
      /\ \A c \in PlanColumns : u[key][c] = next[c]
      /\ u[key].status = next.status
  BY <1>1, PlanRowWritten
<1> HIDE DEF u, next
<1>4. /\ key \in DOMAIN once.plans
      /\ \A c \in PlanColumns : row[c] = next[c]
      /\ input.status # Blank => row.status = next.status
      /\ input.status = Blank => row.status = DerivePlanStatus(StatusesAt(once, key))
  <2>1. CASE input.status # Blank BY <2>1, <1>2, <1>3
  <2>2. CASE input.status = Blank
    <3>1. "status" \in Columns.plans /\ PlanColumns \subseteq Columns.plans /\ "status" \notin PlanColumns
      BY DEF Columns, PlanColumns
    <3>2. PICK s : s = DerivePlanStatus(StatusesAt(once, key)) OBVIOUS
    <3>3. once.plans = WithStatus(u, key, s) BY <2>2, <3>2, <1>2
    <3>4. /\ DOMAIN once.plans = DOMAIN u /\ row.status = s
          /\ \A c \in DOMAIN u[key] : c # "status" => row[c] = u[key][c]
      BY <3>1, <3>3, <1>3, WithStatusRow
    <3> QED BY <2>2, <3>1, <3>2, <3>4, <1>3
  <2> QED BY <2>1, <2>2
<1>5. /\ \A c \in PlanColumns : NextPlan(row, input)[c] = row[c]
      /\ input.status # Blank => NextPlan(row, input).status = row.status
  <2> HIDE DEF row
  <2> QED BY <1>4, NextPlanAgain DEF next
<1>6. PlanTable(once, input, later) = v
  BY <1>4 DEF PlanTable, PlanNow
<1>7. IsRow(b, Columns.plans)
  BY PlanRowsAgree
<1>8. \A c \in PlanColumns \cup {"status"} : b[c] = NextPlan(row, input)[c]
  <2>1. PICK r, x, k, s, g : NextPlan(row, input) = [receipt |-> r, text |-> x, kind |-> k, status |-> s, stages |-> g]
    BY DEF NextPlan
  <2> HIDE DEF row
  <2> QED BY <2>1 DEF PlanRow, Joined, PlanColumns
<1> HIDE DEF b
<1>9. /\ b.status = row.status => SameTable(once.plans, v, Columns.plans)
      /\ SameTable(once.plans, WithStatus(v, key, row.status), Columns.plans)
  BY <1>1, <1>4, <1>5, <1>7, <1>8, PlanRowAgain
<1> HIDE DEF v, again
<1>10. /\ \A f \in DOMAIN once : f \notin {"plans", "tasks"} => again[f] = once[f]
       /\ again.tasks = TasksWritten(once.tasks, once, input, later)
       /\ input.status # Blank => again.plans = v
       /\ input.status = Blank => again.plans = WithStatus(v, key, DerivePlanStatus(StatusesAt(again, key)))
  BY <1>1, <1>6, PlanCallTables DEF again
<1>11. SameTable(once.tasks, again.tasks, Columns.tasks)
  BY <1>2, <1>4, <1>10, TasksAgain
<1>12. StatusesAt(once, key) = StatusesAt(again, key)
  BY <1>1, <1>11, StatusesAgain
<1>13. SameTable(once.plans, again.plans, Columns.plans)
  <2>1. CASE input.status # Blank
    <3>1. b.status = row.status BY <2>1, <1>5, <1>8
    <3> QED BY <2>1, <3>1, <1>9, <1>10
  <2>2. CASE input.status = Blank
    <3>1. again.plans = WithStatus(v, key, row.status) BY <2>2, <1>4, <1>10, <1>12
    <3> QED BY <3>1, <1>9
  <2> QED BY <2>1, <2>2
<1>14. ASSUME NEW f \in Tables
       PROVE  /\ DOMAIN once[f] = DOMAIN again[f]
              /\ \A k \in DOMAIN once[f] : Timeless(once[f][k]) = Timeless(again[f][k])
  <2>1. CASE f = "plans" BY <2>1, <1>13, TimelessEqual
  <2>2. CASE f = "tasks" BY <2>2, <1>11, TimelessEqual
  <2>3. CASE f \notin {"plans", "tasks"}
    <3>1. again[f] = once[f] BY <2>3, <1>1, <1>10
    <3> QED BY <3>1
  <2> QED BY <2>1, <2>2, <2>3
<1>15. SameButTimes(once, again)
  BY <1>14 DEF SameButTimes
<1> QED BY <1>15 DEF again

-------------------------------------------------------------------------------
(* The calls of the adapters, made again a second later. *)

LEMMA LaterInstants ==
  ASSUME NEW t \in Int
  PROVE  t + TicksPerSecond \in Int /\ LiteTime(t) \in Int /\ LiteTime(t + TicksPerSecond) \in Int
BY ParityAssumption DEF LiteTime

LEMMA StubsIdle ==
  ASSUME now \in Int, IsStore(lite), IsStore(pg), NEW stubs \in StubLists
  PROVE  /\ Idle(LAMBDA db, at : Lite!UpsertPointerStubs(db, stubs, at), lite)
         /\ Idle(LAMBDA db, at : Pg!UpsertPointerStubs(db, stubs, at), pg)
<1> DEFINE l == StubsCall(lite, stubs, LiteTime(now)).db
           p == StubsCall(pg, stubs, now).db
<1>1. /\ SameButTimes(l, StubsCall(l, stubs, LiteTime(now + TicksPerSecond)).db)
      /\ SameButTimes(p, StubsCall(p, stubs, now + TicksPerSecond).db)
  BY LaterInstants, StubsAgain
<1> QED BY <1>1, StubsForm DEF Idle

LEMMA RulesIdle ==
  ASSUME now \in Int, IsStore(lite), IsStore(pg), NEW s \in RuleSyncs
  PROVE  /\ Idle(LAMBDA db, at : Lite!SyncRulePointers(db, s.source, s.rules, at), lite)
         /\ Idle(LAMBDA db, at : Pg!SyncRulePointers(db, s.source, s.rules, at), pg)
<1> DEFINE l == RulesCall(lite, s.source, s.rules, LiteTime(now)).db
           p == RulesCall(pg, s.source, s.rules, now).db
<1>1. /\ SameButTimes(l, RulesCall(l, s.source, s.rules, LiteTime(now + TicksPerSecond)).db)
      /\ SameButTimes(p, RulesCall(p, s.source, s.rules, now + TicksPerSecond).db)
  BY LaterInstants, RulesAgain
<1> QED BY <1>1, RulesForm DEF Idle

LEMMA ScopeIdle ==
  ASSUME now \in Int, IsStore(lite), IsStore(pg), NEW input
  PROVE  /\ Idle(LAMBDA db, at : Lite!UpsertReceiptScope(db, input, at), lite)
         /\ Idle(LAMBDA db, at : Pg!UpsertReceiptScope(db, input, at), pg)
BY LaterInstants, ScopeForm, ScopeAgain DEF Idle

LEMMA ItemsIdle ==
  ASSUME now \in Int, IsStore(lite), IsStore(pg), NEW x \in ItemInputs
  PROVE  /\ Idle(LAMBDA db, at : Lite!UpsertWorkItems(db, x.receipt, x.list, at), lite)
         /\ Idle(LAMBDA db, at : Pg!UpsertWorkItems(db, x.receipt, x.list, at), pg)
<1>1. x.list \in Seq([key : Int, status : Statuses])
  BY InputAssumption
<1>2. /\ Len(x.list) \in Nat /\ DOMAIN x.list = 1..Len(x.list)
      /\ \A i \in 1..Len(x.list) : x.list[i] \in [key : Int, status : Statuses]
  BY <1>1, SeqElements
<1>3. \A i \in 1..Len(x.list) : x.list[i].key \in Int
  BY <1>2
<1>4. \A d, t : /\ Lite!UpsertWorkItems(d, x.receipt, x.list, t) = ItemsCall(d, x.receipt, x.list, LiteTime(t))
                /\ Pg!UpsertWorkItems(d, x.receipt, x.list, t) = ItemsCall(d, x.receipt, x.list, t)
  BY <1>2, <1>3, ItemsForm
<1> DEFINE l == ItemsCall(lite, x.receipt, x.list, LiteTime(now)).db
           p == ItemsCall(pg, x.receipt, x.list, now).db
<1>5. /\ SameButTimes(l, ItemsCall(l, x.receipt, x.list, LiteTime(now + TicksPerSecond)).db)
      /\ SameButTimes(p, ItemsCall(p, x.receipt, x.list, now + TicksPerSecond).db)
  BY LaterInstants, ItemsAgain
<1> QED BY <1>4, <1>5 DEF Idle

LEMMA PlanIdle ==
  ASSUME StoresInv, NEW input \in PlanInputs
  PROVE  /\ Idle(LAMBDA db, at : Lite!UpsertWorkPlan(db, input, at), lite)
         /\ Idle(LAMBDA db, at : Pg!UpsertWorkPlan(db, input, at), pg)
<1> DEFINE l == PlanCall(lite, input, LiteTime(now)).db
           p == PlanCall(pg, input, now).db
<1>1. now \in Int /\ StoresMatch(lite, pg) /\ IsStore(lite) /\ IsStore(pg)
  BY MatchingStores DEF StoresInv
<1>2. IsStore(l) /\ IsStore(p)
  BY <1>1, PlanAgree, MatchingStores
<1>3. /\ SameButTimes(l, PlanCall(l, input, LiteTime(now + TicksPerSecond)).db)
      /\ SameButTimes(p, PlanCall(p, input, now + TicksPerSecond).db)
  <2> HIDE DEF l, p
  <2> QED BY <1>1, <1>2, LaterInstants, PlanAgain DEF l, p
<1> QED BY <1>3, PlanForm DEF Idle

LEMMA SyncSettled ==
  ASSUME StoresInv, NEW input \in SyncInputs
  PROVE  /\ Settled(LAMBDA db, at : Lite!ApplySync(db, input, at), lite)
         /\ Settled(LAMBDA db, at : Pg!ApplySync(db, input, at), pg)
<1> DEFINE l == SyncCall(lite, input, LiteTime(now)).db
           p == SyncCall(pg, input, now).db
<1>1. now \in Int /\ StoresMatch(lite, pg) /\ IsStore(lite) /\ IsStore(pg)
  BY MatchingStores DEF StoresInv
<1>2. IsStore(l) /\ IsStore(p)
  BY <1>1, SyncAgree, MatchingStores
<1>3. PICK n \in Nat : ArePaths(SyncPaths(input), n)
  BY PathsOnce
<1>4. ASSUME NEW d, IsStore(d)
      PROVE  /\ IsTable(d.pointers, PointerCols) /\ IsFiniteSet(DOMAIN d.pointers)
             /\ IsTable(d.candidates, CandidateCols)
  BY <1>4 DEF IsStore, Tables, Columns
<1>5. ASSUME NEW d, IsStore(d), NEW t
      PROVE  Lite!ApplySync(d, input, t) = SyncCall(d, input, LiteTime(t)) /\ Pg!ApplySync(d, input, t) = SyncCall(d, input, t)
  BY <1>3, <1>4, <1>5, LiteSyncForm, PgSyncForm
<1>6. /\ Lite!ApplySync(lite, input, now).db = l /\ Pg!ApplySync(pg, input, now).db = p
      /\ Lite!ApplySync(l, input, now + TicksPerSecond) = SyncCall(l, input, LiteTime(now + TicksPerSecond))
      /\ Pg!ApplySync(p, input, now + TicksPerSecond) = SyncCall(p, input, now + TicksPerSecond)
  <2> HIDE DEF l, p
  <2> QED BY <1>1, <1>2, <1>5 DEF l, p
<1>7. /\ SyncCall(l, input, LiteTime(now + TicksPerSecond)) = Done(l, NothingDone)
      /\ SyncCall(p, input, now + TicksPerSecond) = Done(p, NothingDone)
  BY <1>1, <1>3, SyncSettles
<1> HIDE DEF l, p
<1> QED BY <1>6, <1>7 DEF Settled, NothingDone

LEMMA RetriesIdle ==
  ASSUME StoresInv PROVE RetriesAreIdle
<1>1. now \in Int /\ IsStore(lite) /\ IsStore(pg)
  BY MatchingStores DEF StoresInv
<1> QED
  BY <1>1, StubsIdle, RulesIdle, ScopeIdle, ItemsIdle, PlanIdle, SyncSettled
  DEF RetriesAreIdle, Idle, Settled

(* A call whose answer was lost is made again a second later, in whatever
   databases the calls before it have left: an upsert changes no more than
   instants, ApplySync nothing at all. *)
THEOREM IdleRetries ==
  Spec => []RetriesAreIdle
<1>1. Init => StoresInv
  BY StoresInit
<1>2. StoresInv /\ [Next]_vars => StoresInv'
  BY StoresStep
<1>3. StoresInv => RetriesAreIdle
  BY RetriesIdle
<1> QED BY <1>1, <1>2, <1>3, PTL DEF Spec

-------------------------------------------------------------------------------
(* TaskMerge: which entry of a call counts, and that a merge keeps what the
   caller did not give.  normalizeWorkItems is a loop over the payload; what it
   holds after k entries (KeptUpTo) is proved by induction on k. *)

(* The items a payload can stand for (work.go:407-463), and the tables the loop builds. *)
Items == [key : Keys, status : Statuses, reason : Reasons \cup {Absent},
          evidence : Evidence \cup {Absent}, parent : Keys \cup {Absent}, clear : BOOLEAN]
ItemTables == UNION {[D -> Items] : D \in SUBSET Keys}

(* The loop starts from an empty table. *)
LEMMA NoItems == <<>> \in ItemTables
<1>1. <<>> \in [{} -> Items] OBVIOUS
<1> QED BY <1>1 DEF ItemTables

(* One pass of the loop (work.go:431-455): only the entry of the item's key can change,
   and it does when the item is at least as open as the one there. *)
LEMMA KeepMostOpenTable ==
  ASSUME NEW t \in ItemTables, NEW i \in Items
  PROVE  /\ KeepMostOpen(t, i) \in ItemTables
         /\ DOMAIN KeepMostOpen(t, i) = DOMAIN t \cup {i.key}
         /\ \A x \in DOMAIN t \ {i.key} : KeepMostOpen(t, i)[x] = t[x]
         /\ KeepMostOpen(t, i)[i.key] =
              IF i.key \notin DOMAIN t \/ Priority[i.status] >= Priority[t[i.key].status]
              THEN i ELSE t[i.key]
<1>1. PICK D \in SUBSET Keys : t \in [D -> Items] BY DEF ItemTables
<1>2. Store(t, i) \in [D \cup {i.key} -> Items] /\ D \cup {i.key} \in SUBSET Keys
  BY <1>1 DEF Items, Store
<1>3. Store(t, i) \in ItemTables BY <1>2 DEF ItemTables
<1> QED BY <1>1, <1>2, <1>3 DEF KeepMostOpen, Store

(* The tables before, between and after the passes of the loop. *)
LEMMA FoldedTables ==
  ASSUME NEW items \in Seq(Items)
  PROVE  \E acc \in [0..Len(items) -> ItemTables] :
            /\ acc[0] = <<>>
            /\ \A k \in 1..Len(items) : acc[k] = KeepMostOpen(acc[k-1], items[k])
            /\ NormalizeWorkItems(items) = acc[Len(items)]
<1> DEFINE n == Len(items)
           D == 1..n
           step == [t \in ItemTables |-> [i \in Items |-> KeepMostOpen(t, i)]]
           Folds(f) == f = [s \in SUBSET DOMAIN items |->
                                IF s = {} THEN <<>>
                                ELSE KeepMostOpen(f[s \ {Max(s)}], items[Max(s)])]
           base0 == <<>>
           it == CHOOSE f : Folds(f)
<1>0. n \in Nat /\ DOMAIN items = D /\ \A k \in D : items[k] \in Items
  OBVIOUS
<1>1. NormalizeWorkItems(items) = it[D]
  BY <1>0, Zenon DEF NormalizeWorkItems, FoldLeft, MapThenFoldSet
<1>2. \E f : Folds(f) /\ f \in [SUBSET D -> ItemTables]
  <2>0. base0 \in ItemTables /\ step \in [ItemTables -> [Items -> ItemTables]]
    BY NoItems, KeepMostOpenTable
  <2>1. PICK f : IsFoldTable(f, ItemTables, step, base0, items)
    <3> HIDE DEF step, base0
    <3> QED BY <2>0, FoldTableExists
  <2>1a. /\ f \in [SUBSET D -> ItemTables]
         /\ \A s \in SUBSET D :
               f[s] = IF s = {} THEN base0 ELSE step[f[s \ {Max(s)}]][items[Max(s)]]
    <3> HIDE DEF step, base0
    <3> QED BY <2>1 DEF IsFoldTable
  <2>2. ASSUME NEW s \in SUBSET D
        PROVE  f[s] = IF s = {} THEN base0 ELSE KeepMostOpen(f[s \ {Max(s)}], items[Max(s)])
    <3>1. CASE s # {}
      <4>1. Max(s) \in D BY <3>1, MaxInSet, <1>0
      <4>2. f[s \ {Max(s)}] \in ItemTables BY <2>1a
      <4> QED BY <3>1, <4>1, <4>2, <2>1a, <1>0
    <3> QED BY <3>1, <2>1a
  <2> QED BY <2>1a, <2>2, <1>0
<1>3. Folds(it)
  <2> HIDE DEF Folds
  <2> QED BY <1>2
<1> DEFINE acc == [k \in 0..n |-> it[1..k]]
<1>4. acc[0] = base0
  <2>1. 1..0 = {} /\ {} \in SUBSET D OBVIOUS
  <2> HIDE DEF it
  <2> QED BY <1>0, <1>3, <2>1
<1>5. ASSUME NEW k \in 1..n PROVE acc[k] = KeepMostOpen(acc[k-1], items[k])
  <2>1. /\ 1..k \in SUBSET D /\ 1..k # {}
        /\ Max(1..k) = k /\ (1..k) \ {k} = 1..(k-1)
    BY <1>0, MaxOfPrefix
  <2>2. it[1..k] = KeepMostOpen(it[(1..k) \ {Max(1..k)}], items[Max(1..k)])
    <3> HIDE DEF it
    <3> QED BY <1>0, <1>3, <2>1
  <2>3. k \in 0..n /\ k - 1 \in 0..n
    BY <1>0
  <2> HIDE DEF it
  <2> QED BY <2>1, <2>2, <2>3
<1>6. \A k \in 0..n : acc[k] \in ItemTables
  <2> DEFINE T == {k \in Nat : k <= n => acc[k] \in ItemTables}
  <2> HIDE DEF acc
  <2>1. 0 \in T BY <1>4, NoItems
  <2>2. ASSUME NEW k \in Nat, k \in T PROVE k + 1 \in T
    <3> SUFFICES ASSUME k + 1 <= n PROVE acc[k+1] \in ItemTables
      OBVIOUS
    <3>1. k + 1 \in 1..n /\ (k + 1) - 1 = k /\ acc[k] \in ItemTables BY <2>2, <1>0
    <3>2. acc[k+1] = KeepMostOpen(acc[k], items[k+1]) /\ items[k+1] \in Items
      BY <3>1, <1>5, <1>0
    <3> QED BY <3>1, <3>2, KeepMostOpenTable
  <2>3. \A k \in Nat : k \in T
    <3> HIDE DEF T
    <3> QED BY <2>1, <2>2, Induction
  <2> QED BY <2>3
<1>7. acc[n] = NormalizeWorkItems(items)
  BY <1>0, <1>1
<1>8. acc \in [0..n -> ItemTables]
  BY <1>6
<1> HIDE DEF acc
<1> QED BY <1>4, <1>5, <1>7, <1>8

(* Entry j is more open than entry m, or as open and not before it. *)
AtLeast(items, m, j) ==
    \/ Priority[items[m].status] < Priority[items[j].status]
    \/ Priority[items[m].status] = Priority[items[j].status] /\ m <= j
(* After k passes the table holds, for each key met, the most open of its entries and
   among these the last. *)
KeptUpTo(t, items, k) ==
    /\ DOMAIN t = {items[m].key : m \in 1..k}
    /\ \A x \in DOMAIN t : \E j \in 1..k :
          /\ t[x] = items[j] /\ items[j].key = x
          /\ \A m \in 1..k : items[m].key = x => AtLeast(items, m, j)

(* The priority of a status (work.go:412-418) is a number. *)
LEMMA PriorityType == \A s \in Statuses : Priority[s] \in Nat
BY DEF Priority, Statuses

(* The loop of normalizeWorkItems keeps the last of the most open entries of a key. *)
LEMMA MostOpenKept ==
  ASSUME NEW items \in Seq(Items)
  PROVE  KeptUpTo(NormalizeWorkItems(items), items, Len(items))
<1> DEFINE n == Len(items)
<1>0. n \in Nat /\ \A k \in 1..n : items[k] \in Items
  OBVIOUS
<1>1. PICK acc \in [0..n -> ItemTables] :
            /\ acc[0] = <<>>
            /\ \A k \in 1..n : acc[k] = KeepMostOpen(acc[k-1], items[k])
            /\ NormalizeWorkItems(items) = acc[n]
  BY FoldedTables
<1> DEFINE T == {k \in Nat : k <= n => KeptUpTo(acc[k], items, k)}
<1>2. 0 \in T
  <2>1. DOMAIN acc[0] = {} /\ 1..0 = {} BY <1>1
  <2> QED BY <2>1 DEF KeptUpTo
<1>3. ASSUME NEW k \in Nat, k \in T PROVE k + 1 \in T
  <2> SUFFICES ASSUME k + 1 <= n PROVE KeptUpTo(acc[k+1], items, k+1)
    OBVIOUS
  <2> DEFINE i == items[k+1]
             t == acc[k]
             u == acc[k+1]
             take == i.key \notin DOMAIN t \/ Priority[i.status] >= Priority[t[i.key].status]
  <2>1. k + 1 \in 1..n /\ (k+1) - 1 = k /\ k <= n /\ k \in 0..n BY <1>0
  <2>2. KeptUpTo(t, items, k) BY <1>3, <2>1
  <2>3. t \in ItemTables /\ i \in Items BY <2>1, <1>0
  <2>4. /\ DOMAIN u = DOMAIN t \cup {i.key}
        /\ \A x \in DOMAIN t \ {i.key} : u[x] = t[x]
        /\ u[i.key] = IF take THEN i ELSE t[i.key]
    <3>1. u = KeepMostOpen(t, i) BY <1>1, <2>1
    <3> HIDE DEF u, i, t
    <3> QED BY <3>1, <2>3, KeepMostOpenTable
  <2>5. DOMAIN u = {items[m].key : m \in 1..(k+1)}
    <3>1. 1..(k+1) = 1..k \cup {k+1} OBVIOUS
    <3>2. DOMAIN t = {items[m].key : m \in 1..k} BY <2>2 DEF KeptUpTo
    <3> HIDE DEF u, t
    <3> QED BY <3>1, <3>2, <2>4
  <2>6. \A m \in 1..(k+1) : Priority[items[m].status] \in Nat
    BY <1>0, PriorityType DEF Items
  <2>7. ASSUME NEW x \in DOMAIN u
        PROVE  \E j \in 1..(k+1) :
                  /\ u[x] = items[j] /\ items[j].key = x
                  /\ \A m \in 1..(k+1) : items[m].key = x => AtLeast(items, m, j)
    <3>1. CASE x = i.key /\ take
      <4>1. u[x] = items[k+1] BY <3>1, <2>4
      <4>2. ASSUME NEW m \in 1..(k+1), items[m].key = x PROVE AtLeast(items, m, k+1)
        <5>1. CASE m = k + 1 BY <5>1, <2>6 DEF AtLeast
        <5>2. CASE m # k + 1
          <6>1. m \in 1..k BY <5>2
          <6>2. x \in DOMAIN t BY <6>1, <4>2, <2>2 DEF KeptUpTo
          <6>3. PICK j \in 1..k : /\ t[x] = items[j]
                                  /\ \A q \in 1..k : items[q].key = x => AtLeast(items, q, j)
            BY <6>2, <2>2 DEF KeptUpTo
          <6>4. Priority[items[k+1].status] >= Priority[items[j].status]
            BY <6>2, <6>3, <3>1
          <6>5. AtLeast(items, m, j) BY <6>1, <6>3, <4>2
          <6>6. j \in 1..(k+1) /\ k + 1 \in 1..(k+1) OBVIOUS
          <6> QED BY <6>4, <6>5, <6>6, <2>6 DEF AtLeast
        <5> QED BY <5>1, <5>2
      <4> QED BY <4>1, <4>2, <3>1
    <3>2. CASE ~(x = i.key /\ take)
      <4>1. x \in DOMAIN t /\ u[x] = t[x] BY <3>2, <2>4
      <4>2. PICK j \in 1..k : /\ t[x] = items[j] /\ items[j].key = x
                              /\ \A m \in 1..k : items[m].key = x => AtLeast(items, m, j)
        BY <4>1, <2>2 DEF KeptUpTo
      <4>3. ASSUME NEW m \in 1..(k+1), items[m].key = x PROVE AtLeast(items, m, j)
        <5>1. CASE m \in 1..k BY <5>1, <4>2, <4>3
        <5>2. CASE m = k + 1
          <6>1. ~take BY <5>2, <4>3, <3>2
          <6>2. ~(Priority[items[k+1].status] >= Priority[items[j].status])
            BY <6>1, <5>2, <4>1, <4>2, <4>3
          <6>3. j \in 1..(k+1) OBVIOUS
          <6> QED BY <6>2, <6>3, <5>2, <2>6 DEF AtLeast
        <5> QED BY <5>1, <5>2
      <4>4. j \in 1..(k+1) OBVIOUS
      <4> QED BY <4>1, <4>2, <4>3, <4>4
    <3> QED BY <3>1, <3>2
  <2>8. KeptUpTo(u, items, k+1)
    <3> HIDE DEF u
    <3> QED BY <2>5, <2>7 DEF KeptUpTo
  <2> QED BY <2>8
<1>4. \A k \in Nat : k \in T
  <2> HIDE DEF T
  <2> QED BY <1>2, <1>3, Induction
<1> QED BY <1>0, <1>1, <1>4

(* The items of a payload, before the loop. *)
ItemsOf(payload) == [n \in DOMAIN payload |-> NormalizeItem(ToWorkItem(payload[n]))]

(* workPayloadTasks (work.go:174-206) and the trimming of an item change no field but an empty parent,
   and never ask to clear one. *)
LEMMA ItemsOfPayload ==
  ASSUME NEW payload \in Payloads
  PROVE  /\ payload \in Seq(Entries)
         /\ ItemsOf(payload) \in Seq(Items)
         /\ Len(ItemsOf(payload)) = Len(payload)
         /\ \A n \in DOMAIN payload :
               LET e == payload[n]
                   i == ItemsOf(payload)[n]
               IN  /\ e \in Entries
                   /\ i.key = e.key /\ i.status = e.status /\ i.reason = e.reason
                   /\ i.evidence = e.evidence /\ ~i.clear
                   /\ i.parent = IF e.parent = Empty THEN Absent ELSE e.parent
<1>1. payload \in Seq(Entries)
  BY MergeAssumption
<1>2. DOMAIN payload = 1..Len(payload) /\ Len(payload) \in Nat
  BY <1>1
<1>3. ASSUME NEW n \in DOMAIN payload
      PROVE  LET e == payload[n]
                 i == ItemsOf(payload)[n]
             IN  /\ e \in Entries
                 /\ i.key = e.key /\ i.status = e.status /\ i.reason = e.reason
                 /\ i.evidence = e.evidence /\ ~i.clear
                 /\ i.parent = IF e.parent = Empty THEN Absent ELSE e.parent
                 /\ i \in Items
  <2>1. payload[n] \in Entries BY <1>1, <1>2
  <2> QED BY <2>1, MergeAssumption DEF ItemsOf, NormalizeItem, ToWorkItem, Entries, Items
<1>4. ItemsOf(payload) \in [1..Len(payload) -> Items]
  BY <1>2, <1>3 DEF ItemsOf
<1>5. ItemsOf(payload) \in Seq(Items) /\ Len(ItemsOf(payload)) = Len(payload)
  BY <1>2, <1>4
<1> QED BY <1>1, <1>3, <1>5

(* The entry of a payload that counts for a key, in the terms of the payload. *)
LEMMA CountingEntry ==
  ASSUME NEW payload \in Payloads
  PROVE  LET given == WorkPayloadTasks(payload)
         IN  /\ DOMAIN given = {payload[n].key : n \in DOMAIN payload}
             /\ \A k \in DOMAIN given : \E n \in DOMAIN payload :
                   /\ given[k] = ItemsOf(payload)[n]
                   /\ payload[n].key = k
                   /\ \A m \in DOMAIN payload : payload[m].key = k =>
                         \/ Priority[payload[m].status] < Priority[payload[n].status]
                         \/ Priority[payload[m].status] = Priority[payload[n].status] /\ m <= n
<1> DEFINE items == ItemsOf(payload)
           given == WorkPayloadTasks(payload)
<1>1. /\ items \in Seq(Items) /\ Len(items) = Len(payload)
      /\ DOMAIN payload = 1..Len(payload)
      /\ \A n \in DOMAIN payload : items[n].key = payload[n].key /\ items[n].status = payload[n].status
  BY ItemsOfPayload
<1>2. KeptUpTo(given, items, Len(items))
  BY <1>1, MostOpenKept DEF WorkPayloadTasks, ItemsOf
<1> HIDE DEF items, given
<1>3. DOMAIN given = {payload[n].key : n \in DOMAIN payload}
  BY <1>1, <1>2 DEF KeptUpTo
<1>4. ASSUME NEW k \in DOMAIN given
      PROVE  \E n \in DOMAIN payload :
                   /\ given[k] = items[n]
                   /\ payload[n].key = k
                   /\ \A m \in DOMAIN payload : payload[m].key = k =>
                         \/ Priority[payload[m].status] < Priority[payload[n].status]
                         \/ Priority[payload[m].status] = Priority[payload[n].status] /\ m <= n
  <2>1. PICK j \in 1..Len(items) :
             /\ given[k] = items[j] /\ items[j].key = k
             /\ \A m \in 1..Len(items) : items[m].key = k => AtLeast(items, m, j)
    BY <1>2, <1>4 DEF KeptUpTo
  <2> QED BY <1>1, <2>1 DEF AtLeast
<1> QED BY <1>3, <1>4 DEF items, given

(* mergeWorkPlanTask takes each column from the item or from the stored task, so that a
   call leaves rows of the table's columns. *)
THEOREM TasksTypeCorrect == MergeSpec => []TypeOK
<1>1. MergeInit => TypeOK
  BY DEF MergeInit, TypeOK, Tasks, NoTask
<1>2. TypeOK /\ [MergeNext]_tasks => TypeOK'
  <2> SUFFICES ASSUME TypeOK,
                      NEW payload \in Payloads, NEW mode \in {"merge", "replace"},
                      Work(payload, mode)
               PROVE  TypeOK'
    BY DEF MergeNext, TypeOK
  <2> DEFINE given == WorkPayloadTasks(payload)
             base == IF mode = "replace" THEN [k \in Keys |-> NoTask] ELSE tasks
  <2>1. base \in [Keys -> Tasks]
    BY DEF TypeOK, Tasks, NoTask
  <2>2. ASSUME NEW k \in Keys, k \in DOMAIN given
        PROVE  MergeWorkPlanTask(base[k], given[k]) \in Tasks
    <3>1. PICK j \in DOMAIN payload : given[k] = ItemsOf(payload)[j]
      BY <2>2, CountingEntry
    <3>2. given[k] \in Items
      BY <3>1, ItemsOfPayload
    <3>3. base[k] \in Tasks
      BY <2>1
    <3> HIDE DEF given, base
    <3> QED BY <3>2, <3>3 DEF MergeWorkPlanTask, Items, Tasks
  <2>3. tasks' = [k \in Keys |-> IF k \in DOMAIN given THEN MergeWorkPlanTask(base[k], given[k])
                                 ELSE base[k]]
    BY DEF Work, Apply
  <2> HIDE DEF given, base
  <2> QED BY <2>1, <2>2, <2>3 DEF TypeOK
<1> QED BY <1>1, <1>2, PTL DEF MergeSpec

(* Whatever a task was, after a merge it has the status and, where given, the evidence
   of the payload's last most open entry for its key (normalizeWorkItems, then
   mergeWorkPlanTask). *)
THEOREM MostOpenEntriesCount == MergeSpec => []MostOpenEntryCounts
<1>1. MostOpenEntryCounts
  <2> SUFFICES ASSUME NEW payload \in Payloads, NEW n \in DOMAIN payload,
                      IsMostOpenAndLast(payload, n)
               PROVE  LET e == payload[n]
                          after == Apply(tasks, payload, "merge")[e.key]
                          kept == tasks[e.key].evidence
                      IN  after.status = e.status
                          /\ after.evidence = IF e.evidence # Absent THEN e.evidence ELSE kept
    BY DEF MostOpenEntryCounts
  <2> DEFINE given == WorkPayloadTasks(payload)
             e == payload[n]
             i == ItemsOf(payload)[n]
  <2>1. /\ e \in Entries /\ e.key \in Keys /\ DOMAIN payload \subseteq Nat
        /\ i.status = e.status /\ i.evidence = e.evidence
        /\ \A m \in DOMAIN payload : Priority[payload[m].status] \in Nat
    BY ItemsOfPayload, PriorityType DEF Entries
  <2>2. e.key \in DOMAIN given /\ given[e.key] = i
    <3>1. e.key \in DOMAIN given
      <4>1. DOMAIN given = {payload[m].key : m \in DOMAIN payload}
        BY CountingEntry, ZenonT(30)
      <4> HIDE DEF given
      <4> QED BY <4>1
    <3>2. PICK j \in DOMAIN payload :
               /\ given[e.key] = ItemsOf(payload)[j]
               /\ payload[j].key = e.key
               /\ \A m \in DOMAIN payload : payload[m].key = e.key =>
                     \/ Priority[payload[m].status] < Priority[payload[j].status]
                     \/ Priority[payload[m].status] = Priority[payload[j].status] /\ m <= j
      BY <3>1, CountingEntry
    <3>3. j = n
      BY <2>1, <3>2 DEF IsMostOpenAndLast
    <3> QED BY <3>1, <3>2, <3>3
  <2>3. Apply(tasks, payload, "merge")[e.key] = MergeWorkPlanTask(tasks[e.key], i)
    BY <2>1, <2>2 DEF Apply
  <2> QED BY <2>1, <2>3 DEF MergeWorkPlanTask
<1> QED BY <1>1, PTL

(* A merge keeps the parent and the evidence of a task when no entry of the payload gives
   one, and drops a blocked reason only on leaving blocked (mergeWorkPlanTask,
   domain.go:332-390). *)
THEOREM NotProvidedPreserved == MergeSpec => []NotProvidedIsPreserved
<1>1. NotProvidedIsPreserved
  <2> SUFFICES ASSUME NEW payload \in Payloads, NEW k \in Keys
               PROVE  LET sent == {payload[n] : n \in {m \in DOMAIN payload : payload[m].key = k}}
                          before == tasks[k]
                          after == Apply(tasks, payload, "merge")[k]
                      IN  /\ (\A e \in sent : e.parent = Absent) => after.parent = before.parent
                          /\ (\A e \in sent : e.evidence = Absent) => after.evidence = before.evidence
                          /\ (/\ before.status = "blocked" /\ after.status # "blocked"
                              /\ \A e \in sent : e.reason = Absent) => after.reason = Absent
    BY DEF NotProvidedIsPreserved
  <2> DEFINE given == WorkPayloadTasks(payload)
             after == Apply(tasks, payload, "merge")[k]
  <2>1. CASE k \notin DOMAIN given
    <3>1. after = tasks[k] BY <2>1 DEF Apply
    <3> QED BY <3>1
  <2>2. CASE k \in DOMAIN given
    <3>1. PICK j \in DOMAIN payload : given[k] = ItemsOf(payload)[j] /\ payload[j].key = k
      BY <2>2, CountingEntry
    <3> DEFINE e == payload[j]
               i == ItemsOf(payload)[j]
    <3>2. /\ i.reason = e.reason /\ i.evidence = e.evidence /\ ~i.clear /\ i.status = e.status
          /\ i.parent = IF e.parent = Empty THEN Absent ELSE e.parent
      BY ItemsOfPayload
    <3>3. after = MergeWorkPlanTask(tasks[k], i)
      BY <2>2, <3>1 DEF Apply
    <3>4. e \in {payload[n] : n \in {m \in DOMAIN payload : payload[m].key = k}}
      BY <3>1
    <3> HIDE DEF e, i, after
    <3> QED BY <3>2, <3>3, <3>4 DEF MergeWorkPlanTask, after
  <2> QED BY <2>1, <2>2
<1> QED BY <1>1, PTL

===============================================================================
