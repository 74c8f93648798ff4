--------------------------- MODULE Receipt_proofs ---------------------------
(***************************************************************************)
(* Proofs about the receipt, for any reservation, settings and labels.     *)
(*                                                                         *)
(* What a section adds is good when the bytes, printed from a printer that *)
(* is back at the settings' layout, leave it there and put on paper what   *)
(* the text says; good parts put together are good (GoodCat).  The         *)
(* invariant IInv is: a head, good parts, a foot.  What the encodings make *)
(* of both comes last, as each takes a letter here and there and leaves    *)
(* lengths, dividers and the banner alone (EncodedIs, ContentEncoded).     *)
(***************************************************************************)
EXTENDS Receipt, SequenceTheorems, WellFoundedInduction, TLAPS

-----------------------------------------------------------------------------
(* Induction, over sets instead of predicates. *)

\* A nonempty set of natural numbers has a least one.
LEMMA Least ==
  ASSUME NEW T \in SUBSET Nat, T # {}
  PROVE  \E n \in T : \A m \in T : n <= m
<1> DEFINE R == OpToRel(<, Nat)
<1>1. IsWellFoundedOn(R, Nat)
  BY NatLessThanWellFounded
<1>2. \A m, n \in Nat : <<m, n>> \in R <=> m < n
  BY DEF OpToRel
<1> HIDE DEF R
<1>3. PICK n \in T : \A m \in T : ~(<<m, n>> \in R)
  BY <1>1, WFMin
<1>4. \A m \in T : ~(m < n)
  BY <1>2, <1>3, Zenon
<1> QED
  BY <1>4

\* What holds of 0, and of each number's successor, holds of all.
LEMMA Induction ==
  ASSUME NEW S, 0 \in S, \A n \in Nat : n \in S => n + 1 \in S
  PROVE  \A n \in Nat : n \in S
<1> SUFFICES ASSUME Nat \ S # {} PROVE FALSE
  OBVIOUS
<1>1. PICK n \in Nat \ S : \A m \in Nat \ S : n <= m
  BY Least
<1>2. n - 1 \in Nat /\ n - 1 \notin Nat \ S
  BY <1>1
<1> QED
  BY <1>1, <1>2

\* Steps from one value to the next, and the chain they make.
Steps(n, V) == [1 .. n -> [V -> V]]
IsChain(h, v, step, n, V) ==
  h \in [0 .. n -> V] /\ h[0] = v /\ \A i \in 1 .. n : h[i] = step[i][h[i - 1]]

\* There is such a chain.
LEMMA Chain ==
  ASSUME NEW V, NEW v \in V, NEW n \in Nat, NEW step \in Steps(n, V)
  PROVE  \E h : IsChain(h, v, step, n, V)
<1>0. step \in [1 .. n -> [V -> V]]
  BY DEF Steps
<1> DEFINE Is(h, k) == h[0] = v /\ \A i \in 1 .. k : h[i] = step[i][h[i - 1]]
           S == {k \in Nat : k <= n => \E h \in [0 .. k -> V] : Is(h, k)}
<1>1. 0 \in S
  <2>1. [i \in 0 .. 0 |-> v] \in [0 .. 0 -> V] /\ Is([i \in 0 .. 0 |-> v], 0)
    OBVIOUS
  <2> QED BY <2>1
<1>2. ASSUME NEW k \in Nat, k \in S PROVE k + 1 \in S
  <2> SUFFICES ASSUME k + 1 <= n PROVE \E h \in [0 .. k + 1 -> V] : Is(h, k + 1)
    OBVIOUS
  <2>1. PICK h \in [0 .. k -> V] : Is(h, k)
    BY <1>2
  <2> DEFINE g == [i \in 0 .. k + 1 |-> IF i = k + 1 THEN step[k + 1][h[k]] ELSE h[i]]
  <2>2. step[k + 1][h[k]] \in V
    <3>1. h[k] \in V /\ step[k + 1] \in [V -> V]
      BY <1>0
    <3> QED BY <3>1
  <2>3. /\ g \in [0 .. k + 1 -> V] /\ g[k + 1] = step[k + 1][h[k]]
        /\ \A i \in 0 .. k : g[i] = h[i]
    BY <2>2
  <2> HIDE DEF g
  <2>4. ASSUME NEW i \in 1 .. k + 1 PROVE g[i] = step[i][g[i - 1]]
    <3>1. CASE i = k + 1
      <4>1. g[i - 1] = h[k]
        BY <2>3, <3>1
      <4> QED BY <2>3, <3>1, <4>1
    <3>2. CASE i \in 1 .. k
      <4>1. g[i] = h[i] /\ g[i - 1] = h[i - 1]
        BY <2>3, <3>2
      <4> QED BY <2>1, <3>2, <4>1
    <3> QED BY <3>1, <3>2
  <2>5. g[0] = v
    BY <2>1, <2>3
  <2> QED BY <2>3, <2>4, <2>5
<1> HIDE DEF S
<1>3. n \in S
  BY <1>1, <1>2, Induction
<1> QED
  BY <1>3 DEF S, IsChain

-----------------------------------------------------------------------------
(* The two folds of the receipt: the printer's run, and the sum of lengths. *)

Op(fold, v, x) == IF fold = "run" THEN Does(v, x) ELSE v + x.len
IsFold(g, fold, v, s, k) ==
  g = [t \in SUBSET (1 .. k) |-> IF t = {} THEN v
                                 ELSE Op(fold, g[t \ {Max(t)}], s[Max(t)])]
Fold(fold, v, s) == (CHOOSE g : IsFold(g, fold, v, s, Len(s)))[1 .. Len(s)]
Run(p, cmds) == FoldLeft(Does, p, cmds)

\* The largest element of a set that holds it and nothing above it.
LEMMA MaxIs ==
  ASSUME NEW k \in Nat, NEW t \in SUBSET (1 .. k + 1), k + 1 \in t
  PROVE  Max(t) = k + 1
<1>1. k + 1 \in t /\ \A y \in t : k + 1 >= y
  OBVIOUS
<1>2. \A x \in t : (\A y \in t : x >= y) => x = k + 1
  BY <1>1
<1> QED
  BY <1>1, <1>2 DEF Max

\* The recursion behind a fold has a solution.
LEMMA FoldSolves ==
  ASSUME NEW fold, NEW v, NEW s, NEW n \in Nat
  PROVE  \E g : IsFold(g, fold, v, s, n)
<1> DEFINE S == {k \in Nat : \E g : IsFold(g, fold, v, s, k)}
<1>1. 0 \in S
  <2> DEFINE g == [t \in SUBSET (1 .. 0) |-> v]
  <2>1. \A t \in SUBSET (1 .. 0) : t = {}
    OBVIOUS
  <2>2. IsFold(g, fold, v, s, 0)
    BY <2>1 DEF IsFold
  <2> QED BY <2>2
<1>2. ASSUME NEW k \in Nat, k \in S PROVE k + 1 \in S
  <2>1. PICK g : IsFold(g, fold, v, s, k)
    BY <1>2
  <2> DEFINE f == [t \in SUBSET (1 .. k + 1) |->
                     IF k + 1 \in t THEN Op(fold, g[t \ {k + 1}], s[k + 1]) ELSE g[t]]
             Rhs(t) == IF t = {} THEN v ELSE Op(fold, f[t \ {Max(t)}], s[Max(t)])
  <2>2. \A t \in SUBSET (1 .. k + 1) :
          f[t] = IF k + 1 \in t THEN Op(fold, g[t \ {k + 1}], s[k + 1]) ELSE g[t]
    OBVIOUS
  <2>3. \A t \in SUBSET (1 .. k) :
          g[t] = IF t = {} THEN v ELSE Op(fold, g[t \ {Max(t)}], s[Max(t)])
    BY <2>1 DEF IsFold
  <2>4. f = [t \in SUBSET (1 .. k + 1) |-> f[t]]
    OBVIOUS
  <2> HIDE DEF f
  <2>5. ASSUME NEW t \in SUBSET (1 .. k + 1) PROVE f[t] = Rhs(t)
    <3>1. CASE k + 1 \in t
      <4>1. Max(t) = k + 1 /\ t # {}
        BY <3>1, MaxIs
      <4>2. f[t \ {k + 1}] = g[t \ {k + 1}]
        BY <2>2
      <4> QED BY <2>2, <3>1, <4>1, <4>2
    <3>2. CASE k + 1 \notin t
      <4>1. t \in SUBSET (1 .. k)
        BY <3>2
      <4>2. f[t] = g[t] /\ f[t \ {Max(t)}] = g[t \ {Max(t)}]
        BY <2>2, <3>2
      <4> QED BY <2>3, <4>1, <4>2
    <3> QED BY <3>1, <3>2
  <2>6. f = [t \in SUBSET (1 .. k + 1) |-> Rhs(t)]
    BY <2>4, <2>5
  <2>7. IsFold(f, fold, v, s, k + 1)
    BY <2>6 DEF IsFold
  <2> QED BY <2>7
<1> HIDE DEF S
<1>3. n \in S
  BY <1>1, <1>2, Induction
<1> QED
  BY <1>3 DEF S

\* h[i] is the fold of the first i elements.
Folds(h, fold, v, s) == h[0] = v /\ \A i \in 1 .. Len(s) : h[i] = Op(fold, h[i - 1], s[i])

\* A solution of the recursion holds all the intermediate results.
LEMMA SolutionFolds ==
  ASSUME NEW T, NEW s \in Seq(T), NEW fold, NEW v, NEW g, IsFold(g, fold, v, s, Len(s))
  PROVE  \E h : Folds(h, fold, v, s) /\ h[Len(s)] = g[1 .. Len(s)]
<1> PICK n \in Nat : n = Len(s)
  OBVIOUS
<1> DEFINE h == [i \in 0 .. n |-> g[1 .. i]]
<1>1. IsFold(g, fold, v, s, n)
  OBVIOUS
<1>3. \A t \in SUBSET (1 .. n) :
        g[t] = IF t = {} THEN v ELSE Op(fold, g[t \ {Max(t)}], s[Max(t)])
  BY <1>1 DEF IsFold
<1>4. g[1 .. 0] = v
  <2>1. 1 .. 0 = {} /\ {} \in SUBSET (1 .. n)
    OBVIOUS
  <2> QED BY <1>3, <2>1
<1>5. ASSUME NEW i \in 1 .. n PROVE g[1 .. i] = Op(fold, g[1 .. i - 1], s[i])
  <2>0. PICK k \in Nat : k + 1 = i /\ k = i - 1
    <3>1. i - 1 \in Nat /\ (i - 1) + 1 = i
      OBVIOUS
    <3> QED BY <3>1
  <2>1. Max(1 .. i) = i
    <3>1. (1 .. k + 1) \in SUBSET (1 .. k + 1) /\ k + 1 \in 1 .. k + 1
      OBVIOUS
    <3>2. Max(1 .. k + 1) = k + 1
      BY <3>1, MaxIs
    <3> QED BY <2>0, <3>2
  <2>2. (1 .. i) \ {i} = 1 .. i - 1
    OBVIOUS
  <2>3. i \in 1 .. i /\ 1 .. i \in SUBSET (1 .. n)
    OBVIOUS
  <2> QED BY <1>3, <2>1, <2>2, <2>3
<1>6. h[0] = v /\ h[n] = g[1 .. n] 
  BY <1>4
<1>7. ASSUME NEW i \in 1 .. n PROVE h[i] = Op(fold, h[i - 1], s[i])
  <2>1. h[i] = g[1 .. i] /\ h[i - 1] = g[1 .. i - 1]
    OBVIOUS
  <2> QED BY <1>5, <2>1
<1> HIDE DEF h
<1> QED
  BY <1>6, <1>7 DEF Folds

\* A fold goes through all its intermediate results.
LEMMA FoldFolds ==
  ASSUME NEW T, NEW s \in Seq(T), NEW fold, NEW v
  PROVE  \E h : Folds(h, fold, v, s) /\ h[Len(s)] = Fold(fold, v, s)
<1> DEFINE g == CHOOSE g : IsFold(g, fold, v, s, Len(s))
<1>1. IsFold(g, fold, v, s, Len(s))
  <2>1. Len(s) \in Nat
    OBVIOUS
  <2> QED BY <2>1, FoldSolves, Zenon
<1>2. Fold(fold, v, s) = g[1 .. Len(s)]
  BY DEF Fold
<1> HIDE DEF g
<1> QED
  BY <1>1, <1>2, SolutionFolds

\* There is only one way to go through them.
LEMMA FoldIs ==
  ASSUME NEW T, NEW s \in Seq(T), NEW fold, NEW v, NEW h, Folds(h, fold, v, s)
  PROVE  Fold(fold, v, s) = h[Len(s)]
<1> PICK n \in Nat : n = Len(s)
  OBVIOUS
<1>1. PICK e : Folds(e, fold, v, s) /\ e[n] = Fold(fold, v, s)
  BY FoldFolds
<1> DEFINE S == {k \in Nat : k \in 0 .. n => e[k] = h[k]}
<1>2. 0 \in S
  BY <1>1 DEF Folds
<1>3. ASSUME NEW k \in Nat, k \in S PROVE k + 1 \in S
  <2> SUFFICES ASSUME k + 1 \in 0 .. n PROVE e[k + 1] = h[k + 1]
    OBVIOUS
  <2>1. k \in 0 .. n /\ k + 1 \in 1 .. n /\ (k + 1) - 1 = k
    OBVIOUS
  <2>2. e[k] = h[k]
    BY <1>3, <2>1
  <2>3. e[k + 1] = Op(fold, e[k], s[k + 1]) /\ h[k + 1] = Op(fold, h[k], s[k + 1])
    BY <1>1, <2>1 DEF Folds
  <2> QED BY <2>2, <2>3
<1> HIDE DEF S
<1>4. n \in S
  BY <1>2, <1>3, Induction
<1>5. e[n] = h[n]
  BY <1>4 DEF S
<1> QED
  BY <1>1, <1>5

\* FoldLeft solves the recursion: the printer's run is the fold "run", Total the fold "total".
IsRun(g, p, s) == g = [t \in SUBSET DOMAIN s |-> IF t = {} THEN p
                                                ELSE Does(g[t \ {Max(t)}], s[Max(t)])]
LEMMA RunIsFold ==
  ASSUME NEW T, NEW s \in Seq(T), NEW p
  PROVE  Run(p, s) = Fold("run", p, s)
<1> DEFINE g == CHOOSE g : IsRun(g, p, s)
<1>1. DOMAIN s = 1 .. Len(s) /\ Len(s) \in Nat
  OBVIOUS
<1>2. \A f : IsRun(f, p, s) <=> IsFold(f, "run", p, s, Len(s))
  BY <1>1 DEF IsRun, IsFold, Op
<1>3. \E f : IsRun(f, p, s)
  BY <1>1, <1>2, FoldSolves
<1>4. IsRun(g, p, s)
  BY <1>3, Zenon
<1>5. Run(p, s) = g[DOMAIN s]
  BY DEF Run, FoldLeft, MapThenFoldSet, IsRun
<1> HIDE DEF g
<1>6. PICK h : Folds(h, "run", p, s) /\ h[Len(s)] = g[1 .. Len(s)]
  BY <1>2, <1>4, SolutionFolds
<1>7. Fold("run", p, s) = h[Len(s)]
  BY <1>6, FoldIs
<1> QED
  BY <1>1, <1>5, <1>6, <1>7

IsSum(g, s) == g = [t \in SUBSET DOMAIN s |-> IF t = {} THEN 0
                                                ELSE g[t \ {Max(t)}] + s[Max(t)].len]
LEMMA TotalIsFold ==
  ASSUME NEW T, NEW s \in Seq(T)
  PROVE  Total(s) = Fold("total", 0, s)
<1> DEFINE g == CHOOSE g : IsSum(g, s)
<1>1. DOMAIN s = 1 .. Len(s) /\ Len(s) \in Nat
  OBVIOUS
<1>2. \A f : IsSum(f, s) <=> IsFold(f, "total", 0, s, Len(s))
  BY <1>1 DEF IsSum, IsFold, Op
<1>3. \E f : IsSum(f, s)
  BY <1>1, <1>2, FoldSolves
<1>4. IsSum(g, s)
  BY <1>3, Zenon
<1>5. Total(s) = g[DOMAIN s]
  BY DEF Total, FoldLeft, MapThenFoldSet, IsSum
<1> HIDE DEF g
<1>6. PICK h : Folds(h, "total", 0, s) /\ h[Len(s)] = g[1 .. Len(s)]
  BY <1>2, <1>4, SolutionFolds
<1>7. Fold("total", 0, s) = h[Len(s)]
  BY <1>6, FoldIs
<1> QED
  BY <1>1, <1>5, <1>6, <1>7

\* The fold of nothing, of one element, and of two sequences.
LEMMA FoldEmpty ==
  ASSUME NEW fold, NEW v
  PROVE  Fold(fold, v, <<>>) = v
<1>1. <<>> \in Seq({}) /\ Len(<<>>) = 0
  OBVIOUS
<1>2. Folds([i \in 0 .. 0 |-> v], fold, v, <<>>)
  BY <1>1 DEF Folds
<1>3. Fold(fold, v, <<>>) = [i \in 0 .. 0 |-> v][Len(<<>>)]
  BY <1>1, <1>2, FoldIs
<1> QED
  BY <1>1, <1>3

LEMMA FoldOne ==
  ASSUME NEW fold, NEW v, NEW x
  PROVE  Fold(fold, v, <<x>>) = Op(fold, v, x)
<1> DEFINE h == [i \in 0 .. 1 |-> IF i = 0 THEN v ELSE Op(fold, v, x)]
<1>1. <<x>> \in Seq({x}) /\ Len(<<x>>) = 1 /\ <<x>>[1] = x
  OBVIOUS
<1>2. h[0] = v /\ h[1] = Op(fold, v, x)
  OBVIOUS
<1> HIDE DEF h
<1>3. Folds(h, fold, v, <<x>>)
  <2>1. \A i \in 1 .. 1 : i = 1 /\ i - 1 = 0
    OBVIOUS
  <2> QED BY <1>1, <1>2, <2>1 DEF Folds
<1>4. Fold(fold, v, <<x>>) = h[Len(<<x>>)]
  BY <1>1, <1>3, FoldIs
<1> QED
  BY <1>1, <1>2, <1>4

LEMMA FoldConcat ==
  ASSUME NEW T, NEW s \in Seq(T), NEW t \in Seq(T), NEW fold, NEW v
  PROVE  Fold(fold, v, s \o t) = Fold(fold, Fold(fold, v, s), t)
<1> PICK m \in Nat, n \in Nat : m = Len(s) /\ n = Len(t)
  OBVIOUS
<1> PICK st : st = s \o t
  OBVIOUS
<1>1. /\ st \in Seq(T) /\ Len(st) = m + n
      /\ \A i \in 1 .. m : st[i] = s[i]
      /\ \A i \in 1 .. n : st[m + i] = t[i]
  OBVIOUS
<1>2. PICK h : Folds(h, fold, v, st) /\ h[m + n] = Fold(fold, v, st)
  <2>1. \E h : Folds(h, fold, v, st) /\ h[Len(st)] = Fold(fold, v, st)
    BY <1>1, FoldFolds, ZenonT(60)
  <2> QED BY <1>1, <2>1
<1>3. h[0] = v /\ \A i \in 1 .. m + n : h[i] = Op(fold, h[i - 1], st[i])
  BY <1>1, <1>2 DEF Folds
<1>4. Fold(fold, v, s) = h[m]
  <2>1. ASSUME NEW i \in 1 .. m PROVE h[i] = Op(fold, h[i - 1], s[i])
    <3>1. i \in 1 .. m + n
      OBVIOUS
    <3> QED BY <1>1, <1>3, <3>1
  <2>2. Folds(h, fold, v, s)
    BY <1>3, <2>1 DEF Folds
  <2> QED BY <2>2, FoldIs
<1> DEFINE e == [i \in 0 .. n |-> h[m + i]]
<1>5. Fold(fold, h[m], t) = h[m + n]
  <2>1. e[0] = h[m] /\ e[n] = h[m + n]
    OBVIOUS
  <2>2. ASSUME NEW i \in 1 .. n PROVE e[i] = Op(fold, e[i - 1], t[i])
    <3>1. m + i \in 1 .. m + n /\ (m + i) - 1 = m + (i - 1)
      OBVIOUS
    <3>2. e[i] = h[m + i] /\ e[i - 1] = h[m + (i - 1)]
      OBVIOUS
    <3> QED BY <1>1, <1>3, <3>1, <3>2, SMTT(40)
  <2> HIDE DEF e
  <2>3. Folds(e, fold, h[m], t)
    BY <2>1, <2>2 DEF Folds
  <2>4. Fold(fold, h[m], t) = e[Len(t)]
    BY <2>3, FoldIs
  <2> QED BY <2>1, <2>4
<1> QED
  BY <1>2, <1>4, <1>5

-----------------------------------------------------------------------------
(* FlattenSeq. *)

\* Concatenation, folded up: the SMT encoding of \o unfolds it everywhere.
Cat(s, t) == s \o t
LEMMA CatType == \A T : \A s, t \in Seq(T) : Cat(s, t) \in Seq(T)
BY DEF Cat
LEMMA CatAssoc ==
  ASSUME NEW T, NEW s \in Seq(T), NEW t \in Seq(T), NEW u \in Seq(T)
  PROVE  Cat(s, Cat(t, u)) = Cat(Cat(s, t), u)
BY ConcatAssociative, SMTT(30) DEF Cat

\* h[k] is what the first k of the sequences s make up.
Flat(h, s) == h[0] = <<>> /\ \A i \in 1 .. Len(s) : h[i] = Cat(h[i - 1], s[i])

LEMMA FlattenEmpty == FlattenSeq(<<>>) = <<>>
BY DEF FlattenSeq

LEMMA FlattenIs ==
  ASSUME NEW T, NEW s \in Seq(Seq(T)), NEW h \in [0 .. Len(s) -> Seq(T)], Flat(h, s)
  PROVE  FlattenSeq(s) = h[Len(s)]
<1> PICK n \in Nat : n = Len(s)
  OBVIOUS
<1> DEFINE Is(f) == f = [i \in 1 .. n |-> IF i = 1 THEN s[i] ELSE Cat(f[i - 1], s[i])]
           f == CHOOSE f : Is(f)
           S == {k \in Nat : k \in 1 .. n => f[k] = h[k]}
<1>0. h[0] = <<>> /\ \A i \in 1 .. n : h[i] = Cat(h[i - 1], s[i])
  BY DEF Flat
<1>1. CASE n = 0
  <2>1. s = <<>>
    BY <1>1, EmptySeq
  <2> QED BY <1>0, <1>1, <2>1, FlattenEmpty
<1>2. CASE n > 0
  <2>0. h[1] = s[1]
    <3>1. s[1] \in Seq(T) /\ 1 \in 1 .. n /\ 1 - 1 = 0
      BY <1>2
    <3>2. h[1] = Cat(h[0], s[1])
      BY <1>0, <3>1
    <3> QED BY <1>0, <3>1, <3>2, ConcatEmptySeq DEF Cat
  <2>1. Is([i \in 1 .. n |-> h[i]])
    <3> DEFINE g == [i \in 1 .. n |-> h[i]]
    <3>1. ASSUME NEW i \in 1 .. n PROVE g[i] = IF i = 1 THEN s[i] ELSE Cat(g[i - 1], s[i])
      <4>1. CASE i = 1
        BY <2>0, <4>1
      <4>2. CASE i # 1
        <5>1. i - 1 \in 1 .. n /\ h[i] = Cat(h[i - 1], s[i])
          BY <4>2, <1>0
        <5> QED BY <4>2, <5>1
      <4> QED BY <4>1, <4>2
    <3> QED BY <3>1
  <2>2. Is(f)
    BY <2>1, Zenon
  <2>3. FlattenSeq(s) = f[n]
    BY <1>2 DEF FlattenSeq, Cat
  <2> HIDE DEF f
  <2>4. 0 \in S
    OBVIOUS
  <2>5. ASSUME NEW k \in Nat, k \in S PROVE k + 1 \in S
    <3>1. CASE k = 0
      <4>1. f[1] = s[1]
        BY <1>2, <2>2
      <4> QED BY <2>0, <3>1, <4>1
    <3>2. CASE k # 0 /\ k + 1 \in 1 .. n
      <4>1. k \in 1 .. n /\ (k + 1) - 1 = k /\ k + 1 # 1
        BY <3>2
      <4>2. f[k] = h[k]
        BY <2>5, <4>1
      <4>3. f[k + 1] = Cat(f[k], s[k + 1])
        BY <2>2, <3>2, <4>1
      <4>4. h[k + 1] = Cat(h[k], s[k + 1])
        BY <1>0, <3>2, <4>1
      <4> QED BY <4>2, <4>3, <4>4
    <3> QED BY <3>1, <3>2
  <2> HIDE DEF S
  <2>6. n \in S
    BY <2>4, <2>5, Induction
  <2> QED BY <1>2, <2>3, <2>6 DEF S
<1> QED
  BY <1>1, <1>2

LEMMA FlatExists ==
  ASSUME NEW T, NEW s \in Seq(Seq(T))
  PROVE  \E h \in [0 .. Len(s) -> Seq(T)] : Flat(h, s)
<1> PICK n \in Nat : n = Len(s)
  OBVIOUS
<1> DEFINE step == [i \in 1 .. n |-> [v \in Seq(T) |-> Cat(v, s[i])]]
<1>1. \A i \in 1 .. n : s[i] \in Seq(T)
  OBVIOUS
<1>2. step \in Steps(n, Seq(T))
  BY <1>1, CatType DEF Steps
<1>3. \A v \in Seq(T), i \in 1 .. n : step[i][v] = Cat(v, s[i])
  OBVIOUS
<1>4. <<>> \in Seq(T)
  OBVIOUS
<1> HIDE DEF step
<1>5. PICK h : IsChain(h, <<>>, step, n, Seq(T))
  BY <1>2, <1>4, Chain
<1>6. h \in [0 .. n -> Seq(T)] /\ h[0] = <<>> /\ \A i \in 1 .. n : h[i] = step[i][h[i - 1]]
  BY <1>5 DEF IsChain
<1>7. ASSUME NEW i \in 1 .. n PROVE h[i] = Cat(h[i - 1], s[i])
  <2>1. i - 1 \in 0 .. n
    OBVIOUS
  <2>2. h[i - 1] \in Seq(T)
    BY <1>6, <2>1
  <2> QED BY <1>3, <1>6, <2>2
<1> QED
  BY <1>6, <1>7 DEF Flat

LEMMA FlattenType ==
  ASSUME NEW T, NEW s \in Seq(Seq(T))
  PROVE  FlattenSeq(s) \in Seq(T)
<1>1. PICK h \in [0 .. Len(s) -> Seq(T)] : Flat(h, s)
  BY FlatExists
<1>2. FlattenSeq(s) = h[Len(s)]
  BY <1>1, FlattenIs
<1> QED
  BY <1>2

LEMMA FlattenAppend ==
  ASSUME NEW T, NEW s \in Seq(Seq(T)), NEW x \in Seq(T)
  PROVE  FlattenSeq(Append(s, x)) = Cat(FlattenSeq(s), x)
<1> PICK n \in Nat : n = Len(s)
  OBVIOUS
<1> PICK t : t = Append(s, x)
  OBVIOUS
<1>1. /\ t \in Seq(Seq(T)) /\ Len(t) = n + 1
      /\ t[n + 1] = x /\ \A i \in 1 .. n : t[i] = s[i]
  OBVIOUS
<1>2. PICK h \in [0 .. Len(s) -> Seq(T)] : Flat(h, s)
  BY FlatExists
<1>z. Len(s) \in Nat /\ n = Len(s) /\ h \in [0 .. n -> Seq(T)]
  OBVIOUS
<1>y. h[n] \in Seq(T)
  BY <1>z
<1>a. h[n] \in Seq(T) /\ h[0] = <<>> /\ \A i \in 1 .. n : h[i] = Cat(h[i - 1], s[i])
  BY <1>2, <1>y, <1>z DEF Flat
<1> DEFINE g == [i \in 0 .. n + 1 |-> IF i = n + 1 THEN Cat(h[n], x) ELSE h[i]]
<1>b. \A i \in 0 .. n : h[i] \in Seq(T)
  OBVIOUS
<1>c. Cat(h[n], x) \in Seq(T)
  BY <1>a, CatType
<1>3. g \in [0 .. n + 1 -> Seq(T)]
  BY <1>b, <1>c
<1>4. g[n + 1] = Cat(h[n], x) /\ \A i \in 0 .. n : g[i] = h[i]
  OBVIOUS
<1> HIDE DEF g
<1>5. ASSUME NEW i \in 1 .. n + 1 PROVE g[i] = Cat(g[i - 1], t[i])
  <2>1. CASE i = n + 1
    <3>1. g[i - 1] = h[n]
      BY <1>4, <2>1
    <3> QED BY <1>1, <1>4, <2>1, <3>1
  <2>2. CASE i \in 1 .. n
    <3>1. g[i] = h[i] /\ g[i - 1] = h[i - 1]
      BY <1>4, <2>2
    <3> QED BY <1>1, <1>a, <2>2, <3>1
  <2> QED BY <2>1, <2>2
<1>6. Flat(g, t)
  BY <1>a, <1>1, <1>4, <1>5 DEF Flat
<1>7. FlattenSeq(t) = g[n + 1]
  <2>1. g \in [0 .. Len(t) -> Seq(T)]
    BY <1>1, <1>3
  <2> QED BY <1>1, <1>6, <2>1, FlattenIs, ZenonT(60)
<1>8. FlattenSeq(s) = h[n]
  BY <1>2, FlattenIs
<1> QED
  BY <1>4, <1>7, <1>8

\* Flattening one sequence, and two sequences of sequences.
LEMMA FlattenOne ==
  ASSUME NEW T, NEW x \in Seq(T)
  PROVE  FlattenSeq(<<x>>) = x
<1>1. <<>> \in Seq(Seq(T)) /\ Append(<<>>, x) = <<x>>
  OBVIOUS
<1>2. FlattenSeq(Append(<<>>, x)) = Cat(FlattenSeq(<<>>), x)
  BY <1>1, FlattenAppend
<1>3. Cat(<<>>, x) = x
  BY ConcatEmptySeq DEF Cat
<1> QED
  BY <1>1, <1>2, <1>3, FlattenEmpty

LEMMA FlattenConcat ==
  ASSUME NEW T, NEW s \in Seq(Seq(T)), NEW t \in Seq(Seq(T))
  PROVE  FlattenSeq(s \o t) = FlattenSeq(s) \o FlattenSeq(t)
<1> PICK m \in Nat, n \in Nat : m = Len(s) /\ n = Len(t)
  OBVIOUS
<1> PICK st : st = s \o t
  OBVIOUS
<1>1. /\ st \in Seq(Seq(T)) /\ Len(st) = m + n
      /\ \A i \in 1 .. m : st[i] = s[i]
      /\ \A i \in 1 .. n : st[m + i] = t[i]
  OBVIOUS
<1>2. PICK h \in [0 .. Len(s) -> Seq(T)] : Flat(h, s)
  BY FlatExists
<1>3. PICK g \in [0 .. Len(t) -> Seq(T)] : Flat(g, t)
  BY FlatExists
<1>4. \A i \in 0 .. m : h[i] \in Seq(T)
  BY <1>2
<1>5. \A i \in 0 .. n : g[i] \in Seq(T)
  BY <1>3
<1>6. h[m] \in Seq(T)
  BY <1>4
<1>7. h[0] = <<>> /\ \A i \in 1 .. m : h[i] = Cat(h[i - 1], s[i])
  BY <1>2 DEF Flat
<1>8. g[0] = <<>> /\ \A i \in 1 .. n : g[i] = Cat(g[i - 1], t[i])
  BY <1>3 DEF Flat
<1> DEFINE e == [i \in 0 .. m + n |-> IF i \in 0 .. m THEN h[i] ELSE Cat(h[m], g[i - m])]
<1>9. e \in [0 .. m + n -> Seq(T)]
  <2>1. ASSUME NEW i \in 0 .. m + n, i \notin 0 .. m PROVE Cat(h[m], g[i - m]) \in Seq(T)
    <3>1. i - m \in 0 .. n
      BY <2>1
    <3> QED BY <1>5, <1>6, <3>1, CatType
  <2> QED BY <1>4, <2>1
<1>10. \A i \in 0 .. m : e[i] = h[i]
  OBVIOUS
<1>11. ASSUME NEW i \in 0 .. n PROVE e[m + i] = Cat(h[m], g[i])
  <2>1. CASE i = 0
    <3>1. Cat(h[m], <<>>) = h[m]
      BY <1>6, ConcatEmptySeq DEF Cat
    <3>2. e[m + i] = h[m]
      BY <2>1
    <3> QED BY <1>8, <2>1, <3>1, <3>2
  <2>2. CASE i # 0
    <3>1. m + i \in 0 .. m + n /\ m + i \notin 0 .. m /\ (m + i) - m = i
      BY <2>2
    <3> QED BY <3>1
  <2> QED BY <2>1, <2>2
<1> HIDE DEF e
<1>12. ASSUME NEW i \in 1 .. m + n PROVE e[i] = Cat(e[i - 1], st[i])
  <2>1. CASE i \in 1 .. m
    <3>1. i - 1 \in 0 .. m /\ i \in 0 .. m
      BY <2>1
    <3> QED BY <1>1, <1>7, <1>10, <2>1, <3>1
  <2>2. CASE i \notin 1 .. m
    <3>1. PICK k : k = i - m
      OBVIOUS
    <3>2. k \in 1 .. n /\ k \in 0 .. n /\ k - 1 \in 0 .. n /\ i = m + k /\ i - 1 = m + (k - 1)
      BY <2>2, <3>1
    <3>3. e[i] = Cat(h[m], g[k]) /\ e[i - 1] = Cat(h[m], g[k - 1])
      BY <1>11, <3>2
    <3>4. g[k] = Cat(g[k - 1], t[k]) /\ g[k - 1] \in Seq(T) /\ t[k] \in Seq(T)
      BY <1>5, <1>8, <3>2
    <3>5. Cat(h[m], Cat(g[k - 1], t[k])) = Cat(Cat(h[m], g[k - 1]), t[k])
      BY <1>6, <3>4, CatAssoc
    <3>6. st[i] = t[k]
      BY <1>1, <3>2
    <3> QED BY <3>3, <3>4, <3>5, <3>6
  <2> QED BY <2>1, <2>2
<1>13. e[0] = <<>>
  BY <1>7, <1>10
<1>14. Flat(e, st)
  BY <1>1, <1>12, <1>13 DEF Flat
<1>15. FlattenSeq(st) = e[m + n]
  <2>1. e \in [0 .. Len(st) -> Seq(T)]
    BY <1>1, <1>9
  <2>2. FlattenSeq(st) = e[Len(st)]
    BY <1>1, <1>14, <2>1, FlattenIs
  <2> QED BY <1>1, <2>2
<1>16. e[m + n] = Cat(h[m], g[n])
  BY <1>11
<1>17. FlattenSeq(s) = h[m] /\ FlattenSeq(t) = g[n]
  BY <1>2, <1>3, FlattenIs
<1> QED
  BY <1>15, <1>16, <1>17 DEF Cat

-----------------------------------------------------------------------------
(* Total and the printer's run, of sequences put together. *)

LEMMA TotalEmpty == Total(<<>>) = 0
<1>1. <<>> \in Seq({})
  OBVIOUS
<1> QED BY <1>1, TotalIsFold, FoldEmpty

LEMMA TotalOne ==
  ASSUME NEW x, x.len \in Int
  PROVE  Total(<<x>>) = x.len
<1>1. <<x>> \in Seq({x})
  OBVIOUS
<1>2. Op("total", 0, x) = 0 + x.len
  BY DEF Op
<1>3. Total(<<x>>) = Fold("total", 0, <<x>>)
  BY <1>1, TotalIsFold
<1>4. Fold("total", 0, <<x>>) = Op("total", 0, x)
  BY FoldOne
<1> QED BY <1>2, <1>3, <1>4

\* From any start, the sum of the lengths is added to it.
LEMMA TotalFrom ==
  ASSUME NEW T, \A x \in T : x.len \in Nat, NEW t \in Seq(T), NEW v \in Nat
  PROVE  Total(t) \in Nat /\ Fold("total", v, t) = v + Total(t)
<1> PICK n \in Nat : n = Len(t)
  OBVIOUS
<1>1. PICK h : Folds(h, "total", 0, t) /\ h[n] = Fold("total", 0, t)
  BY FoldFolds
<1>2. h[0] = 0 /\ \A i \in 1 .. n : h[i] = h[i - 1] + t[i].len
  BY <1>1 DEF Folds, Op
<1>3. \A i \in 1 .. n : t[i].len \in Nat
  OBVIOUS
<1> DEFINE S == {k \in Nat : k \in 0 .. n => h[k] \in Nat}
<1>4. 0 \in S
  BY <1>2
<1>5. ASSUME NEW k \in Nat, k \in S PROVE k + 1 \in S
  <2> SUFFICES ASSUME k + 1 \in 0 .. n PROVE h[k + 1] \in Nat
    OBVIOUS
  <2>1. k \in 0 .. n /\ k + 1 \in 1 .. n /\ (k + 1) - 1 = k
    OBVIOUS
  <2>2. h[k] \in Nat
    BY <1>5, <2>1
  <2>3. h[k + 1] = h[k] + t[k + 1].len
    BY <1>2, <2>1
  <2> QED BY <1>3, <2>1, <2>2, <2>3
<1> HIDE DEF S
<1>6. \A k \in 0 .. n : h[k] \in Nat
  <2>1. \A k \in Nat : k \in S
    BY <1>4, <1>5, Induction
  <2> QED BY <2>1 DEF S
<1> DEFINE e == [i \in 0 .. n |-> v + h[i]]
<1>7. e[0] = v /\ e[n] = v + h[n]
  BY <1>2
<1>8. ASSUME NEW i \in 1 .. n PROVE e[i] = e[i - 1] + t[i].len
  <2>1. e[i] = v + h[i] /\ e[i - 1] = v + h[i - 1]
    OBVIOUS
  <2>2. h[i - 1] \in Nat /\ t[i].len \in Nat /\ h[i] = h[i - 1] + t[i].len
    BY <1>2, <1>3, <1>6
  <2> QED BY <2>1, <2>2
<1> HIDE DEF e
<1>9. Folds(e, "total", v, t)
  BY <1>7, <1>8 DEF Folds, Op
<1>10. Fold("total", v, t) = e[n]
  BY <1>9, FoldIs
<1>11. Total(t) = h[n]
  BY <1>1, TotalIsFold
<1> QED
  BY <1>6, <1>7, <1>10, <1>11

LEMMA TotalConcat ==
  ASSUME NEW T, \A x \in T : x.len \in Nat, NEW s \in Seq(T), NEW t \in Seq(T)
  PROVE  Total(s \o t) = Total(s) + Total(t)
<1>1. s \o t \in Seq(T)
  OBVIOUS
<1>2. Total(s \o t) = Fold("total", 0, s \o t)
  BY <1>1, TotalIsFold
<1>3. Fold("total", 0, s \o t) = Fold("total", Fold("total", 0, s), t)
  BY FoldConcat
<1>4. Fold("total", 0, s) = Total(s)
  BY TotalIsFold
<1>5. Total(s) \in Nat
  BY TotalFrom
<1>6. Fold("total", Total(s), t) = Total(s) + Total(t)
  BY <1>5, TotalFrom
<1> QED
  BY <1>2, <1>3, <1>4, <1>6

LEMMA RunOne ==
  ASSUME NEW p, NEW op, NEW arg
  PROVE  Run(p, Cmd(op, arg)) = Does(p, [op |-> op, arg |-> arg])
<1> DEFINE x == [op |-> op, arg |-> arg]
<1>1. Cmd(op, arg) = <<x>> /\ <<x>> \in Seq({x})
  BY DEF Cmd
<1>2. Op("run", p, x) = Does(p, x)
  BY DEF Op
<1> HIDE DEF x
<1>3. Run(p, <<x>>) = Does(p, x)
  BY <1>1, <1>2, RunIsFold, FoldOne
<1> QED
  BY <1>1, <1>3 DEF x

LEMMA RunConcat ==
  ASSUME NEW T, NEW s \in Seq(T), NEW t \in Seq(T), NEW p
  PROVE  Run(p, s \o t) = Run(Run(p, s), t)
<1>1. s \o t \in Seq(T)
  OBVIOUS
<1>2. Run(p, s \o t) = Fold("run", p, s \o t)
  BY <1>1, RunIsFold
<1>3. Fold("run", p, s \o t) = Fold("run", Fold("run", p, s), t)
  BY FoldConcat
<1>4. Fold("run", p, s) = Run(p, s)
  BY RunIsFold
<1>5. Fold("run", Run(p, s), t) = Run(Run(p, s), t)
  BY RunIsFold
<1> QED
  BY <1>2, <1>3, <1>4, <1>5

LEMMA RunEmpty ==
  ASSUME NEW p
  PROVE  Run(p, <<>>) = p
<1>1. <<>> \in Seq({})
  OBVIOUS
<1> QED BY <1>1, RunIsFold, FoldEmpty

-----------------------------------------------------------------------------
(* Texts and their letters. *)

LEMMA ChunkType == \A x \in Chunk : x.len \in Nat /\ x.space \in BOOLEAN
BY DEF Chunk

\* A text in two parts is as long as they are.
LEMMA TextConcat ==
  ASSUME NEW s \in Seq(Chunk), NEW t \in Seq(Chunk)
  PROVE  /\ s \o t \in Seq(Chunk) /\ Total(s) \in Nat /\ Total(t) \in Nat
         /\ Total(s \o t) = Total(s) + Total(t)
<1>1. \A x \in Chunk : x.len \in Nat
  BY ChunkType
<1>2. Total(s \o t) = Total(s) + Total(t)
  BY <1>1, TotalConcat
<1>3. Total(s) \in Nat /\ Total(t) \in Nat
  BY <1>1, TotalFrom
<1> QED
  BY <1>2, <1>3

\* What a text's letters are counted from: its chunks, the blanks without a length.
Lettered(chunks) == [i \in DOMAIN chunks |-> IF chunks[i].space THEN [chunks[i] EXCEPT !.len = 0]
                                             ELSE chunks[i]]
LEMMA LetteredType ==
  ASSUME NEW s \in Seq(Chunk)
  PROVE  Lettered(s) \in Seq(Chunk) /\ Len(Lettered(s)) = Len(s)
<1>1. \A i \in DOMAIN s : s[i] \in Chunk
  OBVIOUS
<1>2. \A x \in Chunk : [x EXCEPT !.len = 0] \in Chunk
  BY DEF Chunk
<1>3. \A i \in 1 .. Len(s) : (IF s[i].space THEN [s[i] EXCEPT !.len = 0] ELSE s[i]) \in Chunk
  BY <1>1, <1>2
<1> PICK n \in Nat : n = Len(s) /\ DOMAIN s = 1 .. n
  OBVIOUS
<1>4. DOMAIN Lettered(s) = 1 .. n /\ Lettered(s) \in [1 .. n -> Chunk]
  BY <1>3 DEF Lettered
<1> QED
  BY <1>4

LEMMA LettersConcat ==
  ASSUME NEW s \in Seq(Chunk), NEW t \in Seq(Chunk)
  PROVE  /\ Letters(s) \in Nat /\ Letters(t) \in Nat
         /\ Letters(s \o t) = Letters(s) + Letters(t)
<1>1. Lettered(s \o t) = Lettered(s) \o Lettered(t)
  <2> PICK m \in Nat, n \in Nat : m = Len(s) /\ n = Len(t)
    OBVIOUS
  <2> PICK a, b, c : a = Lettered(s) /\ b = Lettered(t) /\ c = Lettered(s \o t)
    OBVIOUS
  <2>1. s \o t \in Seq(Chunk) /\ Len(s \o t) = m + n
    OBVIOUS
  <2>2. a \in Seq(Chunk) /\ b \in Seq(Chunk) /\ c \in Seq(Chunk)
    BY <2>1, LetteredType
  <2>3. Len(a) = m /\ Len(b) = n /\ Len(c) = m + n
    BY <2>1, LetteredType
  <2>4. ASSUME NEW i \in 1 .. m + n PROVE c[i] = (a \o b)[i]
    <3>1. CASE i \in 1 .. m
      <4>1. (s \o t)[i] = s[i] /\ (a \o b)[i] = a[i]
        BY <2>2, <2>3, <3>1
      <4> QED BY <2>1, <3>1, <4>1 DEF Lettered
    <3>2. CASE i \notin 1 .. m
      <4>1. (s \o t)[i] = t[i - m] /\ (a \o b)[i] = b[i - m] /\ i - m \in 1 .. n
        BY <2>2, <2>3, <3>2
      <4> QED BY <2>1, <4>1, SMTT(30) DEF Lettered
    <3> QED BY <3>1, <3>2
  <2>5. a \o b \in Seq(Chunk) /\ Len(a \o b) = m + n
    BY <2>2, <2>3
  <2>6. c = a \o b
    BY <2>2, <2>3, <2>4, <2>5, SeqEqual
  <2> QED BY <2>6
<1>2. Lettered(s) \in Seq(Chunk) /\ Lettered(t) \in Seq(Chunk)
  BY LetteredType
<1>3. \A u : Letters(u) = Total(Lettered(u))
  BY DEF Letters, Lettered
<1> QED
  BY <1>1, <1>2, <1>3, TextConcat

LetterLen(x) == IF x.space THEN 0 ELSE x.len
LEMMA LettersOne ==
  ASSUME NEW x \in Chunk
  PROVE  Letters(<<x>>) = LetterLen(x) /\ LetterLen(x) \in Nat
<1> DEFINE y == IF x.space THEN [x EXCEPT !.len = 0] ELSE x
<1>1. Lettered(<<x>>) = <<y>>
  BY DEF Lettered
<1>2. y.len = LetterLen(x)
  BY DEF Chunk, LetterLen
<1>3. y.len \in Nat
  BY <1>2, ChunkType DEF LetterLen
<1> HIDE DEF y
<1>4. Total(<<y>>) = y.len
  BY <1>3, TotalOne
<1> QED
  BY <1>1, <1>2, <1>3, <1>4 DEF Letters, Lettered

LEMMA LettersEmpty == Letters(<<>>) = 0
<1>1. Lettered(<<>>) = <<>>
  BY DEF Lettered
<1> QED
  BY <1>1, TotalEmpty DEF Letters, Lettered

\* A text is what comes before a place and what comes after.
LEMMA Split ==
  ASSUME NEW T, NEW c \in Seq(T), NEW n \in 0 .. Len(c)
  PROVE  /\ SubSeq(c, 1, n) \in Seq(T) /\ SubSeq(c, n + 1, Len(c)) \in Seq(T)
         /\ Len(SubSeq(c, n + 1, Len(c))) = Len(c) - n
         /\ c = Cat(SubSeq(c, 1, n), SubSeq(c, n + 1, Len(c)))
<1>m. PICK m \in Nat : m = Len(c)
  OBVIOUS
<1>f. PICK f : f = SubSeq(c, 1, n)
  OBVIOUS
<1>r. PICK r : r = SubSeq(c, n + 1, m)
  OBVIOUS
<1>1. f \in Seq(T) /\ Len(f) = n /\ \A i \in 1 .. n : f[i] = c[i]
  BY <1>m, <1>f
<1>2. r \in Seq(T) /\ Len(r) = m - n /\ \A i \in 1 .. m - n : r[i] = c[n + i]
  BY <1>m, <1>r
<1>3. f \o r \in Seq(T) /\ Len(f \o r) = m
  <2>1. f \o r \in Seq(T) /\ Len(f \o r) = Len(f) + Len(r)
    BY <1>1, <1>2, ConcatProperties
  <2> QED BY <1>1, <1>2, <1>m, <2>1
<1>4. ASSUME NEW i \in 1 .. m PROVE c[i] = (f \o r)[i]
  <2>1. CASE i \in 1 .. n
    <3>1. (f \o r)[i] = f[i]
      BY <1>1, <1>2, <2>1
    <3> QED BY <1>1, <2>1, <3>1
  <2>2. CASE i \notin 1 .. n
    <3>1. i - n \in 1 .. m - n /\ n + (i - n) = i
      BY <1>m, <2>2
    <3>2. (f \o r)[i] = r[i - n]
      BY <1>1, <1>2, <1>m, <2>2
    <3> QED BY <1>2, <3>1, <3>2
  <2> QED BY <2>1, <2>2
<1>5. c = f \o r
  BY <1>3, <1>4, <1>m, SeqEqual
<1> QED
  BY <1>1, <1>2, <1>5, <1>m, <1>f, <1>r DEF Cat

LEMMA FirstOne ==
  ASSUME NEW T, NEW c \in Seq(T), c # <<>>
  PROVE  /\ SubSeq(c, 1, 1) = <<c[1]>> /\ c[1] \in T /\ Head(c) = c[1]
         /\ SubSeq(c, 1, Len(c)) = c
<1>1. 1 \in 1 .. Len(c)
  BY EmptySeq
<1>2. c[1] \in T /\ Head(c) = c[1]
  BY <1>1
<1>3. SubSeq(c, 1, 1) = <<c[1]>>
  <2>x. PICK x : x = c[1]
    OBVIOUS
  <2>f. PICK f : f = SubSeq(c, 1, 1)
    OBVIOUS
  <2>1. f \in Seq(T) /\ Len(f) = 1 /\ f[1] = x
    BY <1>1, <2>x, <2>f
  <2>2. <<x>> \in Seq(T) /\ Len(<<x>>) = 1 /\ <<x>>[1] = x
    BY <1>2, <2>x
  <2>3. \A i \in 1 .. Len(f) : f[i] = <<x>>[i]
    BY <2>1, <2>2
  <2>4. f = <<x>>
    BY <2>1, <2>2, <2>3, SeqEqual
  <2> QED BY <2>x, <2>f, <2>4
<1>4. SubSeq(c, 1, Len(c)) = c
  OBVIOUS
<1> QED
  BY <1>2, <1>3, <1>4

\* A text with a word behind it, with one in front of it, and in two parts.
LEMMA TextAppend ==
  ASSUME NEW s \in Seq(Chunk), NEW x \in Chunk, NEW t, t = Cat(s, <<x>>)
  PROVE  /\ t \in Seq(Chunk) /\ Len(t) = Len(s) + 1
         /\ Total(t) = Total(s) + x.len /\ Total(s) \in Nat /\ x.len \in Nat
         /\ Letters(t) = Letters(s) + LetterLen(x) /\ Letters(s) \in Nat
<1>0. t = s \o <<x>>
  BY DEF Cat
<1>1. <<x>> \in Seq(Chunk)
  OBVIOUS
<1>2. x.len \in Nat
  BY ChunkType
<1>3. Total(<<x>>) = x.len
  BY <1>2, TotalOne
<1>4. t \in Seq(Chunk) /\ Len(t) = Len(s) + 1
  BY <1>0
<1>5. Total(s \o <<x>>) = Total(s) + Total(<<x>>) /\ Total(s) \in Nat
  BY <1>1, TextConcat
<1>6. Letters(s \o <<x>>) = Letters(s) + Letters(<<x>>) /\ Letters(s) \in Nat
  BY <1>1, LettersConcat
<1> QED
  BY <1>0, <1>2, <1>3, <1>4, <1>5, <1>6, LettersOne

LEMMA TextPrepend ==
  ASSUME NEW s \in Seq(Chunk), NEW x \in Chunk, NEW t, t = Cat(<<x>>, s)
  PROVE  /\ t \in Seq(Chunk) /\ Len(t) = Len(s) + 1
         /\ Total(t) = x.len + Total(s) /\ Total(s) \in Nat /\ x.len \in Nat
         /\ Letters(t) = LetterLen(x) + Letters(s) /\ Letters(s) \in Nat
<1>0. t = <<x>> \o s
  BY DEF Cat
<1>1. <<x>> \in Seq(Chunk)
  OBVIOUS
<1>2. x.len \in Nat
  BY ChunkType
<1>3. Total(<<x>>) = x.len
  BY <1>2, TotalOne
<1>4. t \in Seq(Chunk) /\ Len(t) = Len(s) + 1
  BY <1>0
<1>5. Total(<<x>> \o s) = Total(<<x>>) + Total(s) /\ Total(s) \in Nat
  BY <1>1, TextConcat
<1>6. Letters(<<x>> \o s) = Letters(<<x>>) + Letters(s) /\ Letters(s) \in Nat
  BY <1>1, LettersConcat
<1> QED
  BY <1>0, <1>2, <1>3, <1>4, <1>5, <1>6, LettersOne

LEMMA TextCat ==
  ASSUME NEW s \in Seq(Chunk), NEW t \in Seq(Chunk), NEW u, u = Cat(s, t)
  PROVE  /\ u \in Seq(Chunk) /\ Total(s) \in Nat /\ Total(t) \in Nat
         /\ Total(u) = Total(s) + Total(t)
         /\ Letters(s) \in Nat /\ Letters(t) \in Nat /\ Letters(u) = Letters(s) + Letters(t)
<1>1. u = s \o t
  BY DEF Cat
<1> QED
  BY <1>1, TextConcat, LettersConcat

-----------------------------------------------------------------------------
(* One line of the word wrap. *)

\* The number of chunks that fit.
LEMMA FittingIs ==
  ASSUME NEW c \in Seq(Chunk), NEW width \in Nat
  PROVE  LET n == Fitting(c, width) IN
         /\ n \in 0 .. Len(c) /\ Total(SubSeq(c, 1, n)) <= width
         /\ n = Len(c) \/ Total(SubSeq(c, 1, n + 1)) > width
<1> PICK m \in Nat : m = Len(c)
  OBVIOUS
<1> DEFINE Prefix(n) == Total(SubSeq(c, 1, n))
           Full == {n \in 0 .. m : n = m \/ Prefix(n + 1) > width}
<1>1. ASSUME NEW n \in 0 .. m PROVE Prefix(n) \in Nat
  <2>1. SubSeq(c, 1, n) \in Seq(Chunk)
    OBVIOUS
  <2> QED BY <2>1, TextConcat
<1>2. Prefix(0) = 0
  <2>1. SubSeq(c, 1, 0) = <<>>
    OBVIOUS
  <2> QED BY <2>1, TotalEmpty
<1> HIDE DEF Prefix
<1>3. m \in Full /\ Full \in SUBSET Nat
  OBVIOUS
<1>4. PICK n \in Full : \A k \in Full : n <= k
  <2>1. Full # {}
    BY <1>3
  <2> HIDE DEF Full
  <2> QED BY <1>3, <2>1, Least
<1>5. Prefix(n) <= width
  <2>1. CASE n = 0
    BY <1>2, <2>1
  <2>2. CASE n # 0
    <3>1. n - 1 \in 0 .. m /\ n - 1 \notin Full /\ (n - 1) + 1 = n /\ n \in 0 .. m /\ n - 1 # m
      BY <1>4, <2>2, SMTT(30)
    <3> QED BY <1>1, <3>1
  <2> QED BY <2>1, <2>2
<1>6. \E k \in 0 .. Len(c) : /\ Total(SubSeq(c, 1, k)) <= width
                             /\ k = Len(c) \/ Total(SubSeq(c, 1, k + 1)) > width
  BY <1>4, <1>5 DEF Prefix
<1> QED
  BY <1>6 DEF Fitting

LEMMA TextType == \A s \in Seq(Chunk) : Total(s) \in Nat /\ Len(s) \in Nat
BY TextConcat

\* Dropping blanks at an end costs no letter.
LEMMA DropLastIs ==
  ASSUME NEW s \in Seq(Chunk)
  PROVE  /\ DropLast(s) \in Seq(Chunk) /\ Letters(DropLast(s)) = Letters(s)
         /\ Total(DropLast(s)) <= Total(s) /\ Total(s) \in Nat
<1>0. Total(s) \in Nat
  BY TextType
<1>1. CASE s # <<>> /\ Blank(Last(s))
  <2>f. PICK f, x : f = Front(s) /\ x = Last(s)
    OBVIOUS
  <2>1. f \in Seq(Chunk) /\ x \in Chunk /\ s = Cat(f, <<x>>)
    BY <1>1, <2>f DEF Front, Last, Cat
  <2>2. x.len \in Nat /\ LetterLen(x) = 0
    BY <1>1, <2>1, <2>f, ChunkType DEF Blank, LetterLen
  <2>4. /\ Total(s) = Total(f) + x.len /\ Letters(f) \in Nat /\ Total(f) \in Nat
        /\ Letters(s) = Letters(f) + LetterLen(x)
    BY <2>1, TextAppend
  <2>5. DropLast(s) = f
    BY <1>1, <2>f DEF DropLast
  <2> QED BY <1>0, <2>1, <2>2, <2>4, <2>5
<1>2. CASE ~(s # <<>> /\ Blank(Last(s)))
  <2>1. DropLast(s) = s
    BY <1>2 DEF DropLast
  <2> QED BY <1>0, <2>1
<1> QED
  BY <1>1, <1>2

LEMMA DropFirstIs ==
  ASSUME NEW s \in Seq(Chunk)
  PROVE  /\ DropFirst(s) \in Seq(Chunk) /\ Letters(DropFirst(s)) = Letters(s)
         /\ Total(DropFirst(s)) <= Total(s) /\ Len(DropFirst(s)) <= Len(s)
         /\ Total(s) \in Nat /\ Total(DropFirst(s)) \in Nat
<1>0. Total(s) \in Nat
  BY TextType
<1>1. CASE s # <<>> /\ Blank(Head(s))
  <2>f. PICK f, x : f = Tail(s) /\ x = Head(s)
    OBVIOUS
  <2>1. f \in Seq(Chunk) /\ x \in Chunk /\ s = Cat(<<x>>, f) /\ Len(f) <= Len(s)
    BY <1>1, <2>f DEF Cat
  <2>2. x.len \in Nat /\ LetterLen(x) = 0
    BY <1>1, <2>1, <2>f, ChunkType DEF Blank, LetterLen
  <2>4. /\ Total(s) = x.len + Total(f) /\ Letters(f) \in Nat /\ Total(f) \in Nat
        /\ Letters(s) = LetterLen(x) + Letters(f)
    BY <2>1, TextPrepend
  <2>5. DropFirst(s) = f
    BY <1>1, <2>f DEF DropFirst
  <2> QED BY <1>0, <2>1, <2>2, <2>4, <2>5
<1>2. CASE ~(s # <<>> /\ Blank(Head(s)))
  <2>1. DropFirst(s) = s
    BY <1>2 DEF DropFirst
  <2> QED BY <1>0, <2>1
<1> QED
  BY <1>1, <1>2

\* The next line fits, nothing but blanks is lost, and less is left than there was.
LEMMA NextLineIs ==
  ASSUME NEW c \in Seq(Chunk), NEW width \in Nat \ {0}, c # <<>>
  PROVE  LET next == NextLine(c, width) IN
         /\ next.line \in Seq(Chunk) /\ next.left \in Seq(Chunk)
         /\ Total(next.line) <= width /\ Total(next.line) \in Nat
         /\ Letters(next.line) + Letters(next.left) = Letters(c)
         /\ Total(next.left) + Len(next.left) < Total(c) + Len(c)
         /\ Total(next.left) \in Nat
<1>m. PICK m \in Nat : m = Len(c)
  OBVIOUS
<1>n. PICK n : n = Fitting(c, width)
  OBVIOUS
<1>1. /\ n \in 0 .. m /\ Total(SubSeq(c, 1, n)) <= width
      /\ n = m \/ Total(SubSeq(c, 1, n + 1)) > width
  BY <1>m, <1>n, FittingIs
<1>f. PICK fits : fits = SubSeq(c, 1, n)
  OBVIOUS
<1>r. PICK rest : rest = SubSeq(c, n + 1, m)
  OBVIOUS
<1>2. /\ fits \in Seq(Chunk) /\ rest \in Seq(Chunk)
      /\ Len(rest) = m - n /\ n \in Nat
  BY <1>1, <1>m, <1>f, <1>r, Split
<1>a. c = Cat(fits, rest)
  BY <1>1, <1>m, <1>f, <1>r, Split
<1>b. Len(rest) = m - n /\ n \in Nat /\ n <= m
  BY <1>1, <1>2
<1>3. /\ Total(fits) \in Nat /\ Total(rest) \in Nat /\ Total(c) = Total(fits) + Total(rest)
      /\ Letters(fits) \in Nat /\ Letters(rest) \in Nat
      /\ Letters(c) = Letters(fits) + Letters(rest)
  BY <1>2, <1>a, TextCat
<1>4. Total(fits) <= width /\ m > 0
  BY <1>1, <1>m, <1>f, EmptySeq
<1>5. CASE rest # <<>> /\ Head(rest).len > width
  <2>x. PICK x : x = Head(rest)
    OBVIOUS
  <2>t. PICK tail : tail = Tail(rest)
    OBVIOUS
  <2>r. PICK room : room = width - Total(fits)
    OBVIOUS
  <2>a. PICK a, b : a = [x EXCEPT !.len = room] /\ b = [x EXCEPT !.len = @ - room]
    OBVIOUS
  <2>1. x \in Chunk /\ tail \in Seq(Chunk) /\ Len(tail) = m - n - 1
    BY <1>2, <1>5, <2>x, <2>t
  <2>b. rest = Cat(<<x>>, tail)
    BY <1>2, <1>5, <2>x, <2>t DEF Cat
  <2>2. x.len \in Nat /\ x.len > width /\ room \in Nat /\ room <= width
    BY <1>3, <1>4, <1>5, <2>1, <2>x, <2>r, ChunkType, SMTT(40)
  <2>3. /\ a \in Chunk /\ b \in Chunk /\ a.len = room /\ b.len = x.len - room
        /\ a.space = x.space /\ b.space = x.space
    BY <2>1, <2>2, <2>a, SMTT(30) DEF Chunk
  <2>c. LetterLen(a) + LetterLen(b) = LetterLen(x) /\ {LetterLen(a), LetterLen(b)} \subseteq Nat
    BY <2>2, <2>3 DEF LetterLen
  <2>u. PICK u, w : u = Cat(fits, <<a>>) /\ w = Cat(<<b>>, tail)
    OBVIOUS
  <2>4. NextLine(c, width) = [line |-> DropLast(u), left |-> DropFirst(w)]
    <3>1. Append(fits, a) = Cat(fits, <<a>>)
      BY <1>2, <2>3 DEF Cat
    <3>2. NextLine(c, width) = [line |-> DropLast(Append(fits, a)),
                                left |-> DropFirst(<<b>> \o tail)]
      BY <1>5, <1>m, <1>n, <1>f, <1>r, <2>x, <2>t, <2>r, <2>a DEF NextLine
    <3> QED BY <2>u, <3>1, <3>2 DEF Cat
  <2>5. /\ u \in Seq(Chunk) /\ Total(u) = Total(fits) + room
        /\ Letters(u) = Letters(fits) + LetterLen(a)
    BY <1>2, <2>3, <2>u, TextAppend
  <2>6. /\ w \in Seq(Chunk) /\ Len(w) = Len(tail) + 1
        /\ Total(w) = (x.len - room) + Total(tail)
        /\ Letters(w) = LetterLen(b) + Letters(tail)
    <3>1. /\ w \in Seq(Chunk) /\ Len(w) = Len(tail) + 1 /\ Total(w) = b.len + Total(tail)
          /\ Letters(w) = LetterLen(b) + Letters(tail)
      BY <2>1, <2>3, <2>u, TextPrepend, ZenonT(60)
    <3> QED BY <2>3, <3>1
  <2>7. /\ Total(rest) = x.len + Total(tail) /\ Total(tail) \in Nat /\ Letters(tail) \in Nat
        /\ Letters(rest) = LetterLen(x) + Letters(tail)
    BY <2>1, <2>b, TextPrepend
  <2>8. Len(w) = m - n
    BY <1>b, <2>1, <2>6
  <2>10. /\ DropLast(u) \in Seq(Chunk) /\ Letters(DropLast(u)) = Letters(u)
         /\ Total(DropLast(u)) <= Total(u) /\ Total(DropLast(u)) \in Nat
    BY <2>5, DropLastIs, TextType
  <2>11. /\ DropFirst(w) \in Seq(Chunk) /\ Letters(DropFirst(w)) = Letters(w)
         /\ Total(DropFirst(w)) <= Total(w) /\ Len(DropFirst(w)) <= Len(w)
         /\ Total(DropFirst(w)) \in Nat /\ Len(DropFirst(w)) \in Nat
    BY <2>6, DropFirstIs, TextType
  <2>12. Total(u) = width
    BY <1>3, <2>5, <2>r
  <2>13. Letters(u) + Letters(w) = Letters(c)
    BY <1>3, <2>5, <2>6, <2>7, <2>c, SMTT(30)
  <2>14. Total(w) + Len(w) < Total(c) + m
    <3>1. n = 0 => Total(fits) = 0
      <4> SUFFICES ASSUME n = 0 PROVE fits = <<>>
        BY TotalEmpty
      <4> QED BY <1>f
    <3>2. Total(c) = Total(fits) + x.len + Total(tail)
      BY <1>3, <2>2, <2>7
    <3>3. 0 < room + n + Total(fits)
      BY <1>3, <1>b, <2>2, <2>r, <3>1, SMTT(30)
    <3>4. Total(w) = (x.len - room) + Total(tail) /\ Len(w) = m - n
      BY <2>6, <2>8
    <3>5. {room, x.len, n, Total(fits), Total(tail)} \subseteq Nat
      BY <1>3, <1>b, <2>2, <2>7
    <3> QED BY <3>2, <3>3, <3>4, <3>5, SMTT(30)
  <2>15. NextLine(c, width).line = DropLast(u) /\ NextLine(c, width).left = DropFirst(w)
    BY <2>4
  <2>16. Total(w) \in Nat /\ Len(w) \in Nat
    BY <2>6, TextType
  <2>17. Total(DropFirst(w)) + Len(DropFirst(w)) < Total(c) + m
    BY <1>3, <2>11, <2>14, <2>16, SMTT(30)
  <2> QED BY <1>m, <2>10, <2>11, <2>12, <2>13, <2>15, <2>17
<1>6. CASE ~(rest # <<>> /\ Head(rest).len > width)
  <2>1. NextLine(c, width) = [line |-> DropLast(fits), left |-> DropFirst(rest)]
    BY <1>6, <1>m, <1>n, <1>f, <1>r DEF NextLine
  <2>2. /\ DropLast(fits) \in Seq(Chunk) /\ Letters(DropLast(fits)) = Letters(fits)
        /\ Total(DropLast(fits)) <= Total(fits) /\ Total(DropLast(fits)) \in Nat
    BY <1>2, DropLastIs, TextType
  <2>3. /\ DropFirst(rest) \in Seq(Chunk) /\ Letters(DropFirst(rest)) = Letters(rest)
        /\ Total(DropFirst(rest)) <= Total(rest) /\ Len(DropFirst(rest)) <= Len(rest)
        /\ Total(DropFirst(rest)) \in Nat
    BY <1>2, DropFirstIs, TextType
  <2>4. n # 0
    <3> SUFFICES ASSUME n = 0 PROVE FALSE
      OBVIOUS
    <3>0. rest = c
      BY <1>m, <1>r, FirstOne
    <3>x. PICK x : x = c[1]
      OBVIOUS
    <3>1. SubSeq(c, 1, 1) = <<x>> /\ x \in Chunk /\ Head(rest) = x
      BY <3>0, <3>x, FirstOne
    <3>2. x.len \in Nat
      BY <3>1, ChunkType
    <3>3. Total(<<x>>) = x.len
      BY <3>2, TotalOne
    <3>4. Total(SubSeq(c, 1, 1)) > width
      BY <1>1, <1>4
    <3>5. x.len > width
      BY <3>1, <3>3, <3>4
    <3> QED BY <1>6, <3>0, <3>1, <3>5
  <2>5. Len(DropFirst(rest)) \in Nat
    BY <2>3
  <2>6. Total(DropFirst(rest)) + Len(DropFirst(rest)) < Total(c) + m
    BY <1>3, <1>b, <2>3, <2>4, <2>5, SMTT(40)
  <2> QED BY <1>3, <1>4, <1>m, <2>1, <2>2, <2>3, <2>6
<1> QED
  BY <1>5, <1>6

-----------------------------------------------------------------------------
(* The word wrap: textwrap.wrap for every text. *)

Size(c) == Total(c) + Len(c)
Left(c, width) == NextLine(c, width).left
FirstLine(c, width) ==
  LET line == NextLine(c, width).line IN IF line = <<>> THEN <<>> ELSE <<line>>
Wraps(g, c, width) == IF c = <<>> THEN <<>> ELSE Cat(FirstLine(c, width), g[Left(c, width)])
Smaller(n) == {c \in Seq(Chunk) : Size(c) < n}
\* g is the word wrap of the texts smaller than n, or of all.
WrapsUpTo(g, width, n) == g = [c \in Smaller(n) |-> Wraps(g, c, width)]
WrapsAll(g, width) == g = [c \in Seq(Chunk) |-> Wraps(g, c, width)]

LEMMA LeftIsSmaller ==
  ASSUME NEW c \in Seq(Chunk), NEW width \in Nat \ {0}, c # <<>>
  PROVE  Left(c, width) \in Seq(Chunk) /\ Size(Left(c, width)) \in Nat
         /\ Size(c) \in Nat /\ Size(Left(c, width)) < Size(c)
<1>1. /\ NextLine(c, width).left \in Seq(Chunk)
      /\ Total(NextLine(c, width).left) + Len(NextLine(c, width).left) < Total(c) + Len(c)
  BY NextLineIs
<1>2. \A s \in Seq(Chunk) : Size(s) \in Nat
  BY TextType DEF Size
<1> QED
  BY <1>1, <1>2 DEF Left, Size

LEMMA WrapsExists ==
  ASSUME NEW width \in Nat \ {0}, NEW n \in Nat
  PROVE  \E g : WrapsUpTo(g, width, n)
<1> DEFINE S == {m \in Nat : \E g : WrapsUpTo(g, width, m)}
<1>1. 0 \in S
  <2>1. \A c \in Seq(Chunk) : Size(c) \in Nat
    BY TextType DEF Size
  <2>2. Smaller(0) = {}
    BY <2>1 DEF Smaller
  <2>3. WrapsUpTo([c \in Smaller(0) |-> <<>>], width, 0)
    BY <2>2 DEF WrapsUpTo
  <2> QED BY <2>3
<1>2. ASSUME NEW m \in Nat, m \in S PROVE m + 1 \in S
  <2>1. PICK g : WrapsUpTo(g, width, m)
    BY <1>2
  <2> DEFINE f == [c \in Smaller(m + 1) |-> Wraps(g, c, width)]
  <2>2. /\ f = [c \in Smaller(m + 1) |-> f[c]]
        /\ \A c \in Smaller(m + 1) : f[c] = Wraps(g, c, width)
    OBVIOUS
  <2>3. \A c \in Smaller(m) : g[c] = Wraps(g, c, width)
    BY <2>1 DEF WrapsUpTo
  <2> HIDE DEF f
  <2>4. ASSUME NEW c \in Smaller(m + 1) PROVE f[c] = Wraps(f, c, width)
    <3>1. CASE c = <<>>
      BY <2>2, <3>1 DEF Wraps
    <3>2. CASE c # <<>>
      <4> PICK l : l = Left(c, width)
        OBVIOUS
      <4>1. c \in Seq(Chunk) /\ Size(c) < m + 1
        BY DEF Smaller
      <4>2. l \in Seq(Chunk) /\ Size(l) \in Nat /\ Size(c) \in Nat /\ Size(l) < Size(c)
        BY <3>2, <4>1, LeftIsSmaller
      <4>3. l \in Smaller(m) /\ l \in Smaller(m + 1)
        BY <4>1, <4>2 DEF Smaller
      <4>4. f[l] = g[l]
        BY <2>2, <2>3, <4>3
      <4> QED BY <2>2, <3>2, <4>4 DEF Wraps
    <3> QED BY <3>1, <3>2
  <2>5. WrapsUpTo(f, width, m + 1)
    BY <2>2, <2>4 DEF WrapsUpTo
  <2> QED BY <2>5
<1> HIDE DEF S
<1>3. n \in S
  BY <1>1, <1>2, Induction
<1> QED
  BY <1>3 DEF S

\* They all agree.
LEMMA WrapsAgree ==
  ASSUME NEW width \in Nat \ {0}, NEW m \in Nat, NEW n \in Nat,
         NEW f, WrapsUpTo(f, width, m), NEW g, WrapsUpTo(g, width, n),
         NEW c \in Smaller(m), c \in Smaller(n)
  PROVE  f[c] = g[c]
<1> DEFINE S == {k \in Nat : \A s \in Smaller(m) : s \in Smaller(n) /\ Size(s) < k => f[s] = g[s]}
<1>0. \A s \in Seq(Chunk) : Size(s) \in Nat
  BY TextType DEF Size
<1>1. 0 \in S
  <2>1. \A s \in Smaller(m) : ~(Size(s) < 0)
    BY <1>0 DEF Smaller
  <2> QED BY <2>1
<1>2. ASSUME NEW k \in Nat, k \in S PROVE k + 1 \in S
  <2> SUFFICES ASSUME NEW s \in Smaller(m), s \in Smaller(n), Size(s) < k + 1
               PROVE  f[s] = g[s]
    OBVIOUS
  <2>1. f[s] = Wraps(f, s, width) /\ g[s] = Wraps(g, s, width)
    BY DEF WrapsUpTo
  <2>2. CASE s = <<>>
    BY <2>1, <2>2 DEF Wraps
  <2>3. CASE s # <<>>
    <3> PICK l : l = Left(s, width)
      OBVIOUS
    <3>1. s \in Seq(Chunk) /\ Size(s) < m /\ Size(s) < n
      BY DEF Smaller
    <3>2. l \in Seq(Chunk) /\ Size(l) \in Nat /\ Size(s) \in Nat /\ Size(l) < Size(s)
      BY <2>3, <3>1, LeftIsSmaller
    <3>3. l \in Smaller(m) /\ l \in Smaller(n) /\ Size(l) < k
      BY <3>1, <3>2 DEF Smaller
    <3>4. f[l] = g[l]
      BY <1>2, <3>3
    <3> QED BY <2>1, <2>3, <3>4 DEF Wraps
  <2> QED BY <2>2, <2>3
<1> HIDE DEF S
<1>3. \A k \in Nat : k \in S
  BY <1>1, <1>2, Induction
<1>4. m \in S /\ Size(c) < m
  BY <1>3 DEF Smaller
<1> QED
  BY <1>4 DEF S

\* So there is one for all texts, and Lines is one.
LEMMA LinesWraps ==
  ASSUME NEW width \in Nat \ {0}
  PROVE  WrapsAll(Lines(width), width)
<1> DEFINE g == [c \in Seq(Chunk) |-> (CHOOSE f : WrapsUpTo(f, width, Size(c) + 1))[c]]
<1>0. \A c \in Seq(Chunk) : Size(c) \in Nat
  BY TextType DEF Size
<1>1. ASSUME NEW c \in Seq(Chunk)
      PROVE  \E f : WrapsUpTo(f, width, Size(c) + 1) /\ g[c] = f[c]
  <2>1. \E f : WrapsUpTo(f, width, Size(c) + 1)
    BY <1>0, WrapsExists
  <2>2. WrapsUpTo(CHOOSE f : WrapsUpTo(f, width, Size(c) + 1), width, Size(c) + 1)
    BY <2>1, Zenon
  <2>3. g[c] = (CHOOSE f : WrapsUpTo(f, width, Size(c) + 1))[c]
    BY Zenon
  <2> QED BY <2>2, <2>3, Zenon
<1>2. g = [c \in Seq(Chunk) |-> g[c]]
  OBVIOUS
<1> HIDE DEF g
<1>3. ASSUME NEW c \in Seq(Chunk) PROVE g[c] = Wraps(g, c, width)
  <2>1. PICK f : WrapsUpTo(f, width, Size(c) + 1) /\ g[c] = f[c]
    BY <1>1
  <2>2. c \in Smaller(Size(c) + 1) /\ Size(c) + 1 \in Nat
    BY <1>0 DEF Smaller
  <2>3. f[c] = Wraps(f, c, width)
    BY <2>1, <2>2 DEF WrapsUpTo
  <2>4. CASE c = <<>>
    BY <2>1, <2>3, <2>4 DEF Wraps
  <2>5. CASE c # <<>>
    <3> PICK l : l = Left(c, width)
      OBVIOUS
    <3>1. l \in Seq(Chunk) /\ Size(l) \in Nat /\ Size(c) \in Nat /\ Size(l) < Size(c)
      BY <2>5, LeftIsSmaller
    <3>2. PICK e : WrapsUpTo(e, width, Size(l) + 1) /\ g[l] = e[l]
      BY <1>1, <3>1
    <3>3. l \in Smaller(Size(l) + 1) /\ l \in Smaller(Size(c) + 1) /\ Size(l) + 1 \in Nat
      BY <3>1 DEF Smaller
    <3>4. e[l] = f[l]
      BY <2>1, <2>2, <3>2, <3>3, WrapsAgree
    <3> QED BY <2>1, <2>3, <2>5, <3>2, <3>4 DEF Wraps
  <2> QED BY <2>4, <2>5
<1>4. WrapsAll(g, width)
  BY <1>2, <1>3 DEF WrapsAll
<1>5. \E f : WrapsAll(f, width)
  BY <1>4
<1>6. Lines(width) = CHOOSE f : WrapsAll(f, width)
  BY DEF Lines, WrapsAll, Wraps, Cat, FirstLine, Left
<1> QED
  BY <1>5, <1>6, Zenon

\* The lines of a text hold what fits, and all its letters.
Wrapped(lines, c, width) ==
  /\ lines \in Seq(Seq(Chunk))
  /\ \A i \in DOMAIN lines : Total(lines[i]) <= width
  /\ Letters(FlattenSeq(lines)) = Letters(c)

LEMMA LinesWrapped ==
  ASSUME NEW width \in Nat \ {0}, NEW c \in Seq(Chunk)
  PROVE  Wrapped(Lines(width)[c], c, width)
<1>g. PICK g : g = Lines(width)
  OBVIOUS
<1>0. \A s \in Seq(Chunk) : Size(s) \in Nat
  BY TextType DEF Size
<1>1. \A s \in Seq(Chunk) : g[s] = Wraps(g, s, width)
  BY <1>g, LinesWraps DEF WrapsAll
<1> DEFINE S == {k \in Nat : \A s \in Seq(Chunk) : Size(s) < k => Wrapped(g[s], s, width)}
<1>2. 0 \in S
  BY <1>0
<1>3. ASSUME NEW k \in Nat, k \in S PROVE k + 1 \in S
  <2> SUFFICES ASSUME NEW s \in Seq(Chunk), Size(s) < k + 1 PROVE Wrapped(g[s], s, width)
    OBVIOUS
  <2>1. CASE s = <<>>
    <3>1. g[s] = <<>>
      BY <1>1, <2>1 DEF Wraps
    <3>2. Wrapped(<<>>, <<>>, width)
      BY FlattenEmpty DEF Wrapped
    <3> QED BY <2>1, <3>1, <3>2
  <2>2. CASE s # <<>>
    <3>l. PICK l : l = Left(s, width)
      OBVIOUS
    <3>x. PICK x : x = NextLine(s, width).line
      OBVIOUS
    <3>1. l \in Seq(Chunk) /\ Size(l) \in Nat /\ Size(s) \in Nat /\ Size(l) < Size(s)
      BY <2>2, <3>l, LeftIsSmaller
    <3>2. /\ x \in Seq(Chunk) /\ Total(x) <= width
          /\ Letters(x) + Letters(l) = Letters(s)
      BY <2>2, <3>l, <3>x, NextLineIs DEF Left
    <3>3. Size(l) < k
      BY <3>1
    <3>t. PICK t : t = g[l]
      OBVIOUS
    <3>4. Wrapped(t, l, width)
      BY <1>3, <3>1, <3>3, <3>t
    <3>5. g[s] = Cat(FirstLine(s, width), t)
      BY <1>1, <2>2, <3>l, <3>t DEF Wraps
    <3>6. /\ t \in Seq(Seq(Chunk)) /\ \A i \in DOMAIN t : Total(t[i]) <= width
          /\ Letters(FlattenSeq(t)) = Letters(l)
      BY <3>4 DEF Wrapped
    <3>7. CASE x = <<>>
      <4>1. FirstLine(s, width) = <<>>
        BY <3>x, <3>7 DEF FirstLine
      <4>2. Cat(<<>>, t) = t
        BY <3>6, ConcatEmptySeq DEF Cat
      <4>3. Letters(l) = Letters(s)
        BY <3>1, <3>2, <3>7, LettersEmpty, LettersConcat
      <4> QED BY <3>5, <3>6, <4>1, <4>2, <4>3 DEF Wrapped
    <3>8. CASE x # <<>>
      <4>1. FirstLine(s, width) = <<x>>
        BY <3>x, <3>8 DEF FirstLine
      <4>2. <<x>> \in Seq(Seq(Chunk)) /\ Len(<<x>>) = 1 /\ <<x>>[1] = x
        BY <3>2
      <4>u. PICK u : u = <<x>> \o t
        OBVIOUS
      <4>3. /\ u \in Seq(Seq(Chunk)) /\ Len(u) = 1 + Len(t)
            /\ \A i \in 1 .. 1 + Len(t) : u[i] = IF i <= 1 THEN x ELSE t[i - 1]
        <5>1. /\ u \in Seq(Seq(Chunk)) /\ Len(u) = Len(<<x>>) + Len(t)
              /\ \A i \in 1 .. Len(<<x>>) + Len(t) :
                   u[i] = IF i <= Len(<<x>>) THEN <<x>>[i] ELSE t[i - Len(<<x>>)]
          BY <3>6, <4>2, <4>u, ConcatProperties
        <5> QED BY <4>2, <5>1
      <4>4. ASSUME NEW i \in DOMAIN u PROVE Total(u[i]) <= width
        <5>1. Len(t) \in Nat /\ i \in 1 .. 1 + Len(t)
          BY <3>6, <4>3
        <5>2. CASE i <= 1
          BY <3>2, <4>3, <5>1, <5>2
        <5>3. CASE ~(i <= 1)
          <6>1. i - 1 \in DOMAIN t /\ u[i] = t[i - 1]
            BY <3>6, <4>3, <5>1, <5>3, SMTT(30)
          <6> QED BY <3>6, <6>1
        <5> QED BY <5>2, <5>3
      <4>5. FlattenSeq(u) = Cat(x, FlattenSeq(t))
        <5>1. FlattenSeq(<<x>> \o t) = FlattenSeq(<<x>>) \o FlattenSeq(t)
          BY <3>6, <4>2, FlattenConcat
        <5>2. FlattenSeq(<<x>>) = x
          BY <3>2, FlattenOne
        <5> QED BY <4>u, <5>1, <5>2 DEF Cat
      <4>6. FlattenSeq(t) \in Seq(Chunk)
        BY <3>6, FlattenType
      <4>7. Letters(Cat(x, FlattenSeq(t))) = Letters(x) + Letters(FlattenSeq(t))
        BY <3>2, <4>6, TextCat
      <4>8. g[s] = u
        BY <3>5, <4>1, <4>u DEF Cat
      <4>9. Letters(FlattenSeq(u)) = Letters(s)
        BY <3>2, <3>6, <4>5, <4>7
      <4> QED BY <4>3, <4>4, <4>8, <4>9 DEF Wrapped
    <3> QED BY <3>7, <3>8
  <2> QED BY <2>1, <2>2
<1> HIDE DEF S
<1>4. \A k \in Nat : k \in S
  BY <1>2, <1>3, Induction
<1>5. Size(c) + 1 \in S /\ Size(c) < Size(c) + 1
  BY <1>0, <1>4
<1> QED
  BY <1>g, <1>5 DEF S

\* textwrap.wrap of any text at any width: no letter is lost, and a line with a letter in
\* it fits.
THEOREM WrapIs ==
  ASSUME NEW width \in Nat \ {0}, NEW c \in Seq(Chunk)
  PROVE  LET lines == Wrap(c, width) IN
         /\ lines \in Seq(Seq(Chunk)) /\ Letters(FlattenSeq(lines)) = Letters(c)
         /\ \A i \in DOMAIN lines : Letters(lines[i]) > 0 => Total(lines[i]) <= width
<1>l. PICK lines : lines = Lines(width)[c]
  OBVIOUS
<1>1. /\ lines \in Seq(Seq(Chunk)) /\ Letters(FlattenSeq(lines)) = Letters(c)
      /\ \A i \in DOMAIN lines : Total(lines[i]) <= width
  BY <1>l, LinesWrapped DEF Wrapped
<1>2. CASE lines = <<>>
  <2>1. Wrap(c, width) = <<c>>
    BY <1>l, <1>2 DEF Wrap
  <2>2. Letters(c) = 0
    BY <1>1, <1>2, FlattenEmpty, LettersEmpty
  <2>3. FlattenSeq(<<c>>) = c
    BY FlattenOne
  <2>4. <<c>> \in Seq(Seq(Chunk)) /\ \A i \in DOMAIN <<c>> : <<c>>[i] = c
    OBVIOUS
  <2> QED BY <2>1, <2>2, <2>3, <2>4
<1>3. CASE lines # <<>>
  <2>1. Wrap(c, width) = lines
    BY <1>l, <1>3 DEF Wrap
  <2> QED BY <1>1, <2>1
<1> QED
  BY <1>2, <1>3

-----------------------------------------------------------------------------
(* The printer's algebra: what commands print, from a line that is still empty. *)

Kinds == {"label", "value", "gap", "divider", "indent", "room"}
Values == {"*** PREKLICANO ***", "channel REZERVACIJA", "REZERVACIJA", "PREKLICANO",
           "guest_name", "nights", "per_night", "line_total", "checkin", "checkout", "GOSTI",
           "NOCI", "total", "average", "external_ref", "Printed", "label", "blanks", "-"}
Pieces == [kind : Kinds, what : DOMAIN LabelLen \cup Values, len : Nat, n : Int, letters : Alphabets]
Encodings == [has : SUBSET Alphabets, fits : SUBSET Alphabets]
Aligns == {"left", "center"}
Args == Seq(Pieces) \cup Int \cup BOOLEAN \cup Aligns \cup Encodings
Cmds == [op : {"init", "font", "size", "align", "bold", "text", "newline", "cut"}, arg : Args]
Mark(size, align, bold) == [size |-> size, align |-> align, bold |-> bold]
Printed(line, marks) == [line |-> line, marks |-> marks]
PrintedLines == [line : Seq(Pieces), marks : SUBSET [size : Int, align : Aligns, bold : BOOLEAN]]

Printer(size, align, bold, marks, line, paper) ==
  [size |-> size, align |-> align, bold |-> bold, marks |-> marks, line |-> line, paper |-> paper]
Ready(size, align, paper) == Printer(size, align, FALSE, {}, <<>>, paper)

\* One command.
LEMMA DoesText ==
  ASSUME NEW s, NEW a, NEW b, NEW m, NEW l, NEW pp, NEW x
  PROVE  Run(Printer(s, a, b, m, l, pp), Cmd("text", x))
           = Printer(s, a, b, m \cup {Mark(s, a, b)}, Cat(l, x), pp)
<1>1. Does(Printer(s, a, b, m, l, pp), [op |-> "text", arg |-> x])
        = Printer(s, a, b, m \cup {Mark(s, a, b)}, Cat(l, x), pp)
  BY DEF Does, Printer, Marks, Mark, Cat
<1> QED BY <1>1, RunOne

LEMMA DoesNewline ==
  ASSUME NEW s, NEW a, NEW b, NEW m, NEW l, NEW pp, NEW x
  PROVE  Run(Printer(s, a, b, m, l, pp), Cmd("newline", x))
           = Printer(s, a, b, {}, <<>>, Append(pp, Printed(l, m)))
<1>1. Does(Printer(s, a, b, m, l, pp), [op |-> "newline", arg |-> x])
        = Printer(s, a, b, {}, <<>>, Append(pp, Printed(l, m)))
  BY DEF Does, Printer, Printed
<1> QED BY <1>1, RunOne

LEMMA DoesBold ==
  ASSUME NEW s, NEW a, NEW b, NEW m, NEW l, NEW pp, NEW x
  PROVE  Run(Printer(s, a, b, m, l, pp), Cmd("bold", x)) = Printer(s, a, x, m, l, pp)
<1>1. Does(Printer(s, a, b, m, l, pp), [op |-> "bold", arg |-> x]) = Printer(s, a, x, m, l, pp)
  BY DEF Does, Printer
<1> QED BY <1>1, RunOne

\* The commands of the receipt.
LEMMA CmdType ==
  ASSUME NEW x \in Args
  PROVE  \A op \in {"init", "font", "size", "align", "bold", "text", "newline", "cut"} :
           Cmd(op, x) \in Seq(Cmds)
<1>1. ASSUME NEW op \in {"init", "font", "size", "align", "bold", "text", "newline", "cut"}
      PROVE  Cmd(op, x) \in Seq(Cmds)
  <2>1. [op |-> op, arg |-> x] \in Cmds
    BY DEF Cmds
  <2> QED BY <2>1 DEF Cmd
<1> QED
  BY <1>1

LEMMA CmdTypes ==
  /\ \A x \in Int : Cmd("size", x) \in Seq(Cmds) /\ Cmd("newline", x) \in Seq(Cmds)
  /\ \A x \in Aligns : Cmd("align", x) \in Seq(Cmds)
  /\ \A x \in BOOLEAN : Cmd("bold", x) \in Seq(Cmds)
  /\ \A x \in Seq(Pieces) : Cmd("text", x) \in Seq(Cmds)
  /\ \A op \in {"init", "font", "cut"} : \A x \in Int \cup Encodings : Cmd(op, x) \in Seq(Cmds)
<1>1. \A x \in Args : /\ Cmd("size", x) \in Seq(Cmds) /\ Cmd("newline", x) \in Seq(Cmds)
                      /\ Cmd("align", x) \in Seq(Cmds) /\ Cmd("bold", x) \in Seq(Cmds)
                      /\ Cmd("text", x) \in Seq(Cmds) /\ Cmd("init", x) \in Seq(Cmds)
                      /\ Cmd("font", x) \in Seq(Cmds) /\ Cmd("cut", x) \in Seq(Cmds)
  BY CmdType
<1>2. /\ \A x \in Int : x \in Args
      /\ \A x \in Aligns : x \in Args
      /\ \A x \in BOOLEAN : x \in Args
      /\ \A x \in Seq(Pieces) : x \in Args
      /\ \A x \in Int \cup Encodings : x \in Args
  BY Zenon DEF Args
<1>3. ASSUME NEW op \in {"init", "font", "cut"}, NEW x \in Int \cup Encodings
      PROVE  Cmd(op, x) \in Seq(Cmds)
  <2>1. x \in Args
    BY <1>2
  <2> QED BY <2>1, CmdType
<1> QED
  BY <1>1, <1>2, <1>3, Zenon

\* A size and an alignment.
Layout(s, a) == s \in Int /\ a \in Aligns

\* Commands that print new lines, whatever is on the paper, and leave the line empty.
Prints(cmds, s1, a1, s2, a2, new) ==
  /\ cmds \in Seq(Cmds) /\ new \in Seq(PrintedLines)
  /\ \A pp \in Seq(PrintedLines) : Run(Ready(s1, a1, pp), cmds) = Ready(s2, a2, Cat(pp, new))

LEMMA PrintsConcat ==
  ASSUME NEW c, NEW d, NEW s1, NEW a1, NEW s2, NEW a2, NEW s3, NEW a3, NEW x, NEW y,
         Prints(c, s1, a1, s2, a2, x), Prints(d, s2, a2, s3, a3, y)
  PROVE  Prints(Cat(c, d), s1, a1, s3, a3, Cat(x, y))
<1>1. c \in Seq(Cmds) /\ d \in Seq(Cmds) /\ x \in Seq(PrintedLines) /\ y \in Seq(PrintedLines)
  BY DEF Prints
<1>2. Cat(c, d) \in Seq(Cmds) /\ Cat(x, y) \in Seq(PrintedLines)
  BY <1>1, CatType
<1>3. ASSUME NEW pp \in Seq(PrintedLines)
      PROVE  Run(Ready(s1, a1, pp), Cat(c, d)) = Ready(s3, a3, Cat(pp, Cat(x, y)))
  <2>1. Run(Ready(s1, a1, pp), Cat(c, d)) = Run(Run(Ready(s1, a1, pp), c), d)
    BY <1>1, RunConcat DEF Cat
  <2>2. Run(Ready(s1, a1, pp), c) = Ready(s2, a2, Cat(pp, x))
    BY DEF Prints
  <2>3. Cat(pp, x) \in Seq(PrintedLines)
    BY <1>1, CatType
  <2>4. Run(Ready(s2, a2, Cat(pp, x)), d) = Ready(s3, a3, Cat(Cat(pp, x), y))
    BY <2>3 DEF Prints
  <2>5. Cat(Cat(pp, x), y) = Cat(pp, Cat(x, y))
    BY <1>1, CatAssoc
  <2> QED BY <2>1, <2>2, <2>4, <2>5
<1> QED
  BY <1>2, <1>3 DEF Prints

\* Nothing, a size, an alignment, and what moves nothing.
LEMMA CatEmpty == \A T : \A s \in Seq(T) : Cat(s, <<>>) = s /\ Cat(<<>>, s) = s
BY ConcatEmptySeq DEF Cat

LEMMA PrintsSilently ==
  ASSUME NEW c \in Seq(Cmds), NEW s1, NEW a1, NEW s2, NEW a2,
         \A pp : Run(Ready(s1, a1, pp), c) = Ready(s2, a2, pp)
  PROVE  Prints(c, s1, a1, s2, a2, <<>>)
<1>1. <<>> \in Seq(PrintedLines)
  OBVIOUS
<1>2. \A pp \in Seq(PrintedLines) : Cat(pp, <<>>) = pp
  BY CatEmpty
<1> QED
  BY <1>1, <1>2 DEF Prints

LEMMA PrintsNothing ==
  ASSUME NEW s, NEW a
  PROVE  Prints(<<>>, s, a, s, a, <<>>)
<1>1. <<>> \in Seq(Cmds)
  OBVIOUS
<1>2. \A pp : Run(Ready(s, a, pp), <<>>) = Ready(s, a, pp)
  BY RunEmpty
<1> QED
  BY <1>1, <1>2, PrintsSilently

LEMMA PrintsSize ==
  ASSUME NEW s, NEW a, NEW x \in Int
  PROVE  Prints(Cmd("size", x), s, a, x, a, <<>>)
<1>1. Cmd("size", x) \in Seq(Cmds)
  BY CmdTypes
<1>2. \A pp : Does(Ready(s, a, pp), [op |-> "size", arg |-> x]) = Ready(x, a, pp)
  BY DEF Does, Ready, Printer
<1>3. \A pp : Run(Ready(s, a, pp), Cmd("size", x)) = Ready(x, a, pp)
  BY <1>2, RunOne
<1> QED
  BY <1>1, <1>3, PrintsSilently

LEMMA PrintsAlign ==
  ASSUME NEW s, NEW a, NEW x \in Aligns
  PROVE  Prints(Cmd("align", x), s, a, s, x, <<>>)
<1>1. Cmd("align", x) \in Seq(Cmds)
  BY CmdTypes
<1>2. \A pp : Does(Ready(s, a, pp), [op |-> "align", arg |-> x]) = Ready(s, x, pp)
  BY DEF Does, Ready, Printer
<1>3. \A pp : Run(Ready(s, a, pp), Cmd("align", x)) = Ready(s, x, pp)
  BY <1>2, RunOne
<1> QED
  BY <1>1, <1>3, PrintsSilently

LEMMA PrintsIdle ==
  ASSUME NEW s, NEW a, NEW op \in {"init", "font", "cut"}, NEW x \in Int \cup Encodings
  PROVE  Prints(Cmd(op, x), s, a, s, a, <<>>)
<1>1. Cmd(op, x) \in Seq(Cmds)
  BY CmdTypes
<1>2. \A pp : Does(Ready(s, a, pp), [op |-> op, arg |-> x]) = Ready(s, a, pp)
  BY DEF Does, Ready, Printer
<1>3. \A pp : Run(Ready(s, a, pp), Cmd(op, x)) = Ready(s, a, pp)
  BY <1>2, RunOne
<1> QED
  BY <1>1, <1>3, PrintsSilently

\* One line.
LEMMA PrintedType ==
  ASSUME NEW l \in Seq(Pieces), NEW m \in SUBSET [size : Int, align : Aligns, bold : BOOLEAN],
         NEW x, x = Printed(l, m)
  PROVE  /\ <<x>> \in Seq(PrintedLines) /\ x \in PrintedLines
         /\ \A pp \in Seq(PrintedLines) : Append(pp, x) = Cat(pp, <<x>>)
<1>1. x \in PrintedLines
  BY DEF Printed, PrintedLines
<1>2. \A pp \in Seq(PrintedLines) : Append(pp, x) = Cat(pp, <<x>>)
  BY <1>1 DEF Cat
<1> QED
  BY <1>1, <1>2, SMTT(40)

LEMMA LineType ==
  ASSUME NEW l \in Seq(Pieces)
  PROVE  /\ Cmd("text", l) \in Seq(Cmds) /\ Cmd("newline", 1) \in Seq(Cmds)
         /\ Line(l) \in Seq(Cmds) /\ Line(l) = Cat(Cmd("text", l), Cmd("newline", 1))
<1>1. Cmd("text", l) \in Seq(Cmds) /\ Cmd("newline", 1) \in Seq(Cmds)
  BY CmdTypes
<1>2. Line(l) = Cat(Cmd("text", l), Cmd("newline", 1))
  BY DEF Line, Cat
<1> QED
  BY <1>1, <1>2, CatType

LEMMA RunCat ==
  ASSUME NEW s \in Seq(Cmds), NEW t \in Seq(Cmds), NEW p
  PROVE  Run(p, Cat(s, t)) = Run(Run(p, s), t)
BY RunConcat DEF Cat

\* A line typed on top of what is in the line already.
LEMMA RunLine ==
  ASSUME NEW s, NEW a, NEW b, NEW m, NEW k, NEW pp, NEW l \in Seq(Pieces),
         NEW p, p = Printer(s, a, b, m, k, pp),
         NEW x, x = Printed(Cat(k, l), m \cup {Mark(s, a, b)})
  PROVE  Run(p, Line(l)) = Printer(s, a, b, {}, <<>>, Append(pp, x))
<1>0. Line(l) = Cat(Cmd("text", l), Cmd("newline", 1))
  BY LineType
<1>1. Run(p, Line(l)) = Run(Run(p, Cmd("text", l)), Cmd("newline", 1))
  BY <1>0, LineType, RunCat
<1>2. Run(p, Cmd("text", l)) = Printer(s, a, b, m \cup {Mark(s, a, b)}, Cat(k, l), pp)
  BY DoesText
<1> QED
  BY <1>1, <1>2, DoesNewline

LEMMA PrintsLine ==
  ASSUME NEW s, NEW a, Layout(s, a), NEW l \in Seq(Pieces)
  PROVE  Prints(Line(l), s, a, s, a, <<Printed(l, {Mark(s, a, FALSE)})>>)
<1>b. PICK b : b = FALSE
  OBVIOUS
<1>e. PICK e, o : e = <<>> /\ o = {}
  OBVIOUS
<1>x. PICK x : x = Printed(l, {Mark(s, a, b)})
  OBVIOUS
<1>1. <<x>> \in Seq(PrintedLines) /\ \A pp \in Seq(PrintedLines) : Append(pp, x) = Cat(pp, <<x>>)
  <2>1. Mark(s, a, b) \in [size : Int, align : Aligns, bold : BOOLEAN]
    BY <1>b DEF Mark, Layout
  <2>2. {Mark(s, a, b)} \in SUBSET [size : Int, align : Aligns, bold : BOOLEAN]
    BY <2>1
  <2> QED BY <1>x, <2>2, PrintedType
<1>2. Cat(e, l) = l /\ o \cup {Mark(s, a, b)} = {Mark(s, a, b)}
  BY <1>e, CatEmpty
<1>3. \A pp : Ready(s, a, pp) = Printer(s, a, b, o, e, pp)
  BY <1>b, <1>e DEF Ready
<1>4. ASSUME NEW pp \in Seq(PrintedLines)
      PROVE  Run(Ready(s, a, pp), Line(l)) = Ready(s, a, Cat(pp, <<x>>))
  <2>p. PICK p : p = Ready(s, a, pp)
    OBVIOUS
  <2>1. p = Printer(s, a, b, o, e, pp)
    BY <1>3, <2>p
  <2>2. x = Printed(Cat(e, l), o \cup {Mark(s, a, b)})
    BY <1>x, <1>2
  <2>3. Run(p, Line(l)) = Printer(s, a, b, {}, <<>>, Append(pp, x))
    BY <2>1, <2>2, RunLine
  <2>4. Printer(s, a, b, {}, <<>>, Append(pp, x)) = Ready(s, a, Append(pp, x))
    BY <1>b DEF Ready
  <2>5. Append(pp, x) = Cat(pp, <<x>>)
    BY <1>1
  <2> QED BY <2>p, <2>3, <2>4, <2>5
<1> QED
  BY <1>b, <1>x, <1>1, <1>4, LineType DEF Prints

\* A line in bold.
LEMMA PrintsBold ==
  ASSUME NEW s, NEW a, Layout(s, a), NEW l \in Seq(Pieces)
  PROVE  Prints(BoldLine(l), s, a, s, a, <<Printed(l, {Mark(s, a, TRUE)})>>)
<1>b. PICK b, t : b = FALSE /\ t = TRUE
  OBVIOUS
<1>e. PICK e, o : e = <<>> /\ o = {}
  OBVIOUS
<1>x. PICK x : x = Printed(l, {Mark(s, a, t)})
  OBVIOUS
<1>c. PICK on, off : on = Cmd("bold", TRUE) /\ off = Cmd("bold", FALSE)
  OBVIOUS
<1>1. <<x>> \in Seq(PrintedLines) /\ \A pp \in Seq(PrintedLines) : Append(pp, x) = Cat(pp, <<x>>)
  <2>1. Mark(s, a, t) \in [size : Int, align : Aligns, bold : BOOLEAN]
    BY <1>b DEF Mark, Layout
  <2>2. {Mark(s, a, t)} \in SUBSET [size : Int, align : Aligns, bold : BOOLEAN]
    BY <2>1
  <2> QED BY <1>x, <2>2, PrintedType
<1>2. Cat(e, l) = l /\ o \cup {Mark(s, a, t)} = {Mark(s, a, t)}
  BY <1>e, CatEmpty
<1>3. \A pp : Ready(s, a, pp) = Printer(s, a, b, o, e, pp)
  BY <1>b, <1>e DEF Ready
<1>d. on = Cmd("bold", t) /\ off = Cmd("bold", b)
  BY <1>b, <1>c, Zenon
<1>4. on \in Seq(Cmds) /\ off \in Seq(Cmds)
  BY <1>c, CmdTypes
<1>5. BoldLine(l) = Cat(Cat(on, Line(l)), off) /\ BoldLine(l) \in Seq(Cmds)
  <2>1. BoldLine(l) = Cat(Cat(on, Line(l)), off)
    BY <1>c DEF BoldLine, Cat
  <2> QED BY <1>4, <2>1, LineType, CatType
<1>6. ASSUME NEW pp \in Seq(PrintedLines)
      PROVE  Run(Ready(s, a, pp), BoldLine(l)) = Ready(s, a, Cat(pp, <<x>>))
  <2>p. PICK p, q : p = Ready(s, a, pp) /\ q = Printer(s, a, t, o, e, pp)
    OBVIOUS
  <2>1. p = Printer(s, a, b, o, e, pp)
    BY <1>3, <2>p
  <2>2. Run(p, on) = q
    BY <1>d, <2>p, <2>1, DoesBold
  <2>3. x = Printed(Cat(e, l), o \cup {Mark(s, a, t)})
    BY <1>x, <1>2
  <2>4. Run(q, Line(l)) = Printer(s, a, t, {}, <<>>, Append(pp, x))
    BY <2>p, <2>3, RunLine
  <2>5. Run(Run(q, Line(l)), off) = Printer(s, a, b, {}, <<>>, Append(pp, x))
    BY <1>d, <2>4, DoesBold
  <2>6. Printer(s, a, b, {}, <<>>, Append(pp, x)) = Ready(s, a, Append(pp, x))
    BY <1>b DEF Ready
  <2>7. Append(pp, x) = Cat(pp, <<x>>)
    BY <1>1
  <2>8. Run(p, BoldLine(l)) = Run(Run(Run(p, on), Line(l)), off)
    <3>1. Cat(on, Line(l)) \in Seq(Cmds)
      BY <1>4, LineType, CatType
    <3>2. Run(p, BoldLine(l)) = Run(Run(p, Cat(on, Line(l))), off)
      BY <1>4, <1>5, <3>1, RunCat
    <3>3. Run(p, Cat(on, Line(l))) = Run(Run(p, on), Line(l))
      BY <1>4, LineType, RunCat
    <3> QED BY <3>2, <3>3
  <2> QED BY <2>p, <2>2, <2>5, <2>6, <2>7, <2>8
<1> QED
  BY <1>b, <1>x, <1>1, <1>5, <1>6 DEF Prints

\* A label in bold, and the rest of its line.
LEMMA PrintsLabel ==
  ASSUME NEW s, NEW a, Layout(s, a), NEW k \in Seq(Pieces), NEW l \in Seq(Pieces), NEW c,
         c = Cat(Cat(Cat(Cmd("bold", TRUE), Cmd("text", k)), Cmd("bold", FALSE)), Line(l))
  PROVE  Prints(c, s, a, s, a, <<Printed(Cat(k, l), {Mark(s, a, TRUE), Mark(s, a, FALSE)})>>)
<1>b. PICK b, t : b = FALSE /\ t = TRUE
  OBVIOUS
<1>e. PICK e, o : e = <<>> /\ o = {}
  OBVIOUS
<1>m. PICK m : m = {Mark(s, a, t), Mark(s, a, b)}
  OBVIOUS
<1>x. PICK x : x = Printed(Cat(k, l), m)
  OBVIOUS
<1>c. PICK on, off, txt : on = Cmd("bold", TRUE) /\ off = Cmd("bold", FALSE) /\ txt = Cmd("text", k)
  OBVIOUS
<1>1. <<x>> \in Seq(PrintedLines) /\ \A pp \in Seq(PrintedLines) : Append(pp, x) = Cat(pp, <<x>>)
  <2>1. /\ Mark(s, a, t) \in [size : Int, align : Aligns, bold : BOOLEAN]
        /\ Mark(s, a, b) \in [size : Int, align : Aligns, bold : BOOLEAN]
    BY <1>b DEF Mark, Layout
  <2>2. m \in SUBSET [size : Int, align : Aligns, bold : BOOLEAN]
    BY <1>m, <2>1
  <2>3. Cat(k, l) \in Seq(Pieces)
    BY CatType
  <2> QED BY <1>x, <2>2, <2>3, PrintedType
<1>2. Cat(e, k) = k /\ m = (o \cup {Mark(s, a, t)}) \cup {Mark(s, a, b)}
  <2>1. Cat(e, k) = k
    BY <1>e, CatEmpty
  <2>2. m = (o \cup {Mark(s, a, t)}) \cup {Mark(s, a, b)}
    BY <1>e, <1>m
  <2> QED BY <2>1, <2>2
<1>3. \A pp : Ready(s, a, pp) = Printer(s, a, b, o, e, pp)
  BY <1>b, <1>e DEF Ready
<1>d. on = Cmd("bold", t) /\ off = Cmd("bold", b)
  BY <1>b, <1>c, Zenon
<1>4. on \in Seq(Cmds) /\ off \in Seq(Cmds) /\ txt \in Seq(Cmds) /\ Line(l) \in Seq(Cmds)
  BY <1>c, CmdTypes, LineType
<1>5. /\ c = Cat(Cat(Cat(on, txt), off), Line(l))
      /\ Cat(on, txt) \in Seq(Cmds) /\ Cat(Cat(on, txt), off) \in Seq(Cmds) /\ c \in Seq(Cmds)
  BY <1>c, <1>4, CatType
<1>6. ASSUME NEW pp \in Seq(PrintedLines)
      PROVE  Run(Ready(s, a, pp), c) = Ready(s, a, Cat(pp, <<x>>))
  <2>p. PICK p, q : p = Ready(s, a, pp) /\ q = Printer(s, a, b, o \cup {Mark(s, a, t)}, k, pp)
    OBVIOUS
  <2>1. p = Printer(s, a, b, o, e, pp)
    BY <1>3, <2>p
  <2>2. Run(p, on) = Printer(s, a, t, o, e, pp)
    BY <1>d, <2>1, DoesBold
  <2>3. Run(Run(p, on), txt) = Printer(s, a, t, o \cup {Mark(s, a, t)}, k, pp)
    <3>r. PICK r, u : r = Run(p, on) /\ u = o \cup {Mark(s, a, t)}
      OBVIOUS
    <3>1. Run(r, Cmd("text", k)) = Printer(s, a, t, u, Cat(e, k), pp)
      BY <2>2, <3>r, DoesText
    <3> QED BY <1>c, <1>2, <3>r, <3>1, Zenon
  <2>4. Run(Run(Run(p, on), txt), off) = q
    BY <1>d, <2>p, <2>3, DoesBold
  <2>5. x = Printed(Cat(k, l), (o \cup {Mark(s, a, t)}) \cup {Mark(s, a, b)})
    BY <1>x, <1>2
  <2>6. Run(q, Line(l)) = Printer(s, a, b, {}, <<>>, Append(pp, x))
    BY <2>p, <2>5, RunLine
  <2>7. Printer(s, a, b, {}, <<>>, Append(pp, x)) = Ready(s, a, Append(pp, x))
    BY <1>b DEF Ready
  <2>8. Append(pp, x) = Cat(pp, <<x>>)
    BY <1>1
  <2>9. Run(p, c) = Run(Run(Run(Run(p, on), txt), off), Line(l))
    <3>y. PICK y : y = Cat(Cat(on, txt), off)
      OBVIOUS
    <3>z. y \in Seq(Cmds) /\ c = Cat(y, Line(l))
      BY <1>5, <3>y
    <3>1. Run(p, c) = Run(Run(p, y), Line(l))
      <4>1. Run(p, Cat(y, Line(l))) = Run(Run(p, y), Line(l))
        BY <1>4, <3>z, RunCat, Zenon
      <4> QED BY <3>z, <4>1, Zenon
    <3>2. Run(p, Cat(Cat(on, txt), off)) = Run(Run(p, Cat(on, txt)), off)
      BY <1>4, <1>5, RunCat
    <3>3. Run(p, Cat(on, txt)) = Run(Run(p, on), txt)
      BY <1>4, RunCat
    <3> QED BY <3>1, <3>2, <3>3, <3>y
  <2> QED BY <2>p, <2>4, <2>6, <2>7, <2>8, <2>9
<1> QED
  BY <1>b, <1>m, <1>x, <1>1, <1>5, <1>6 DEF Prints

-----------------------------------------------------------------------------
(* What lines say. *)

\* A sequence that begins with one and goes on with another is the two of them.
IsJoin(u, a, b) ==
  /\ Len(u) = Len(a) + Len(b)
  /\ \A i \in 1 .. Len(a) : u[i] = a[i]
  /\ \A i \in 1 .. Len(b) : u[Len(a) + i] = b[i]

LEMMA IsCat ==
  ASSUME NEW T, NEW a \in Seq(T), NEW b \in Seq(T), NEW c \in Seq(T), IsJoin(c, a, b)
  PROVE  c = Cat(a, b)
<1>d. PICK d : d = a \o b
  OBVIOUS
<1>n. PICK m \in Nat, n \in Nat : m = Len(a) /\ n = Len(b)
  OBVIOUS
<1>0. Len(c) = m + n /\ (\A i \in 1 .. m : c[i] = a[i]) /\ \A i \in 1 .. n : c[m + i] = b[i]
  BY <1>n DEF IsJoin
<1>1. d \in Seq(T) /\ Len(d) = m + n
      /\ \A i \in 1 .. m + n : d[i] = IF i <= m THEN a[i] ELSE b[i - m]
  BY <1>d, <1>n, ConcatProperties
<1>2. ASSUME NEW i \in 1 .. m + n PROVE c[i] = d[i]
  <2>1. CASE i <= m
    BY <1>0, <1>1, <2>1
  <2>2. CASE ~(i <= m)
    <3>1. i - m \in 1 .. n /\ m + (i - m) = i
      BY <2>2
    <3> QED BY <1>0, <1>1, <2>2, <3>1
  <2> QED BY <2>1, <2>2
<1>3. c = d
  BY <1>0, <1>1, <1>2, SeqEqual
<1> QED
  BY <1>d, <1>3 DEF Cat

LEMMA CatIs ==
  ASSUME NEW T, NEW a \in Seq(T), NEW b \in Seq(T)
  PROVE  Cat(a, b) \in Seq(T) /\ IsJoin(Cat(a, b), a, b)
<1>d. PICK d : d = a \o b
  OBVIOUS
<1>n. PICK m \in Nat, n \in Nat : m = Len(a) /\ n = Len(b)
  OBVIOUS
<1>1. d \in Seq(T) /\ Len(d) = m + n
      /\ \A i \in 1 .. m + n : d[i] = IF i <= m THEN a[i] ELSE b[i - m]
  BY <1>d, <1>n, ConcatProperties
<1>3. ASSUME NEW i \in 1 .. m PROVE d[i] = a[i]
  BY <1>1
<1>4. ASSUME NEW i \in 1 .. n PROVE d[m + i] = b[i]
  <2>1. m + i \in 1 .. m + n /\ ~(m + i <= m) /\ (m + i) - m = i
    OBVIOUS
  <2> QED BY <1>1, <2>1
<1>5. IsJoin(d, a, b)
  BY <1>1, <1>3, <1>4, <1>n DEF IsJoin
<1> QED
  BY <1>d, <1>1, <1>5 DEF Cat

\* An element of two sequences is one of either.
LEMMA InCat ==
  ASSUME NEW T, NEW a \in Seq(T), NEW b \in Seq(T), NEW i \in DOMAIN Cat(a, b)
  PROVE  \/ i \in DOMAIN a /\ Cat(a, b)[i] = a[i]
         \/ i - Len(a) \in DOMAIN b /\ Cat(a, b)[i] = b[i - Len(a)]
<1>u. PICK u : u = Cat(a, b)
  OBVIOUS
<1>n. PICK m \in Nat, n \in Nat : m = Len(a) /\ n = Len(b)
  OBVIOUS
<1>0. u \in Seq(T) /\ IsJoin(u, a, b)
  BY <1>u, CatIs
<1>1. /\ Len(u) = m + n
      /\ \A k \in 1 .. m : u[k] = a[k]
      /\ \A k \in 1 .. n : u[m + k] = b[k]
  BY <1>0, <1>n DEF IsJoin
<1>2. i \in 1 .. m + n
  BY <1>0, <1>1, <1>u
<1>3. CASE i \in 1 .. m
  BY <1>1, <1>3, <1>n, <1>u
<1>4. CASE i \notin 1 .. m
  <2>1. i - m \in 1 .. n /\ m + (i - m) = i
    BY <1>2, <1>4
  <2>2. u[m + (i - m)] = b[i - m]
    BY <1>1, <2>1
  <2>3. i - m \in DOMAIN b
    BY <2>1, <1>n
  <2> QED BY <2>1, <2>2, <2>3, <1>n, <1>u
<1> QED
  BY <1>3, <1>4

\* The two halves of an element-by-element image.
IsImage(a, s, f) == Len(a) = Len(s) /\ \A i \in 1 .. Len(s) : a[i] = f[s[i]]

LEMMA ImageCat ==
  ASSUME NEW T, NEW U, NEW s \in Seq(T), NEW t \in Seq(T), NEW u, u = Cat(s, t),
         NEW a \in Seq(U), NEW b \in Seq(U), NEW c \in Seq(U), NEW f,
         IsImage(a, s, f), IsImage(b, t, f), IsImage(c, u, f)
  PROVE  c = Cat(a, b)
<1>n. PICK m \in Nat, n \in Nat : m = Len(s) /\ n = Len(t)
  OBVIOUS
<1>0. u \in Seq(T) /\ IsJoin(u, s, t)
  BY CatIs
<1>1. /\ Len(u) = m + n
      /\ \A k \in 1 .. m : u[k] = s[k]
      /\ \A k \in 1 .. n : u[m + k] = t[k]
  BY <1>0, <1>n DEF IsJoin
<1>i. /\ Len(a) = m /\ Len(b) = n /\ Len(c) = m + n
      /\ \A i \in 1 .. m : a[i] = f[s[i]]
      /\ \A i \in 1 .. n : b[i] = f[t[i]]
      /\ \A i \in 1 .. m + n : c[i] = f[u[i]]
  BY <1>1, <1>n DEF IsImage
<1>2. ASSUME NEW k \in 1 .. m PROVE c[k] = a[k]
  <2>1. k \in 1 .. m + n
    OBVIOUS
  <2>2. c[k] = f[u[k]] /\ a[k] = f[s[k]] /\ u[k] = s[k]
    BY <1>1, <1>i, <2>1
  <2> QED BY <2>2
<1>3. ASSUME NEW k \in 1 .. n PROVE c[m + k] = b[k]
  <2>1. m + k \in 1 .. m + n
    OBVIOUS
  <2>2. c[m + k] = f[u[m + k]] /\ b[k] = f[t[k]] /\ u[m + k] = t[k]
    BY <1>1, <1>i, <2>1
  <2> QED BY <2>2
<1>4. IsJoin(c, a, b)
  BY <1>i, <1>2, <1>3 DEF IsJoin
<1> QED
  BY <1>4, IsCat

\* A piece of a known kind.
LEMMA PieceType ==
  ASSUME NEW kind \in Kinds, NEW what \in DOMAIN LabelLen \cup Values, NEW len \in Nat, NEW n \in Int
  PROVE  Piece(kind, what, len, n) \in Pieces
BY ReceiptAssumption DEF Piece, Pieces

LEMMA Written ==
  /\ "ascii" \in Alphabets /\ "slovene" \in Alphabets /\ "dash" \in Alphabets
  /\ "look-alikes" \in Alphabets /\ "?" \in Alphabets
BY ReceiptAssumption

\* Other letters change nothing else.
LEMMA InIs ==
  ASSUME NEW p \in Pieces, NEW letters \in Alphabets, NEW q, q = In(letters, p)
  PROVE  /\ q \in Pieces /\ q.kind = p.kind /\ q.what = p.what /\ q.len = p.len /\ q.n = p.n
         /\ q.letters = letters
BY DEF In, Pieces

LEMMA GapType == \A len \in Nat : Gap(len) \in Pieces
<1>1. "gap" \in Kinds
  BY DEF Kinds
<1>2. "blanks" \in DOMAIN LabelLen \cup Values
  BY DEF Values
<1>3. 0 \in Int
  OBVIOUS
<1> QED
  BY <1>1, <1>2, <1>3, PieceType DEF Gap

LEMMA SaysType ==
  ASSUME NEW l \in Seq(Pieces)
  PROVE  Says(l) \in Seq(Pieces)
<1>1. Gap(1) \in Pieces
  <2>1. 1 \in Nat
    OBVIOUS
  <2> QED BY <2>1, GapType
<1>2. \A k \in DOMAIN l : (IF l[k].kind = "gap" THEN Gap(1) ELSE l[k]) \in Pieces
  BY <1>1
<1>n. PICK n \in Nat : n = Len(l) /\ DOMAIN l = 1 .. n
  OBVIOUS
<1>3. Says(l) \in [1 .. n -> Pieces]
  BY <1>2, <1>n DEF Says
<1> QED
  BY <1>3

\* What one line adds to the content.
Heard(line) == IF Silent(line) \/ line = TimeOfPrinting THEN <<>> ELSE <<Says(line)>>
Hearing(lines) == [i \in 1 .. Len(lines) |-> Heard(lines[i])]

LEMMA HearingType ==
  ASSUME NEW s \in Seq(Seq(Pieces))
  PROVE  Hearing(s) \in Seq(Seq(Seq(Pieces))) /\ Len(Hearing(s)) = Len(s)
<1>1. \A l \in Seq(Pieces) : Heard(l) \in Seq(Seq(Pieces))
  <2>1. ASSUME NEW l \in Seq(Pieces) PROVE Heard(l) \in Seq(Seq(Pieces))
    <3>1. <<>> \in Seq(Seq(Pieces)) /\ <<Says(l)>> \in Seq(Seq(Pieces))
      BY SaysType
    <3> QED BY <3>1 DEF Heard
  <2> QED BY <2>1
<1>n. PICK n \in Nat : n = Len(s)
  OBVIOUS
<1>2. \A i \in 1 .. n : s[i] \in Seq(Pieces)
  BY <1>n
<1>h. PICK h, T : h = Hearing(s) /\ T = Seq(Seq(Pieces))
  OBVIOUS
<1>3. h \in [1 .. n -> T]
  BY <1>1, <1>2, <1>n, <1>h DEF Hearing
<1>4. h \in Seq(T) /\ Len(h) = n
  BY <1>3
<1> QED
  BY <1>4, <1>n, <1>h

LEMMA ContentIs ==
  ASSUME NEW s \in Seq(Seq(Pieces))
  PROVE  Content(s) = FlattenSeq(Hearing(s)) /\ Content(s) \in Seq(Seq(Pieces))
<1>1. Content(s) = FlattenSeq(Hearing(s))
  BY DEF Content, Hearing, Heard
<1> QED
  BY <1>1, HearingType, FlattenType

LEMMA ContentEmpty == Content(<<>>) = <<>>
<1>1. <<>> \in Seq(Seq(Pieces)) /\ Len(<<>>) = 0
  OBVIOUS
<1>2. Hearing(<<>>) = <<>>
  <2>1. Hearing(<<>>) \in Seq(Seq(Seq(Pieces))) /\ Len(Hearing(<<>>)) = 0
    BY <1>1, HearingType
  <2> QED BY <2>1, EmptySeq
<1> QED
  BY <1>1, <1>2, ContentIs, FlattenEmpty

LEMMA ContentOne ==
  ASSUME NEW l \in Seq(Pieces)
  PROVE  Content(<<l>>) = Heard(l)
<1>1. <<l>> \in Seq(Seq(Pieces)) /\ Len(<<l>>) = 1 /\ <<l>>[1] = l
  OBVIOUS
<1>2. Hearing(<<l>>) = <<Heard(l)>>
  <2>h. PICK h : h = Hearing(<<l>>)
    OBVIOUS
  <2>1. h \in Seq(Seq(Seq(Pieces))) /\ Len(h) = 1
    BY <1>1, <2>h, HearingType
  <2>2. h[1] = Heard(l)
    BY <1>1, <2>h DEF Hearing
  <2>3. h = <<h[1]>>
    BY <2>1
  <2> QED BY <2>h, <2>2, <2>3
<1>3. Heard(l) \in Seq(Seq(Pieces))
  <2>1. <<>> \in Seq(Seq(Pieces)) /\ <<Says(l)>> \in Seq(Seq(Pieces))
    BY SaysType
  <2> QED BY <2>1 DEF Heard
<1> QED
  BY <1>1, <1>2, <1>3, ContentIs, FlattenOne

LEMMA HearingCat ==
  ASSUME NEW s \in Seq(Seq(Pieces)), NEW t \in Seq(Seq(Pieces))
  PROVE  Hearing(Cat(s, t)) = Cat(Hearing(s), Hearing(t))
<1>u. PICK u, a, b, c : u = Cat(s, t) /\ a = Hearing(s) /\ b = Hearing(t) /\ c = Hearing(u)
  OBVIOUS
<1>1. u \in Seq(Seq(Pieces))
  BY <1>u, CatType
<1>t. PICK T, U : T = Seq(Pieces) /\ U = Seq(Seq(Pieces))
  OBVIOUS
<1>2. /\ a \in Seq(U) /\ b \in Seq(U) /\ c \in Seq(U)
      /\ Len(a) = Len(s) /\ Len(b) = Len(t) /\ Len(c) = Len(u)
  BY <1>1, <1>u, <1>t, HearingType
<1>f. PICK f : f = [l \in T |-> Heard(l)]
  OBVIOUS
<1>3. \A v \in Seq(T) : \A i \in 1 .. Len(v) : Hearing(v)[i] = f[v[i]]
  BY <1>f DEF Hearing
<1>4. IsImage(a, s, f) /\ IsImage(b, t, f) /\ IsImage(c, u, f)
  BY <1>1, <1>2, <1>3, <1>u, <1>t DEF IsImage
<1>5. s \in Seq(T) /\ t \in Seq(T)
  BY <1>t
<1>6. c = Cat(a, b)
  BY <1>2, <1>4, <1>5, <1>u, ImageCat
<1> QED
  BY <1>6, <1>u

LEMMA ContentCat ==
  ASSUME NEW s \in Seq(Seq(Pieces)), NEW t \in Seq(Seq(Pieces))
  PROVE  Content(Cat(s, t)) = Cat(Content(s), Content(t))
<1>h. PICK a, b, u : a = Hearing(s) /\ b = Hearing(t) /\ u = Cat(s, t)
  OBVIOUS
<1>1. a \in Seq(Seq(Seq(Pieces))) /\ b \in Seq(Seq(Seq(Pieces)))
  BY <1>h, HearingType
<1>2. FlattenSeq(a \o b) = FlattenSeq(a) \o FlattenSeq(b)
  BY <1>1, FlattenConcat
<1>3. Hearing(u) = a \o b
  BY <1>h, HearingCat DEF Cat
<1>4. u \in Seq(Seq(Pieces))
  BY <1>h, CatType
<1>5. /\ Content(u) = FlattenSeq(Hearing(u)) /\ Content(s) = FlattenSeq(a)
      /\ Content(t) = FlattenSeq(b)
  BY <1>4, <1>h, ContentIs
<1> QED
  BY <1>2, <1>3, <1>5, <1>h DEF Cat

\* The texts of printed lines.
LinesIn(paper) == [i \in 1 .. Len(paper) |-> paper[i].line]

LEMMA LinesInType ==
  ASSUME NEW s \in Seq(PrintedLines)
  PROVE  LinesIn(s) \in Seq(Seq(Pieces)) /\ Len(LinesIn(s)) = Len(s)
<1>n. PICK n \in Nat : n = Len(s)
  OBVIOUS
<1>1. \A i \in 1 .. n : s[i].line \in Seq(Pieces)
  <2>1. \A x \in PrintedLines : x.line \in Seq(Pieces)
    BY DEF PrintedLines
  <2>2. \A i \in 1 .. n : s[i] \in PrintedLines
    BY <1>n
  <2> QED BY <2>1, <2>2
<1>2. LinesIn(s) \in [1 .. n -> Seq(Pieces)]
  BY <1>1, <1>n DEF LinesIn
<1> QED
  BY <1>2, <1>n

LEMMA LinesInCat ==
  ASSUME NEW s \in Seq(PrintedLines), NEW t \in Seq(PrintedLines)
  PROVE  LinesIn(Cat(s, t)) = Cat(LinesIn(s), LinesIn(t))
<1>u. PICK u, a, b, c : u = Cat(s, t) /\ a = LinesIn(s) /\ b = LinesIn(t) /\ c = LinesIn(u)
  OBVIOUS
<1>1. u \in Seq(PrintedLines)
  BY <1>u, CatType
<1>t. PICK U : U = Seq(Pieces)
  OBVIOUS
<1>2. /\ a \in Seq(U) /\ b \in Seq(U) /\ c \in Seq(U)
      /\ Len(a) = Len(s) /\ Len(b) = Len(t) /\ Len(c) = Len(u)
  BY <1>1, <1>u, <1>t, LinesInType
<1>f. PICK f : f = [x \in PrintedLines |-> x.line]
  OBVIOUS
<1>3. \A v \in Seq(PrintedLines) : \A i \in 1 .. Len(v) : LinesIn(v)[i] = f[v[i]]
  BY <1>f DEF LinesIn
<1>4. IsImage(a, s, f) /\ IsImage(b, t, f) /\ IsImage(c, u, f)
  BY <1>1, <1>2, <1>3, <1>u DEF IsImage
<1>6. c = Cat(a, b)
  BY <1>2, <1>4, <1>u, ImageCat
<1> QED
  BY <1>6, <1>u

LEMMA LinesInOne ==
  ASSUME NEW x \in PrintedLines
  PROVE  LinesIn(<<x>>) = <<x.line>> /\ LinesIn(<<>>) = <<>>
<1>1. <<x>> \in Seq(PrintedLines) /\ Len(<<x>>) = 1 /\ <<x>>[1] = x
      /\ <<>> \in Seq(PrintedLines) /\ Len(<<>>) = 0
  OBVIOUS
<1>h. PICK h, e : h = LinesIn(<<x>>) /\ e = LinesIn(<<>>)
  OBVIOUS
<1>2. h \in Seq(Seq(Pieces)) /\ Len(h) = 1 /\ e \in Seq(Seq(Pieces)) /\ Len(e) = 0
  BY <1>1, <1>h, LinesInType
<1>3. h[1] = x.line
  BY <1>1, <1>h DEF LinesIn
<1>4. h = <<h[1]>> /\ e = <<>>
  BY <1>2, EmptySeq
<1> QED
  BY <1>h, <1>3, <1>4

-----------------------------------------------------------------------------
(* What a section adds: the same content on both printers, in the layout of   *)
(* the settings.  e holds what the settings and the reservation say.          *)

Sane(e) == e.base \in Int /\ e.width \in Nat \ {0} /\ e.bold \in BOOLEAN /\ e.nights \in Nat

IsAverage(n, e) ==
  LET off == 2 * (e.nights * n - e.total) IN e.nights > 0 /\ off <= e.nights /\ -off <= e.nights
FairPiece(p, e) ==
  /\ p.what # "*** PREKLICANO ***"
  /\ p.what = "NOCI" => p.n \in Nat
  /\ p.what = "average" => IsAverage(p.n, e)
Fair(line, e) == \A k \in DOMAIN line : FairPiece(line[k], e)
Fits(line, e) ==
  \A k \in DOMAIN line :
    /\ line[k].kind = "gap" => line[k].len >= 1 /\ (Total(line) = e.width \/ line[k].len = 1)
    /\ line[k].kind = "room" /\ line[k].n > 0 => line[k].len <= e.width
LaidOut(p, e) ==
  \A mark \in p.marks : /\ mark.size = e.base /\ mark.align = "left"
                        /\ mark.bold => e.bold /\ p.line[1].kind = "label"
Fine(p, e) == Fair(p.line, e) /\ Fits(p.line, e) /\ LaidOut(p, e)
AllFair(lines, e) == \A i \in DOMAIN lines : Fair(lines[i], e)
AllFine(new, e) == \A i \in DOMAIN new : Fine(new[i], e)

Makes(cmds, lines, new, e) ==
  /\ Prints(cmds, e.base, "left", e.base, "left", new)
  /\ lines \in Seq(Seq(Pieces)) /\ Content(LinesIn(new)) = Content(lines)
  /\ AllFine(new, e) /\ AllFair(lines, e)
Good(cmds, lines, e) == \E new : Makes(cmds, lines, new, e)

LEMMA AllFineCat ==
  ASSUME NEW e, NEW a \in Seq(PrintedLines), NEW b \in Seq(PrintedLines), AllFine(a, e), AllFine(b, e)
  PROVE  AllFine(Cat(a, b), e)
<1>1. ASSUME NEW i \in DOMAIN Cat(a, b) PROVE Fine(Cat(a, b)[i], e)
  <2>1. \/ i \in DOMAIN a /\ Cat(a, b)[i] = a[i]
        \/ i - Len(a) \in DOMAIN b /\ Cat(a, b)[i] = b[i - Len(a)]
    BY InCat
  <2> QED BY <2>1 DEF AllFine
<1> QED
  BY <1>1 DEF AllFine

LEMMA AllFairCat ==
  ASSUME NEW e, NEW a \in Seq(Seq(Pieces)), NEW b \in Seq(Seq(Pieces)), AllFair(a, e), AllFair(b, e)
  PROVE  AllFair(Cat(a, b), e)
<1>1. ASSUME NEW i \in DOMAIN Cat(a, b) PROVE Fair(Cat(a, b)[i], e)
  <2>1. \/ i \in DOMAIN a /\ Cat(a, b)[i] = a[i]
        \/ i - Len(a) \in DOMAIN b /\ Cat(a, b)[i] = b[i - Len(a)]
    BY InCat
  <2> QED BY <2>1 DEF AllFair
<1> QED
  BY <1>1 DEF AllFair

LEMMA FairCat ==
  ASSUME NEW e, NEW a \in Seq(Pieces), NEW b \in Seq(Pieces), Fair(a, e), Fair(b, e)
  PROVE  Fair(Cat(a, b), e)
<1>1. ASSUME NEW i \in DOMAIN Cat(a, b) PROVE FairPiece(Cat(a, b)[i], e)
  <2>1. \/ i \in DOMAIN a /\ Cat(a, b)[i] = a[i]
        \/ i - Len(a) \in DOMAIN b /\ Cat(a, b)[i] = b[i - Len(a)]
    BY InCat
  <2> QED BY <2>1 DEF Fair
<1> QED
  BY <1>1 DEF Fair

\* One section after another.
LEMMA GoodCat ==
  ASSUME NEW e, NEW c, NEW l, NEW d, NEW k, Good(c, l, e), Good(d, k, e)
  PROVE  Good(Cat(c, d), Cat(l, k), e)
<1>1. PICK x : Makes(c, l, x, e)
  BY DEF Good
<1>2. PICK y : Makes(d, k, y, e)
  BY DEF Good
<1>3. /\ Prints(c, e.base, "left", e.base, "left", x) /\ Prints(d, e.base, "left", e.base, "left", y)
      /\ l \in Seq(Seq(Pieces)) /\ k \in Seq(Seq(Pieces))
      /\ Content(LinesIn(x)) = Content(l) /\ Content(LinesIn(y)) = Content(k)
      /\ AllFine(x, e) /\ AllFine(y, e) /\ AllFair(l, e) /\ AllFair(k, e)
  BY <1>1, <1>2 DEF Makes
<1>4. x \in Seq(PrintedLines) /\ y \in Seq(PrintedLines)
  BY <1>3 DEF Prints
<1>5. Prints(Cat(c, d), e.base, "left", e.base, "left", Cat(x, y))
  BY <1>3, PrintsConcat, Zenon
<1>6. Cat(l, k) \in Seq(Seq(Pieces)) /\ AllFine(Cat(x, y), e) /\ AllFair(Cat(l, k), e)
  BY <1>3, <1>4, CatType, AllFineCat, AllFairCat
<1>7. Content(LinesIn(Cat(x, y))) = Content(Cat(l, k))
  <2>1. LinesIn(Cat(x, y)) = Cat(LinesIn(x), LinesIn(y))
    BY <1>4, LinesInCat
  <2>2. LinesIn(x) \in Seq(Seq(Pieces)) /\ LinesIn(y) \in Seq(Seq(Pieces))
    BY <1>4, LinesInType
  <2>3. Content(Cat(LinesIn(x), LinesIn(y))) = Cat(Content(LinesIn(x)), Content(LinesIn(y)))
    BY <2>2, ContentCat
  <2>4. Content(Cat(l, k)) = Cat(Content(l), Content(k))
    BY <1>3, ContentCat
  <2> QED BY <1>3, <2>1, <2>3, <2>4
<1>8. Makes(Cat(c, d), Cat(l, k), Cat(x, y), e)
  BY <1>5, <1>6, <1>7 DEF Makes
<1> QED
  BY <1>8 DEF Good

LEMMA GoodNothing == \A e : Good(<<>>, <<>>, e)
<1> SUFFICES ASSUME NEW e PROVE Good(<<>>, <<>>, e)
  OBVIOUS
<1>1. Prints(<<>>, e.base, "left", e.base, "left", <<>>)
  BY PrintsNothing
<1>2. LinesIn(<<>>) = <<>>
  BY DEF LinesIn
<1>3. <<>> \in Seq(Seq(Pieces)) /\ AllFine(<<>>, e) /\ AllFair(<<>>, e)
  BY DEF AllFine, AllFair
<1>4. Makes(<<>>, <<>>, <<>>, e)
  BY <1>1, <1>2, <1>3 DEF Makes
<1> QED
  BY <1>4 DEF Good

\* Silent commands that keep the layout.
LEMMA GoodSilently ==
  ASSUME NEW e, NEW c, Prints(c, e.base, "left", e.base, "left", <<>>)
  PROVE  Good(c, <<>>, e)
<1>2. LinesIn(<<>>) = <<>>
  BY DEF LinesIn
<1>3. <<>> \in Seq(Seq(Pieces)) /\ AllFine(<<>>, e) /\ AllFair(<<>>, e)
  BY DEF AllFine, AllFair
<1>4. Makes(c, <<>>, <<>>, e)
  BY <1>2, <1>3 DEF Makes
<1> QED
  BY <1>4 DEF Good

\* One printed line, and what the text has for it.
LEMMA GoodOne ==
  ASSUME NEW e, NEW c, NEW x \in PrintedLines, Prints(c, e.base, "left", e.base, "left", <<x>>),
         Fine(x, e), NEW l \in Seq(Seq(Pieces)), AllFair(l, e), Content(l) = Heard(x.line)
  PROVE  Good(c, l, e)
<1>1. x.line \in Seq(Pieces)
  BY DEF PrintedLines
<1>2. Content(LinesIn(<<x>>)) = Heard(x.line)
  BY <1>1, LinesInOne, ContentOne
<1>3. AllFine(<<x>>, e)
  BY DEF AllFine
<1>4. Makes(c, l, <<x>>, e)
  BY <1>2, <1>3 DEF Makes
<1> QED
  BY <1>4 DEF Good

LEMMA GoodType ==
  ASSUME NEW e, NEW c, NEW l, Good(c, l, e)
  PROVE  c \in Seq(Cmds) /\ l \in Seq(Seq(Pieces))
BY DEF Good, Makes, Prints

\* A line printed as it stands in the text, and one of which the text says nothing.
LEMMA FineLine ==
  ASSUME NEW e, Sane(e), NEW l \in Seq(Pieces), Fair(l, e), Fits(l, e),
         NEW x, x = Printed(l, {Mark(e.base, "left", FALSE)})
  PROVE  /\ x \in PrintedLines /\ x.line = l /\ Fine(x, e)
         /\ Prints(Line(l), e.base, "left", e.base, "left", <<x>>)
<1>1. Layout(e.base, "left")
  BY DEF Layout, Sane, Aligns
<1>2. Prints(Line(l), e.base, "left", e.base, "left", <<x>>)
  BY <1>1, PrintsLine
<1>3. x.line = l /\ x.marks = {Mark(e.base, "left", FALSE)}
  BY DEF Printed
<1>4. Mark(e.base, "left", FALSE) \in [size : Int, align : Aligns, bold : BOOLEAN]
  BY <1>1 DEF Mark, Layout
<1>5. x \in PrintedLines
  BY <1>4 DEF Printed, PrintedLines
<1>6. LaidOut(x, e)
  <2>m. PICK m : m = Mark(e.base, "left", FALSE)
    OBVIOUS
  <2>1. m.size = e.base /\ m.align = "left"
    BY <2>m DEF Mark
  <2>2. m.bold = FALSE
    BY <2>m DEF Mark
  <2>3. x.marks = {m}
    BY <1>3, <2>m
  <2> QED BY <2>1, <2>2, <2>3 DEF LaidOut
<1> QED
  BY <1>2, <1>3, <1>5, <1>6 DEF Fine

LEMMA GoodLine ==
  ASSUME NEW e, Sane(e), NEW l \in Seq(Pieces), Fair(l, e), Fits(l, e)
  PROVE  Good(Line(l), <<l>>, e)
<1>x. PICK x : x = Printed(l, {Mark(e.base, "left", FALSE)})
  OBVIOUS
<1>1. /\ x \in PrintedLines /\ x.line = l /\ Fine(x, e)
      /\ Prints(Line(l), e.base, "left", e.base, "left", <<x>>)
  BY <1>x, FineLine
<1>2. <<l>> \in Seq(Seq(Pieces)) /\ AllFair(<<l>>, e)
  BY DEF AllFair
<1>3. Content(<<l>>) = Heard(x.line)
  BY <1>1, ContentOne
<1> QED
  BY <1>1, <1>2, <1>3, GoodOne

LEMMA GoodUnsaid ==
  ASSUME NEW e, Sane(e), NEW l \in Seq(Pieces), Fair(l, e), Fits(l, e), Heard(l) = <<>>
  PROVE  Good(Line(l), <<>>, e)
<1>x. PICK x : x = Printed(l, {Mark(e.base, "left", FALSE)})
  OBVIOUS
<1>1. /\ x \in PrintedLines /\ x.line = l /\ Fine(x, e)
      /\ Prints(Line(l), e.base, "left", e.base, "left", <<x>>)
  BY <1>x, FineLine
<1>2. <<>> \in Seq(Seq(Pieces)) /\ AllFair(<<>>, e)
  BY DEF AllFair
<1>3. Content(<<>>) = Heard(x.line)
  BY <1>1, ContentEmpty
<1> QED
  BY <1>1, <1>2, <1>3, GoodOne

\* Lines of two and three pieces.
LEMMA CatTwo ==
  ASSUME NEW T, NEW x \in T, NEW y \in T
  PROVE  <<x, y>> = Cat(<<x>>, <<y>>)
<1>t. PICK a, b, c : a = <<x>> /\ b = <<y>> /\ c = <<x, y>>
  OBVIOUS
<1>1. /\ a \in Seq(T) /\ b \in Seq(T) /\ c \in Seq(T)
      /\ Len(a) = 1 /\ Len(b) = 1 /\ Len(c) = 2
      /\ a[1] = x /\ b[1] = y /\ c[1] = x /\ c[2] = y
  BY <1>t
<1>2. IsJoin(c, a, b)
  BY <1>1 DEF IsJoin
<1> QED
  BY <1>1, <1>2, <1>t, IsCat

LEMMA CatThree ==
  ASSUME NEW T, NEW x \in T, NEW y \in T, NEW z \in T
  PROVE  <<x, y, z>> = Cat(<<x>>, <<y, z>>)
<1>t. PICK a, b, c : a = <<x>> /\ b = <<y, z>> /\ c = <<x, y, z>>
  OBVIOUS
<1>1. /\ a \in Seq(T) /\ b \in Seq(T) /\ c \in Seq(T)
      /\ Len(a) = 1 /\ Len(b) = 2 /\ Len(c) = 3
      /\ a[1] = x /\ b[1] = y /\ b[2] = z /\ c[1] = x /\ c[2] = y /\ c[3] = z
  BY <1>t
<1>2. IsJoin(c, a, b)
  BY <1>1 DEF IsJoin
<1> QED
  BY <1>1, <1>2, <1>t, IsCat

\* A label, blanks and a value: as long as the three, and the same whatever the blanks.
KvPieces(label, n, value) == <<label, Gap(n), value>>

LEMMA KvIs ==
  ASSUME NEW label \in Pieces, NEW n \in Nat, NEW value \in Pieces
  PROVE  /\ KvPieces(label, n, value) \in Seq(Pieces)
         /\ KvPieces(label, n, value) = Cat(<<label>>, <<Gap(n), value>>)
         /\ <<label>> \in Seq(Pieces) /\ <<Gap(n), value>> \in Seq(Pieces)
         /\ Total(KvPieces(label, n, value)) = label.len + n + value.len
<1>g. PICK g : g = Gap(n)
  OBVIOUS
<1>1. g \in Pieces /\ g.len = n
  BY <1>g, GapType DEF Gap, Piece
<1>2. \A p \in Pieces : p.len \in Nat
  BY DEF Pieces
<1>3. /\ <<label>> \in Seq(Pieces) /\ <<g>> \in Seq(Pieces) /\ <<value>> \in Seq(Pieces)
      /\ <<g, value>> \in Seq(Pieces) /\ <<label, g, value>> \in Seq(Pieces)
  BY <1>1
<1>4. <<g>> \o <<value>> = <<g, value>>
  BY <1>1, CatTwo DEF Cat
<1>5. <<label>> \o <<g, value>> = <<label, g, value>>
  BY <1>1, CatThree DEF Cat
<1>6. Total(<<label>>) = label.len /\ Total(<<g>>) = n /\ Total(<<value>>) = value.len
  BY <1>1, <1>2, TotalOne
<1>7. Total(<<g>> \o <<value>>) = Total(<<g>>) + Total(<<value>>)
  BY <1>2, <1>3, TotalConcat
<1>8. Total(<<label>> \o <<g, value>>) = Total(<<label>>) + Total(<<g, value>>)
  BY <1>2, <1>3, TotalConcat
<1>9. Total(<<label, g, value>>) = label.len + (n + value.len)
  BY <1>4, <1>5, <1>6, <1>7, <1>8
<1>10. label.len + (n + value.len) = label.len + n + value.len
  BY <1>2
<1> QED
  BY <1>3, <1>5, <1>9, <1>10, <1>g DEF KvPieces, Cat

LEMMA KvSays ==
  ASSUME NEW label \in Pieces, NEW m \in Nat, NEW n \in Nat, NEW value \in Pieces,
         label.kind = "label"
  PROVE  Heard(KvPieces(label, m, value)) = Heard(KvPieces(label, n, value))
<1>1. ASSUME NEW i \in Nat
      PROVE  /\ Heard(KvPieces(label, i, value)) = <<Says(KvPieces(label, i, value))>>
             /\ Says(KvPieces(label, i, value))
                  = <<label, Gap(1), IF value.kind = "gap" THEN Gap(1) ELSE value>>
  <2>l. PICK l : l = KvPieces(label, i, value)
    OBVIOUS
  <2>1. DOMAIN l = {1, 2, 3} /\ l[1] = label /\ l[2] = Gap(i) /\ l[3] = value /\ Len(l) = 3
    BY <2>l DEF KvPieces
  <2>2. ~Silent(l)
    BY <2>1 DEF Silent
  <2>3. l # TimeOfPrinting
    <3>1. Len(TimeOfPrinting) = 1
      BY DEF TimeOfPrinting
    <3> QED BY <2>1, <3>1
  <2>4. Gap(i).kind = "gap"
    BY DEF Gap, Piece
  <2>5. Says(l) = [k \in {1, 2, 3} |-> IF l[k].kind = "gap" THEN Gap(1) ELSE l[k]]
    BY <2>1 DEF Says
  <2>6. Says(l) = <<label, Gap(1), IF value.kind = "gap" THEN Gap(1) ELSE value>>
    BY <2>1, <2>4, <2>5
  <2> QED BY <2>l, <2>2, <2>3, <2>6 DEF Heard
<1> QED
  BY <1>1

\* A label and its value, plain or with the label in bold.
LEMMA KvFine ==
  ASSUME NEW e, Sane(e), NEW label \in Pieces, NEW n \in Nat, NEW value \in Pieces,
         label.kind = "label", value.kind = "value", FairPiece(label, e), FairPiece(value, e),
         n >= 1, n = 1 \/ label.len + n + value.len = e.width
  PROVE  Fair(KvPieces(label, n, value), e) /\ Fits(KvPieces(label, n, value), e)
<1>l. PICK l : l = KvPieces(label, n, value)
  OBVIOUS
<1>1. DOMAIN l = {1, 2, 3} /\ l[1] = label /\ l[2] = Gap(n) /\ l[3] = value
  BY <1>l DEF KvPieces
<1>2. FairPiece(Gap(n), e) /\ Gap(n).kind = "gap" /\ Gap(n).len = n
  BY DEF FairPiece, Gap, Piece
<1>3. Total(l) = label.len + n + value.len
  BY <1>l, KvIs
<1>4. Fair(l, e)
  BY <1>1, <1>2 DEF Fair
<1>5. Fits(l, e)
  <2>1. ASSUME NEW k \in {1, 2, 3}
        PROVE  /\ l[k].kind = "gap" => l[k].len >= 1 /\ (Total(l) = e.width \/ l[k].len = 1)
               /\ l[k].kind = "room" /\ l[k].n > 0 => l[k].len <= e.width
    BY <1>1, <1>2, <1>3
  <2> QED BY <1>1, <2>1 DEF Fits
<1> QED
  BY <1>l, <1>4, <1>5

LEMMA GoodKvPlain ==
  ASSUME NEW e, Sane(e), NEW label \in Pieces, NEW n \in Nat, NEW value \in Pieces,
         label.kind = "label", value.kind = "value", FairPiece(label, e), FairPiece(value, e),
         n >= 1, n = 1 \/ label.len + n + value.len = e.width
  PROVE  Good(Line(KvPieces(label, n, value)), <<KvPieces(label, 1, value)>>, e)
<1>l. PICK l, k : l = KvPieces(label, n, value) /\ k = KvPieces(label, 1, value)
  OBVIOUS
<1>0. 1 \in Nat /\ 1 >= 1
  OBVIOUS
<1>1. l \in Seq(Pieces) /\ k \in Seq(Pieces)
  BY <1>0, <1>l, KvIs
<1>2. Fair(l, e) /\ Fits(l, e) /\ Fair(k, e)
  BY <1>0, <1>l, KvFine
<1>x. PICK x : x = Printed(l, {Mark(e.base, "left", FALSE)})
  OBVIOUS
<1>3. /\ x \in PrintedLines /\ x.line = l /\ Fine(x, e)
      /\ Prints(Line(l), e.base, "left", e.base, "left", <<x>>)
  BY <1>x, <1>1, <1>2, FineLine
<1>4. <<k>> \in Seq(Seq(Pieces)) /\ AllFair(<<k>>, e)
  BY <1>1, <1>2 DEF AllFair
<1>5. Content(<<k>>) = Heard(x.line)
  <2>1. Content(<<k>>) = Heard(k)
    BY <1>1, ContentOne
  <2>2. Heard(k) = Heard(l)
    BY <1>0, <1>l, KvSays
  <2> QED BY <2>1, <2>2, <1>3
<1>6. Good(Line(l), <<k>>, e)
  BY <1>3, <1>4, <1>5, GoodOne
<1> QED
  BY <1>l, <1>6

LEMMA GoodKvBold ==
  ASSUME NEW e, Sane(e), e.bold, NEW label \in Pieces, NEW n \in Nat, NEW value \in Pieces,
         label.kind = "label", value.kind = "value", FairPiece(label, e), FairPiece(value, e),
         n >= 1, n = 1 \/ label.len + n + value.len = e.width, NEW c,
         c = Cat(Cat(Cat(Cmd("bold", TRUE), Cmd("text", <<label>>)), Cmd("bold", FALSE)),
                 Line(<<Gap(n), value>>))
  PROVE  Good(c, <<KvPieces(label, 1, value)>>, e)
<1>l. PICK l, k, a, b : /\ l = KvPieces(label, n, value) /\ k = KvPieces(label, 1, value)
                        /\ a = <<label>> /\ b = <<Gap(n), value>>
  OBVIOUS
<1>0. 1 \in Nat /\ 1 >= 1
  OBVIOUS
<1>1. /\ l \in Seq(Pieces) /\ k \in Seq(Pieces) /\ a \in Seq(Pieces) /\ b \in Seq(Pieces)
      /\ l = Cat(a, b)
  BY <1>0, <1>l, KvIs
<1>2. Fair(l, e) /\ Fits(l, e) /\ Fair(k, e)
  BY <1>0, <1>l, KvFine
<1>x. PICK x, m : m = {Mark(e.base, "left", TRUE), Mark(e.base, "left", FALSE)} /\ x = Printed(l, m)
  OBVIOUS
<1>3. Layout(e.base, "left")
  BY DEF Layout, Sane, Aligns
<1>4. Prints(c, e.base, "left", e.base, "left", <<x>>)
  BY <1>1, <1>3, <1>l, <1>x, PrintsLabel, Zenon
<1>5. x.line = l /\ x.marks = m
  BY <1>x DEF Printed
<1>6. x \in PrintedLines
  <2>1. m \in SUBSET [size : Int, align : Aligns, bold : BOOLEAN]
    BY <1>3, <1>x DEF Mark, Layout
  <2> QED BY <1>1, <1>x, <2>1 DEF Printed, PrintedLines
<1>7. l[1].kind = "label"
  BY <1>l DEF KvPieces
<1>8. LaidOut(x, e)
  <2>1. \A mark \in m : mark.size = e.base /\ mark.align = "left"
    BY <1>x DEF Mark
  <2> QED BY <1>5, <1>7, <2>1 DEF LaidOut
<1>9. Fine(x, e)
  BY <1>2, <1>5, <1>8 DEF Fine
<1>10. <<k>> \in Seq(Seq(Pieces)) /\ AllFair(<<k>>, e)
  BY <1>1, <1>2 DEF AllFair
<1>11. Content(<<k>>) = Heard(x.line)
  <2>1. Content(<<k>>) = Heard(k)
    BY <1>1, ContentOne
  <2>2. Heard(k) = Heard(l)
    BY <1>0, <1>l, KvSays
  <2> QED BY <2>1, <2>2, <1>5
<1>12. Good(c, <<k>>, e)
  BY <1>4, <1>6, <1>9, <1>10, <1>11, GoodOne
<1> QED
  BY <1>l, <1>12

-----------------------------------------------------------------------------
(* Several parts, one after another. *)

LEMMA GoodFlat ==
  ASSUME NEW e, NEW cs \in Seq(Seq(Cmds)), NEW ls \in Seq(Seq(Seq(Pieces))), Len(cs) = Len(ls),
         \A i \in 1 .. Len(cs) : Good(cs[i], ls[i], e)
  PROVE  Good(FlattenSeq(cs), FlattenSeq(ls), e)
<1>n. PICK n \in Nat : n = Len(cs) /\ n = Len(ls)
  OBVIOUS
<1>1. PICK h \in [0 .. Len(cs) -> Seq(Cmds)] : Flat(h, cs)
  BY FlatExists
<1>2. PICK g \in [0 .. Len(ls) -> Seq(Seq(Pieces))] : Flat(g, ls)
  BY FlatExists
<1>3. FlattenSeq(cs) = h[n] /\ FlattenSeq(ls) = g[n]
  BY <1>1, <1>2, <1>n, FlattenIs
<1>4. /\ h[0] = <<>> /\ g[0] = <<>>
      /\ \A i \in 1 .. n : h[i] = Cat(h[i - 1], cs[i]) /\ g[i] = Cat(g[i - 1], ls[i])
  BY <1>1, <1>2, <1>n DEF Flat
<1> DEFINE S == {k \in Nat : k <= n => Good(h[k], g[k], e)}
<1>5. 0 \in S
  <2>1. Good(<<>>, <<>>, e)
    BY GoodNothing
  <2> QED BY <1>4, <2>1
<1>6. ASSUME NEW k \in Nat, k \in S PROVE k + 1 \in S
  <2> SUFFICES ASSUME k + 1 <= n PROVE Good(h[k + 1], g[k + 1], e)
    OBVIOUS
  <2>1. k + 1 \in 1 .. n /\ (k + 1) - 1 = k /\ k <= n
    OBVIOUS
  <2>2. h[k + 1] = Cat(h[k], cs[k + 1]) /\ g[k + 1] = Cat(g[k], ls[k + 1])
    BY <1>4, <2>1
  <2>3. Good(h[k], g[k], e) /\ Good(cs[k + 1], ls[k + 1], e)
    BY <1>6, <2>1, <1>n
  <2>4. Good(Cat(h[k], cs[k + 1]), Cat(g[k], ls[k + 1]), e)
    BY <2>3, GoodCat
  <2> QED BY <2>2, <2>4
<1> HIDE DEF S
<1>7. n \in S
  BY <1>5, <1>6, Induction
<1> QED
  BY <1>3, <1>7 DEF S

GoodPart(part, e) == Good(part.cmds, part.lines, e)

LEMMA GoodBoth ==
  ASSUME NEW e, NEW parts, Len(parts) \in Nat, \A i \in 1 .. Len(parts) : GoodPart(parts[i], e)
  PROVE  GoodPart(Both(parts), e)
<1>n. PICK n \in Nat : n = Len(parts)
  OBVIOUS
<1>d. PICK cs, ls : /\ cs = [i \in 1 .. n |-> parts[i].cmds]
                    /\ ls = [i \in 1 .. n |-> parts[i].lines]
  OBVIOUS
<1>1. \A i \in 1 .. n : Good(parts[i].cmds, parts[i].lines, e)
  BY <1>n DEF GoodPart
<1>2. \A i \in 1 .. n : parts[i].cmds \in Seq(Cmds) /\ parts[i].lines \in Seq(Seq(Pieces))
  BY <1>1, GoodType
<1>3. /\ cs \in Seq(Seq(Cmds)) /\ ls \in Seq(Seq(Seq(Pieces))) /\ Len(cs) = n /\ Len(ls) = n
      /\ \A i \in 1 .. n : cs[i] = parts[i].cmds /\ ls[i] = parts[i].lines
  <2>t. PICK T, U : T = Seq(Cmds) /\ U = Seq(Seq(Pieces))
    OBVIOUS
  <2>1. cs \in [1 .. n -> T] /\ ls \in [1 .. n -> U]
    BY <1>2, <1>d, <2>t
  <2>2. cs \in Seq(T) /\ ls \in Seq(U) /\ Len(cs) = n /\ Len(ls) = n
    BY <2>1
  <2>3. \A i \in 1 .. n : cs[i] = parts[i].cmds /\ ls[i] = parts[i].lines
    BY <1>d
  <2> QED BY <2>2, <2>3, <2>t
<1>4. \A i \in 1 .. Len(cs) : Good(cs[i], ls[i], e)
  BY <1>1, <1>3
<1>5. Good(FlattenSeq(cs), FlattenSeq(ls), e)
  BY <1>3, <1>4, GoodFlat
<1>6. Both(parts).cmds = FlattenSeq(cs) /\ Both(parts).lines = FlattenSeq(ls)
  BY <1>d, <1>n DEF Both
<1> QED
  BY <1>5, <1>6 DEF GoodPart

\* The agent prints the lines of the text.
RenderLines(lines) == [i \in 1 .. Len(lines) |-> Line(lines[i])]
Renders(cmds, lines) ==
  \E new : Prints(cmds, 1, "left", 1, "left", new) /\ LinesIn(new) = lines

LEMMA RendersLine ==
  ASSUME NEW l \in Seq(Pieces)
  PROVE  Renders(Line(l), <<l>>)
<1>1. Layout(1, "left")
  BY DEF Layout, Aligns
<1>x. PICK x : x = Printed(l, {Mark(1, "left", FALSE)})
  OBVIOUS
<1>2. Prints(Line(l), 1, "left", 1, "left", <<x>>)
  BY <1>1, <1>x, PrintsLine
<1>3. x \in PrintedLines /\ x.line = l
  <2>1. Mark(1, "left", FALSE) \in [size : Int, align : Aligns, bold : BOOLEAN]
    BY <1>1 DEF Mark, Layout
  <2>2. {Mark(1, "left", FALSE)} \in SUBSET [size : Int, align : Aligns, bold : BOOLEAN]
    BY <2>1
  <2>3. x.line = l
    BY <1>x DEF Printed
  <2> QED BY <1>x, <2>2, <2>3, PrintedType
<1>4. LinesIn(<<x>>) = <<l>>
  BY <1>3, LinesInOne
<1> QED
  BY <1>2, <1>4 DEF Renders

LEMMA RendersCat ==
  ASSUME NEW c, NEW l, NEW d, NEW k, Renders(c, l), Renders(d, k)
  PROVE  Renders(Cat(c, d), Cat(l, k))
<1>1. PICK x : Prints(c, 1, "left", 1, "left", x) /\ LinesIn(x) = l
  BY DEF Renders
<1>2. PICK y : Prints(d, 1, "left", 1, "left", y) /\ LinesIn(y) = k
  BY DEF Renders
<1>3. Prints(Cat(c, d), 1, "left", 1, "left", Cat(x, y))
  BY <1>1, <1>2, PrintsConcat, Zenon
<1>4. x \in Seq(PrintedLines) /\ y \in Seq(PrintedLines)
  BY <1>1, <1>2 DEF Prints
<1>5. LinesIn(Cat(x, y)) = Cat(l, k)
  BY <1>1, <1>2, <1>4, LinesInCat
<1> QED
  BY <1>3, <1>5 DEF Renders

\* A prefix and the element after it.
LEMMA PrefixNext ==
  ASSUME NEW T, NEW s \in Seq(T), NEW k \in Nat, k + 1 <= Len(s)
  PROVE  SubSeq(s, 1, k + 1) = Cat(SubSeq(s, 1, k), <<s[k + 1]>>)
<1>n. PICK n \in Nat : n = Len(s)
  OBVIOUS
<1>a. PICK a, b, c : a = SubSeq(s, 1, k) /\ b = <<s[k + 1]>> /\ c = SubSeq(s, 1, k + 1)
  OBVIOUS
<1>1. /\ a \in Seq(T) /\ Len(a) = k /\ \A i \in 1 .. k : a[i] = s[i]
      /\ c \in Seq(T) /\ Len(c) = k + 1 /\ \A i \in 1 .. k + 1 : c[i] = s[i]
  BY <1>a, <1>n, SubSeqProperties
<1>2. k + 1 \in 1 .. n
  BY <1>n
<1>3. b \in Seq(T) /\ Len(b) = 1 /\ b[1] = s[k + 1]
  BY <1>a, <1>2, <1>n
<1>4. /\ \A i \in 1 .. k : c[i] = a[i]
      /\ \A i \in 1 .. 1 : c[k + i] = b[i]
  BY <1>1, <1>3, SMTT(30)
<1>5. IsJoin(c, a, b)
  BY <1>1, <1>3, <1>4 DEF IsJoin
<1>6. c = Cat(a, b)
  BY <1>1, <1>3, <1>5, IsCat
<1> QED
  BY <1>6, <1>a

LEMMA PrefixAll ==
  ASSUME NEW T, NEW s \in Seq(T)
  PROVE  SubSeq(s, 1, Len(s)) = s
<1>n. PICK n \in Nat : n = Len(s)
  OBVIOUS
<1>c. PICK c : c = SubSeq(s, 1, n)
  OBVIOUS
<1>1. c \in Seq(T) /\ Len(c) = n /\ \A i \in 1 .. n : c[i] = s[i]
  BY <1>c, <1>n, SubSeqProperties
<1>2. c = s
  BY <1>1, <1>n, SeqEqual
<1> QED
  BY <1>2, <1>c, <1>n

LEMMA RendersText ==
  ASSUME NEW lines \in Seq(Seq(Pieces))
  PROVE  Renders(FlattenSeq(RenderLines(lines)), lines)
<1>n. PICK n \in Nat : n = Len(lines)
  OBVIOUS
<1>d. PICK cs : cs = RenderLines(lines)
  OBVIOUS
<1>1. \A i \in 1 .. n : lines[i] \in Seq(Pieces)
  BY <1>n
<1>2. \A i \in 1 .. n : Line(lines[i]) \in Seq(Cmds)
  BY <1>1, LineType
<1>3. cs \in Seq(Seq(Cmds)) /\ Len(cs) = n /\ \A i \in 1 .. n : cs[i] = Line(lines[i])
  <2>t. PICK T : T = Seq(Cmds)
    OBVIOUS
  <2>1. cs \in [1 .. n -> T]
    BY <1>2, <1>d, <1>n, <2>t DEF RenderLines
  <2>2. cs \in Seq(T) /\ Len(cs) = n
    BY <2>1
  <2>3. \A i \in 1 .. n : cs[i] = Line(lines[i])
    BY <1>d, <1>n DEF RenderLines
  <2> QED BY <2>2, <2>3, <2>t
<1>4. PICK h \in [0 .. Len(cs) -> Seq(Cmds)] : Flat(h, cs)
  BY <1>3, FlatExists
<1>5. FlattenSeq(cs) = h[n]
  BY <1>3, <1>4, FlattenIs
<1>6. h[0] = <<>> /\ \A i \in 1 .. n : h[i] = Cat(h[i - 1], cs[i])
  BY <1>3, <1>4 DEF Flat
<1> DEFINE S == {k \in Nat : k <= n => Renders(h[k], SubSeq(lines, 1, k))}
<1>7. 0 \in S
  <2>1. SubSeq(lines, 1, 0) = <<>>
    OBVIOUS
  <2>2. Prints(<<>>, 1, "left", 1, "left", <<>>)
    BY PrintsNothing
  <2>3. LinesIn(<<>>) = <<>>
    BY DEF LinesIn
  <2>4. Renders(<<>>, <<>>)
    BY <2>2, <2>3 DEF Renders
  <2> QED BY <1>6, <2>1, <2>4
<1>8. ASSUME NEW k \in Nat, k \in S PROVE k + 1 \in S
  <2> SUFFICES ASSUME k + 1 <= n PROVE Renders(h[k + 1], SubSeq(lines, 1, k + 1))
    OBVIOUS
  <2>1. k + 1 \in 1 .. n /\ (k + 1) - 1 = k /\ k <= n
    OBVIOUS
  <2>2. h[k + 1] = Cat(h[k], Line(lines[k + 1]))
    BY <1>3, <1>6, <2>1
  <2>3. Renders(h[k], SubSeq(lines, 1, k))
    BY <1>8, <2>1
  <2>4. Renders(Line(lines[k + 1]), <<lines[k + 1]>>)
    BY <1>1, <2>1, RendersLine
  <2>5. SubSeq(lines, 1, k + 1) = Cat(SubSeq(lines, 1, k), <<lines[k + 1]>>)
    BY <1>n, PrefixNext
  <2> QED BY <2>2, <2>3, <2>4, <2>5, RendersCat
<1> HIDE DEF S
<1>9. n \in S
  BY <1>7, <1>8, Induction
<1>10. SubSeq(lines, 1, n) = lines
  BY <1>n, PrefixAll
<1>11. Renders(h[n], SubSeq(lines, 1, n))
  BY <1>9 DEF S
<1>12. Renders(FlattenSeq(cs), lines)
  BY <1>5, <1>10, <1>11
<1> QED
  BY <1>12, <1>d

-----------------------------------------------------------------------------
(* The sections of this receipt. *)

Env == [base |-> BaseSize, width |-> settings.width, bold |-> settings.bold_labels,
        nights |-> Nights, total |-> reservation.price_total]
Typed == reservation \in Reservations /\ settings \in Settings

LEMMA TypedIs ==
  ASSUME Typed
  PROVE  /\ reservation.letters \in Alphabets /\ reservation.guest_name \in Nat /\ reservation.external_ref \in Nat
         /\ reservation.room_type \in Seq(Chunk) /\ reservation.assigned \in OrNone(Nat)
         /\ reservation.room_lines \in Seq(RoomLines)
         /\ reservation.checkin \in Int /\ reservation.checkout \in Int
         /\ reservation.guests \in Int /\ reservation.price_total \in OrNone(Int)
         /\ settings.width \in Nat \ {0} /\ settings.bold_labels \in BOOLEAN
BY ReceiptAssumption DEF Typed

LEMMA NightsIs ==
  ASSUME Typed
  PROVE  Nights \in Nat
BY TypedIs DEF Nights

LEMMA EnvIs ==
  ASSUME Typed
  PROVE  /\ Sane(Env) /\ Env.width = settings.width /\ Env.bold = settings.bold_labels
         /\ Env.nights = Nights /\ Env.total = reservation.price_total /\ Env.base = BaseSize
         /\ BaseSize \in Int
<1>1. BaseSize \in Int
  BY DEF BaseSize
<1>2. /\ Env.width = settings.width /\ Env.bold = settings.bold_labels
      /\ Env.nights = Nights /\ Env.total = reservation.price_total /\ Env.base = BaseSize
  BY DEF Env
<1> QED
  BY <1>1, <1>2, NightsIs, TypedIs DEF Sane

\* The labels of the receipt, its values and its numbers.
LabelNames == {"Gost:", "Sobe:", "Nights:", "Per night:", "Line total:", "From:", "To:", "SKUPAJ:",
               "Povp./noc:", "Reservation nr.:"}
Ordinary == {"guest_name", "nights", "per_night", "line_total", "checkin", "checkout", "GOSTI",
             "total", "external_ref", "Printed", "label", "blanks", "-"}

LEMMA OrdinaryIs ==
  ASSUME NEW kind \in Kinds, NEW what \in LabelNames \cup Ordinary, NEW len \in Nat, NEW n \in Int,
         NEW p, p = Piece(kind, what, len, n), NEW e
  PROVE  p \in Pieces /\ p.kind = kind /\ p.len = len /\ p.n = n /\ p.what = what /\ FairPiece(p, e)
<1>1. what \in DOMAIN LabelLen \cup Values
  <2>1. CASE what \in LabelNames
    BY <2>1, ReceiptAssumption DEF LabelNames
  <2>2. CASE what \in Ordinary
    BY <2>2 DEF Ordinary, Values
  <2> QED BY <2>1, <2>2
<1>2. p.kind = kind /\ p.len = len /\ p.n = n /\ p.what = what
  BY DEF Piece
<1>3. what # "*** PREKLICANO ***" /\ what # "NOCI" /\ what # "average"
  BY DEF LabelNames, Ordinary
<1> QED
  BY <1>1, <1>2, <1>3, PieceType DEF FairPiece

LEMMA LabelIs ==
  ASSUME NEW l \in LabelNames, NEW e
  PROVE  Label(l) \in Pieces /\ Label(l).kind = "label" /\ FairPiece(Label(l), e)
<1>1. LabelLen[l] \in Nat
  BY ReceiptAssumption DEF LabelNames
<1>2. "label" \in Kinds /\ 0 \in Int
  BY DEF Kinds
<1> QED
  BY <1>1, <1>2, OrdinaryIs DEF Label

LEMMA ValueIs ==
  ASSUME NEW what \in Ordinary, NEW len \in Nat, NEW e
  PROVE  Value(what, len) \in Pieces /\ Value(what, len).kind = "value"
         /\ FairPiece(Value(what, len), e)
<1>1. "value" \in Kinds /\ 0 \in Int
  BY DEF Kinds
<1> QED
  BY <1>1, OrdinaryIs DEF Value

LEMMA MailedIs ==
  ASSUME Typed, NEW what \in Ordinary, NEW len \in Nat, NEW e
  PROVE  Mailed(what, len) \in Pieces /\ Mailed(what, len).kind = "value"
         /\ FairPiece(Mailed(what, len), e)
<1>p. PICK p, q : p = Value(what, len) /\ q = In(reservation.letters, p)
  OBVIOUS
<1>1. p \in Pieces /\ p.kind = "value" /\ FairPiece(p, e)
  BY <1>p, ValueIs
<1>2. reservation.letters \in Alphabets
  BY TypedIs
<1>3. q \in Pieces /\ q.kind = p.kind /\ q.what = p.what /\ q.n = p.n
  BY <1>1, <1>2, <1>p, InIs
<1>4. q = Mailed(what, len)
  BY <1>p DEF Mailed
<1> QED
  BY <1>1, <1>3, <1>4 DEF FairPiece

LEMMA NumberIs ==
  ASSUME NEW what \in Ordinary, NEW n \in Int, NEW e
  PROVE  Number(what, n) \in Pieces /\ Number(what, n).kind = "value" /\ FairPiece(Number(what, n), e)
<1>1. "value" \in Kinds /\ AmountLen \in Nat
  BY ReceiptAssumption DEF Kinds
<1> QED
  BY <1>1, OrdinaryIs DEF Number

\* A label with its value.
LEMMA GoodPair ==
  ASSUME Typed, NEW k \in Pieces, k.kind = "label", FairPiece(k, Env),
         NEW value \in Pieces, value.kind = "value", FairPiece(value, Env)
  PROVE  GoodPart(Kv(k, value), Env)
<1>k. PICK n, e : n = GapLen(k, value) /\ e = Env
  OBVIOUS
<1>1. k \in Pieces /\ k.kind = "label" /\ FairPiece(k, e)
  BY <1>k
<1>2. e.width = settings.width /\ Sane(e) /\ e.bold = settings.bold_labels /\ e.width \in Nat \ {0}
  BY <1>k, EnvIs DEF Sane
<1>3. k.len \in Nat /\ value.len \in Nat
  BY <1>1 DEF Pieces
<1>4. n \in Nat /\ n >= 1 /\ (n = 1 \/ k.len + n + value.len = e.width)
  BY <1>k, <1>2, <1>3 DEF GapLen
<1>5. Kv(k, value).lines = <<KvPieces(k, 1, value)>> /\ Kv(k, value).cmds = KvLine(k, value)
  BY <1>k DEF Kv, KvPieces
<1>6. CASE settings.bold_labels
  <2>1. KvLine(k, value) = Cat(Cat(Cat(Cmd("bold", TRUE), Cmd("text", <<k>>)), Cmd("bold", FALSE)),
                               Line(<<Gap(n), value>>))
    BY <1>k, <1>6 DEF KvLine, Cat
  <2>2. e.bold
    BY <1>2, <1>6
  <2>3. Good(KvLine(k, value), <<KvPieces(k, 1, value)>>, e)
    BY <1>1, <1>2, <1>4, <1>k, <2>1, <2>2, GoodKvBold
  <2> QED BY <1>5, <1>k, <2>3 DEF GoodPart
<1>7. CASE ~settings.bold_labels
  <2>1. KvLine(k, value) = Line(<<k>> \o <<Gap(n), value>>)
    BY <1>k, <1>7 DEF KvLine
  <2>2. <<k>> \o <<Gap(n), value>> = KvPieces(k, n, value)
    BY <1>1, <1>4, KvIs DEF Cat
  <2>3. Good(Line(KvPieces(k, n, value)), <<KvPieces(k, 1, value)>>, e)
    BY <1>1, <1>2, <1>4, <1>k, GoodKvPlain
  <2> QED BY <1>5, <1>k, <2>1, <2>2, <2>3 DEF GoodPart
<1> QED
  BY <1>6, <1>7

LEMMA GoodKv ==
  ASSUME Typed, NEW l \in LabelNames, NEW value \in Pieces, value.kind = "value",
         FairPiece(value, Env)
  PROVE  GoodPart(Kv(Label(l), value), Env)
BY LabelIs, GoodPair

\* A line on both, nothing at all, and the divider, of which the text may say nothing.
LEMMA GoodPlain ==
  ASSUME Typed, NEW l \in Seq(Pieces), Fair(l, Env), Fits(l, Env)
  PROVE  GoodPart(Plain(l), Env)
<1>1. Good(Line(l), <<l>>, Env)
  BY EnvIs, GoodLine
<1> QED
  BY <1>1 DEF GoodPart, Plain

LEMMA GoodNone == GoodPart(Nothing, Env)
BY GoodNothing DEF GoodPart, Nothing

LEMMA GoodWhen ==
  ASSUME NEW part, GoodPart(part, Env), NEW condition \in BOOLEAN
  PROVE  GoodPart(When(condition, part), Env)
BY GoodNone DEF When

DividerLine == <<Piece("divider", "-", settings.width, 0)>>

LEMMA DividerIs ==
  ASSUME Typed
  PROVE  /\ DividerLine \in Seq(Pieces) /\ Fair(DividerLine, Env) /\ Fits(DividerLine, Env)
         /\ Heard(DividerLine) = <<>> /\ Divider = Line(DividerLine)
<1>p. PICK p : p = Piece("divider", "-", settings.width, 0)
  OBVIOUS
<1>1. "divider" \in Kinds /\ 0 \in Int /\ "-" \in Ordinary /\ settings.width \in Nat
  BY TypedIs DEF Kinds, Ordinary
<1>2. p \in Pieces /\ p.kind = "divider" /\ FairPiece(p, Env)
  BY <1>1, <1>p, OrdinaryIs
<1>3. <<p>> \in Seq(Pieces) /\ DOMAIN <<p>> = {1} /\ <<p>>[1] = p
  BY <1>2
<1>4. Fair(<<p>>, Env) /\ Fits(<<p>>, Env) /\ Silent(<<p>>)
  BY <1>2, <1>3 DEF Fair, Fits, Silent
<1> QED
  BY <1>3, <1>4, <1>p DEF DividerLine, Heard, Divider

LEMMA GoodDivider ==
  ASSUME Typed
  PROVE  /\ GoodPart([cmds |-> Divider, lines |-> <<DividerLine>>], Env)
         /\ Good(Divider, <<>>, Env)
<1>1. Good(Divider, <<DividerLine>>, Env) /\ Good(Divider, <<>>, Env)
  BY DividerIs, EnvIs, GoodLine, GoodUnsaid
<1> QED
  BY <1>1 DEF GoodPart

\* A few parts.
LEMMA GoodFew ==
  ASSUME NEW e, NEW a, NEW b, NEW c, NEW d,
         GoodPart(a, e), GoodPart(b, e), GoodPart(c, e), GoodPart(d, e)
  PROVE  /\ GoodPart(Both(<<>>), e) /\ GoodPart(Both(<<a>>), e) /\ GoodPart(Both(<<a, b>>), e)
         /\ GoodPart(Both(<<a, b, c>>), e) /\ GoodPart(Both(<<a, b, c, d>>), e)
<1>0. GoodPart(Both(<<>>), e)
  BY GoodBoth
<1>1. GoodPart(Both(<<a>>), e)
  <2>p. PICK p : p = <<a>>
    OBVIOUS
  <2>1. Len(p) = 1 /\ p[1] = a
    BY <2>p
  <2>2. \A i \in 1 .. Len(p) : GoodPart(p[i], e)
    BY <2>1
  <2> QED BY <2>1, <2>2, <2>p, GoodBoth
<1>2. GoodPart(Both(<<a, b>>), e)
  <2>p. PICK p : p = <<a, b>>
    OBVIOUS
  <2>1. Len(p) = 2 /\ p[1] = a /\ p[2] = b
    BY <2>p
  <2>2. \A i \in 1 .. Len(p) : GoodPart(p[i], e)
    BY <2>1
  <2> QED BY <2>1, <2>2, <2>p, GoodBoth
<1>3. GoodPart(Both(<<a, b, c>>), e)
  <2>p. PICK p : p = <<a, b, c>>
    OBVIOUS
  <2>1. Len(p) = 3 /\ p[1] = a /\ p[2] = b /\ p[3] = c
    BY <2>p
  <2>2. \A i \in 1 .. Len(p) : GoodPart(p[i], e)
    BY <2>1
  <2> QED BY <2>1, <2>2, <2>p, GoodBoth
<1>4. GoodPart(Both(<<a, b, c, d>>), e)
  <2>p. PICK p : p = <<a, b, c, d>>
    OBVIOUS
  <2>1. Len(p) = 4 /\ p[1] = a /\ p[2] = b /\ p[3] = c /\ p[4] = d
    BY <2>p
  <2>2. \A i \in 1 .. Len(p) : GoodPart(p[i], e)
    BY <2>1
  <2> QED BY <2>1, <2>2, <2>p, GoodBoth
<1> QED
  BY <1>0, <1>1, <1>2, <1>3, <1>4

\* A room label, wrapped: each line is one of letters that fits, or has no letter.
LEMMA RoomLabelType ==
  ASSUME NEW type \in Seq(Chunk), NEW assigned \in OrNone(Nat)
  PROVE  RoomLabel(type, assigned) \in Seq(Chunk)
<1>1. CASE assigned = None
  BY <1>1 DEF RoomLabel
<1>2. CASE assigned # None
  <2>1. assigned \in Nat
    BY <1>2 DEF OrNone
  <2>2. Space \in Chunk /\ Word(5) \in Chunk /\ Word(assigned + 1) \in Chunk
    BY <2>1 DEF Space, Word, Chunk
  <2>t. PICK t : t = <<Space, Word(5), Space, Word(assigned + 1)>>
    OBVIOUS
  <2>3. t \in Seq(Chunk)
    BY <2>2, <2>t
  <2>4. type \o t \in Seq(Chunk)
    BY <2>3
  <2> QED BY <1>2, <2>4, <2>t DEF RoomLabel
<1> QED
  BY <1>1, <1>2

Indent == Piece("indent", "blanks", 2, 0)

LEMMA LabelLineIs ==
  ASSUME NEW e, Sane(e), NEW c \in Seq(Chunk), Letters(c) > 0 => Total(c) <= e.width,
         NEW letters \in Alphabets, NEW p, p = In(letters, Piece("room", "label", Total(c), Letters(c))),
         NEW l, l = <<p>> \/ l = <<Indent, p>>
  PROVE  l \in Seq(Pieces) /\ Fair(l, e) /\ Fits(l, e)
<1>1. Total(c) \in Nat
  BY TextType
<1>2. Letters(c) \in Nat
  <2>1. c \in Seq(Chunk) /\ <<>> \in Seq(Chunk)
    OBVIOUS
  <2> QED BY <2>1, LettersConcat
<1>3. "room" \in Kinds /\ "indent" \in Kinds /\ "label" \in Ordinary /\ "blanks" \in Ordinary
  BY DEF Kinds, Ordinary
<1>4. /\ p \in Pieces /\ p.kind = "room" /\ p.len = Total(c) /\ p.n = Letters(c) /\ FairPiece(p, e)
  <2>t. PICK m \in Nat, k \in Int : m = Total(c) /\ k = Letters(c)
    BY <1>1, <1>2
  <2>p. PICK q : q = Piece("room", "label", m, k)
    OBVIOUS
  <2>1. q \in Pieces /\ q.kind = "room" /\ q.len = m /\ q.n = k /\ FairPiece(q, e)
    BY <1>3, <2>p, OrdinaryIs
  <2>2. p = In(letters, q)
    BY <2>p, <2>t
  <2>3. p \in Pieces /\ p.kind = q.kind /\ p.what = q.what /\ p.len = q.len /\ p.n = q.n
    BY <2>1, <2>2, InIs
  <2> QED BY <2>1, <2>3, <2>t DEF FairPiece
<1>i. PICK i : i = Indent
  OBVIOUS
<1>5. i \in Pieces /\ i.kind = "indent" /\ FairPiece(i, e)
  BY <1>3, <1>i, OrdinaryIs DEF Indent
<1>6. CASE l = <<p>>
  <2>1. l \in Seq(Pieces) /\ DOMAIN l = {1} /\ l[1] = p
    BY <1>4, <1>6
  <2> QED BY <1>4, <2>1 DEF Fair, Fits
<1>7. CASE l = <<Indent, p>>
  <2>1. l \in Seq(Pieces) /\ DOMAIN l = {1, 2} /\ l[1] = i /\ l[2] = p
    BY <1>4, <1>5, <1>7, <1>i
  <2> QED BY <1>4, <1>5, <2>1 DEF Fair, Fits
<1> QED
  BY <1>6, <1>7

LEMMA GoodLabel ==
  ASSUME Typed, NEW c \in Seq(Chunk)
  PROVE  GoodPart(LabelLines(c), Env)
<1>w. PICK w, n, e : w = Wrap(c, settings.width) /\ n = Len(w) /\ e = Env
  OBVIOUS
<1>1. w \in Seq(Seq(Chunk)) /\ \A i \in DOMAIN w : Letters(w[i]) > 0 => Total(w[i]) <= settings.width
  BY <1>w, TypedIs, WrapIs
<1>2. n \in Nat /\ DOMAIN w = 1 .. n
  BY <1>1, <1>w
<1>e. Sane(e) /\ e.width = settings.width
  BY <1>w, EnvIs
<1> DEFINE l(i) == (IF i = 1 THEN <<>> ELSE <<Piece("indent", "blanks", 2, 0)>>)
                     \o <<In(reservation.letters,
                            Piece("room", "label", Total(w[i]), Letters(w[i])))>>
<1>3. ASSUME NEW i \in 1 .. n PROVE l(i) \in Seq(Pieces) /\ Fair(l(i), e) /\ Fits(l(i), e)
  <2>p. PICK p, t : /\ p = In(reservation.letters, Piece("room", "label", Total(w[i]), Letters(w[i])))
                    /\ t = w[i]
    OBVIOUS
  <2>1. t \in Seq(Chunk) /\ (Letters(t) > 0 => Total(t) <= e.width)
    BY <1>1, <1>2, <1>e, <2>p, SMTT(30)
  <2>2. <<>> \o <<p>> = <<p>>
    BY CatEmpty DEF Cat
  <2>3. <<Indent>> \o <<p>> = <<Indent, p>>
    <3>t. PICK T : T = {Indent, p}
      OBVIOUS
    <3>1. Indent \in T /\ p \in T
      BY <3>t
    <3> QED BY <3>1, CatTwo DEF Cat
  <2>4. l(i) = <<p>> \/ l(i) = <<Indent, p>>
    BY <2>2, <2>3, <2>p DEF Indent
  <2> HIDE DEF l
  <2>5. reservation.letters \in Alphabets
    BY TypedIs
  <2> QED BY <1>e, <2>1, <2>4, <2>5, <2>p, LabelLineIs
<1> HIDE DEF l
<1>4. \A i \in 1 .. n : GoodPart(Plain(l(i)), e)
  BY <1>3, <1>w, GoodPlain
<1>p. PICK parts : parts = [i \in 1 .. n |-> Plain(l(i))]
  OBVIOUS
<1>5. Len(parts) = n /\ \A i \in 1 .. n : parts[i] = Plain(l(i))
  BY <1>2, <1>p
<1>6. GoodPart(Both(parts), e)
  BY <1>2, <1>4, <1>5, GoodBoth
<1>7. LabelLines(c) = Both(parts)
  BY <1>p, <1>w DEF LabelLines, l
<1> QED
  BY <1>6, <1>7, <1>w

\* One line of a room.
LEMMA GoodAmount ==
  ASSUME Typed, NEW l \in LabelNames, NEW what \in Ordinary, NEW n \in OrNone(Int)
  PROVE  GoodPart(When(n # None, Kv(Label(l), Number(what, n))), Env)
<1>1. CASE n = None
  BY <1>1, GoodNone DEF When
<1>2. CASE n # None
  <2>1. n \in Int
    BY <1>2 DEF OrNone
  <2>2. /\ Number(what, n) \in Pieces /\ Number(what, n).kind = "value"
        /\ FairPiece(Number(what, n), Env)
    BY <2>1, NumberIs
  <2>3. GoodPart(Kv(Label(l), Number(what, n)), Env)
    BY <2>2, GoodKv
  <2> QED BY <1>2, <2>3 DEF When
<1> QED
  BY <1>1, <1>2

LEMMA GoodRoomLine ==
  ASSUME Typed, NEW l \in RoomLines
  PROVE  GoodPart(RoomLine(l), Env)
<1>1. /\ l.type \in Seq(Chunk) /\ l.assigned \in OrNone(Nat) /\ l.nights \in OrNone(Int)
      /\ l.per_night \in OrNone(Int) /\ l.total \in OrNone(Int)
  BY DEF RoomLines
<1>2. GoodPart(LabelLines(RoomLabel(l.type, l.assigned)), Env)
  BY <1>1, RoomLabelType, GoodLabel
<1>3. /\ "Nights:" \in LabelNames /\ "Per night:" \in LabelNames /\ "Line total:" \in LabelNames
      /\ "nights" \in Ordinary /\ "per_night" \in Ordinary /\ "line_total" \in Ordinary
  BY DEF LabelNames, Ordinary
<1>4. /\ GoodPart(When(l.nights # None, Kv(Label("Nights:"), Number("nights", l.nights))), Env)
      /\ GoodPart(When(l.per_night # None, Kv(Label("Per night:"), Number("per_night", l.per_night))), Env)
      /\ GoodPart(When(l.total # None, Kv(Label("Line total:"), Number("line_total", l.total))), Env)
  BY <1>1, <1>3, GoodAmount
<1> QED
  BY <1>2, <1>4, GoodFew, Zenon DEF RoomLine

\* The rooms.
RoomParts ==
  CASE reservation.room_lines # <<>> ->
         <<Plain(<<Label("Sobe:")>>)>>
           \o [i \in 1 .. Len(reservation.room_lines) |-> RoomLine(reservation.room_lines[i])]
    [] reservation.room_lines = <<>> /\ reservation.room_type # <<>> ->
         <<Plain(<<Label("Sobe:")>>),
           LabelLines(RoomLabel(reservation.room_type, reservation.assigned))>>
    [] OTHER -> <<>>

LEMMA GoodRooms ==
  ASSUME Typed
  PROVE  GoodPart(Both(RoomParts), Env)
<1>s. PICK s, p, e : s = Plain(p) /\ p = <<Label("Sobe:")>> /\ e = Env
  OBVIOUS
<1>1. GoodPart(s, e)
  <2>k. PICK k : k = Label("Sobe:")
    OBVIOUS
  <2>1. k \in Pieces /\ k.kind = "label" /\ FairPiece(k, e)
    <3>1. "Sobe:" \in LabelNames
      BY DEF LabelNames
    <3> QED BY <3>1, <2>k, LabelIs
  <2>2. p \in Seq(Pieces) /\ DOMAIN p = {1} /\ p[1] = k
    BY <1>s, <2>1, <2>k
  <2>3. Fair(p, e) /\ Fits(p, e)
    BY <2>1, <2>2 DEF Fair, Fits
  <2> QED BY <1>s, <2>2, <2>3, GoodPlain
<1>l. PICK lines : lines = reservation.room_lines /\ lines \in Seq(RoomLines)
  BY TypedIs
<1>n. PICK n \in Nat : lines = reservation.room_lines /\ n = Len(lines)
  BY <1>l
<1>2. \A i \in 1 .. n : GoodPart(RoomLine(lines[i]), e)
  <2>1. \A i \in 1 .. n : lines[i] \in RoomLines
    BY <1>l, <1>n
  <2> QED BY <1>s, <2>1, GoodRoomLine
<1>3. CASE lines # <<>>
  <2>r. PICK a, b, c : a = <<s>> /\ b = [i \in 1 .. n |-> RoomLine(lines[i])] /\ c = a \o b
    OBVIOUS
  <2>t. PICK T : T = {s} \cup {RoomLine(lines[i]) : i \in 1 .. n}
    OBVIOUS
  <2>1. a \in Seq(T) /\ b \in Seq(T) /\ Len(a) = 1 /\ Len(b) = n
    <3>1. s \in T /\ \A i \in 1 .. n : RoomLine(lines[i]) \in T
      BY <2>t
    <3>2. b \in [1 .. n -> T]
      BY <2>r, <3>1
    <3> QED BY <2>r, <3>1, <3>2
  <2>2. \A x \in T : GoodPart(x, e)
    BY <1>1, <1>2, <2>t
  <2>3. c \in Seq(T)
    BY <2>r, <2>1
  <2>4. Len(c) \in Nat /\ \A i \in 1 .. Len(c) : GoodPart(c[i], e)
    BY <2>2, <2>3
  <2>5. GoodPart(Both(c), e)
    BY <2>4, GoodBoth
  <2>6. RoomParts = c
    BY <1>3, <1>n, <1>s, <2>r DEF RoomParts
  <2> QED BY <1>s, <2>5, <2>6
<1>4. CASE lines = <<>> /\ reservation.room_type # <<>>
  <2>r. PICK r : r = LabelLines(RoomLabel(reservation.room_type, reservation.assigned))
    OBVIOUS
  <2>1. GoodPart(r, e)
    BY <1>s, <2>r, TypedIs, RoomLabelType, GoodLabel
  <2>2. RoomParts = <<s, r>>
    BY <1>4, <1>n, <1>s, <2>r DEF RoomParts
  <2>3. GoodPart(Both(<<s, r>>), e)
    BY <1>1, <2>1, GoodFew
  <2> QED BY <1>s, <2>2, <2>3
<1>5. CASE lines = <<>> /\ reservation.room_type = <<>>
  <2>1. RoomParts = <<>>
    BY <1>5, <1>n DEF RoomParts
  <2>2. GoodPart(Both(<<>>), e)
    BY <1>1, GoodFew
  <2> QED BY <1>s, <2>1, <2>2
<1> QED
  BY <1>3, <1>4, <1>5

\* The price by the nights, rounded half even: as near to the quotient as cents allow.
THEOREM AverageIs ==
  ASSUME NEW t \in Int, NEW n \in Nat \ {0}
  PROVE  Average(t, n) \in Int
         /\ 2 * (n * Average(t, n) - t) <= n /\ -(2 * (n * Average(t, n) - t)) <= n
<1>q. PICK q, r : q = t \div n /\ r = t % n
  OBVIOUS
<1>1. q \in Int /\ r \in Int /\ 0 <= r /\ r < n /\ t = n * q + r
  BY <1>q
<1>2. n * (q + 1) = n * q + n
  BY <1>1
<1>m. PICK m \in Int : m = n * q
  BY <1>1
<1>3. CASE 2 * r > n \/ (2 * r = n /\ q % 2 = 1)
  <2>1. Average(t, n) = q + 1
    BY <1>3, <1>q DEF Average
  <2>2. n * (q + 1) - t = n - r /\ 2 * r >= n
    BY <1>1, <1>2, <1>3, <1>m
  <2>3. 2 * (n - r) <= n /\ -(2 * (n - r)) <= n
    BY <1>1, <2>2
  <2> QED BY <1>1, <2>1, <2>2, <2>3
<1>4. CASE ~(2 * r > n \/ (2 * r = n /\ q % 2 = 1))
  <2>1. Average(t, n) = q
    BY <1>4, <1>q DEF Average
  <2>2. n * q - t = -r /\ 2 * r <= n
    BY <1>1, <1>4, <1>m
  <2>3. 2 * (-r) <= n /\ -(2 * (-r)) <= n
    BY <1>1, <2>2
  <2> QED BY <1>1, <2>1, <2>2, <2>3
<1> QED
  BY <1>3, <1>4

\* Guests and nights.
OnlyValues(line) == \A k \in DOMAIN line : line[k].kind = "value"

LEMMA ValuesFit == ASSUME NEW e, NEW l, OnlyValues(l) PROVE Fits(l, e)
BY DEF OnlyValues, Fits

LEMMA GoodSummary ==
  ASSUME Typed
  PROVE  GoodPart(Both(<<When(SummaryLine # <<>>, Plain(SummaryLine)),
                         [cmds |-> Divider, lines |-> <<DividerLine>>]>>), Env)
<1>e. PICK e, g, n : e = Env /\ g = Number("GOSTI", reservation.guests) /\ n = In("slovene", Number("NOCI", Nights))
  OBVIOUS
<1>1. g \in Pieces /\ g.kind = "value" /\ FairPiece(g, e)
  <2>1. "GOSTI" \in Ordinary
    BY DEF Ordinary
  <2> QED BY <1>e, <2>1, TypedIs, NumberIs
<1>2. n \in Pieces /\ n.kind = "value" /\ FairPiece(n, e)
  <2>1. "value" \in Kinds /\ "NOCI" \in Values /\ AmountLen \in Nat
    BY ReceiptAssumption DEF Kinds, Values
  <2>4. Nights \in Int
    BY NightsIs
  <2>m. PICK m : m = Number("NOCI", Nights)
    OBVIOUS
  <2>5. m \in Pieces
    BY <2>1, <2>4, <2>m, PieceType DEF Number
  <2>6. m.kind = "value" /\ m.what = "NOCI" /\ m.n = Nights
    BY <2>m DEF Number, Piece
  <2>s. PICK s : s = "slovene"
    OBVIOUS
  <2>7. n = In(s, m) /\ s \in Alphabets
    BY <1>e, <2>m, <2>s, Written
  <2>2. n \in Pieces /\ n.kind = m.kind /\ n.what = m.what /\ n.n = m.n
    BY <2>5, <2>7, InIs
  <2>3. n.kind = "value" /\ n.what = "NOCI" /\ n.n = Nights
    BY <2>2, <2>6
  <2> QED BY <2>2, <2>3, NightsIs DEF FairPiece
<1>l. PICK a, b : /\ a = IF settings.show_guests THEN <<g>> ELSE <<>>
                  /\ b = IF settings.show_nights THEN <<n>> ELSE <<>>
  OBVIOUS
<1>3. /\ a \in Seq(Pieces) /\ Fair(a, e) /\ OnlyValues(a)
      /\ b \in Seq(Pieces) /\ Fair(b, e) /\ OnlyValues(b)
  <2>1. /\ <<g>> \in Seq(Pieces) /\ Fair(<<g>>, e) /\ OnlyValues(<<g>>)
        /\ <<n>> \in Seq(Pieces) /\ Fair(<<n>>, e) /\ OnlyValues(<<n>>)
    BY <1>1, <1>2 DEF Fair, OnlyValues
  <2>2. <<>> \in Seq(Pieces) /\ Fair(<<>>, e) /\ OnlyValues(<<>>)
    BY DEF Fair, OnlyValues
  <2> QED BY <1>l, <2>1, <2>2
<1>c. PICK c : c = Cat(a, b)
  OBVIOUS
<1>4. c \in Seq(Pieces) /\ Fair(c, e)
  BY <1>3, <1>c, CatType, FairCat
<1>5. OnlyValues(c)
  <2>1. ASSUME NEW i \in DOMAIN Cat(a, b) PROVE Cat(a, b)[i].kind = "value"
    <3>1. \/ i \in DOMAIN a /\ Cat(a, b)[i] = a[i]
          \/ i - Len(a) \in DOMAIN b /\ Cat(a, b)[i] = b[i - Len(a)]
      BY <1>3, InCat
    <3> QED BY <1>3, <3>1 DEF OnlyValues
  <2> QED BY <1>c, <2>1 DEF OnlyValues
<1>6. Fits(c, e)
  BY <1>5, ValuesFit
<1>7. GoodPart(Plain(c), e)
  BY <1>4, <1>6, <1>e, GoodPlain
<1>8. SummaryLine = c
  BY <1>c, <1>e, <1>l DEF SummaryLine, Cat
<1>d. PICK d, p, condition : /\ d = [cmds |-> Divider, lines |-> <<DividerLine>>] /\ p = Plain(c)
                             /\ condition = (c # <<>>)
  OBVIOUS
<1>9. GoodPart(d, e) /\ GoodPart(When(condition, p), e)
  <2>1. condition \in BOOLEAN
    BY <1>d
  <2> QED BY <1>7, <1>d, <1>e, <2>1, GoodDivider, GoodWhen
<1>10. GoodPart(Both(<<When(condition, p), d>>), e)
  BY <1>9, GoodFew
<1> QED
  BY <1>8, <1>10, <1>d, <1>e

LEMMA GoodDates ==
  ASSUME Typed
  PROVE  GoodPart(Both(<<Kv(Label("From:"), Value("checkin", 10)), Kv(Label("To:"), Value("checkout", 10))>>), Env)
<1>1. /\ "From:" \in LabelNames /\ "To:" \in LabelNames /\ "checkin" \in Ordinary
      /\ "checkout" \in Ordinary /\ 10 \in Nat
  BY DEF LabelNames, Ordinary
<1>v. PICK v, w, e : v = Value("checkin", 10) /\ w = Value("checkout", 10) /\ e = Env
  OBVIOUS
<1>2. /\ v \in Pieces /\ v.kind = "value" /\ FairPiece(v, e)
      /\ w \in Pieces /\ w.kind = "value" /\ FairPiece(w, e)
  BY <1>1, <1>v, ValueIs
<1>3. GoodPart(Kv(Label("From:"), v), e) /\ GoodPart(Kv(Label("To:"), w), e)
  BY <1>1, <1>2, <1>v, GoodKv
<1> QED
  BY <1>3, <1>v, GoodFew

LEMMA GoodGuest ==
  ASSUME Typed
  PROVE  /\ GoodPart(Both(<<Kv(Label("Gost:"), Mailed("guest_name", reservation.guest_name))>>), Env)
         /\ GoodPart(Kv(Label("Reservation nr.:"), Mailed("external_ref", reservation.external_ref)), Env)
<1>1. /\ "Gost:" \in LabelNames /\ "Reservation nr.:" \in LabelNames /\ "guest_name" \in Ordinary
      /\ "external_ref" \in Ordinary /\ reservation.guest_name \in Nat
      /\ reservation.external_ref \in Nat
  BY TypedIs DEF LabelNames, Ordinary
<1>v. PICK v, w, e : /\ v = Mailed("guest_name", reservation.guest_name)
                     /\ w = Mailed("external_ref", reservation.external_ref) /\ e = Env
  OBVIOUS
<1>2. /\ v \in Pieces /\ v.kind = "value" /\ FairPiece(v, e)
      /\ w \in Pieces /\ w.kind = "value" /\ FairPiece(w, e)
  BY <1>1, <1>v, MailedIs
<1>3. GoodPart(Kv(Label("Gost:"), v), e) /\ GoodPart(Kv(Label("Reservation nr.:"), w), e)
  BY <1>1, <1>2, <1>v, GoodKv
<1>4. GoodPart(Both(<<Kv(Label("Gost:"), v)>>), e)
  BY <1>3, GoodFew
<1> QED
  BY <1>3, <1>4, <1>v

\* The total, the average where there is a night, and a divider.
Averaged(lines) == \E i \in DOMAIN lines : \E k \in DOMAIN lines[i] : lines[i][k].what = "average"

AverageLabel == In("slovene", Label("Povp./noc:"))

LEMMA AverageLabelIs ==
  ASSUME NEW e
  PROVE  AverageLabel \in Pieces /\ AverageLabel.kind = "label" /\ FairPiece(AverageLabel, e)
<1>1. "Povp./noc:" \in LabelNames
  BY DEF LabelNames
<1>l. PICK l : l = Label("Povp./noc:")
  OBVIOUS
<1>2. l \in Pieces /\ l.kind = "label" /\ FairPiece(l, e)
  BY <1>1, <1>l, LabelIs
<1>3. AverageLabel = In("slovene", l)
  BY <1>l DEF AverageLabel
<1>4. PICK q, s : q = AverageLabel /\ s = "slovene"
  OBVIOUS
<1>6. q = In(s, l) /\ s \in Alphabets
  BY <1>3, <1>4, Written
<1>5. q \in Pieces /\ q.kind = l.kind /\ q.what = l.what /\ q.n = l.n
  BY <1>2, <1>6, InIs
<1> QED
  BY <1>2, <1>4, <1>5 DEF FairPiece

LEMMA GoodPrice ==
  ASSUME Typed, reservation.price_total # None
  PROVE  GoodPart(Both(PriceLines), Env)
<1>e. PICK e, t, n : e = Env /\ t = reservation.price_total /\ n = Nights
  OBVIOUS
<1>1. t \in Int /\ n \in Nat /\ e.nights = n /\ e.total = t
  BY <1>e, TypedIs, NightsIs, EnvIs DEF OrNone
<1>2. /\ "SKUPAJ:" \in LabelNames /\ "Povp./noc:" \in LabelNames /\ "total" \in Ordinary
  BY DEF LabelNames, Ordinary
<1>3. GoodPart(Kv(Label("SKUPAJ:"), Number("total", t)), e)
  <2>v. PICK v : v = Number("total", t)
    OBVIOUS
  <2>1. v \in Pieces /\ v.kind = "value" /\ FairPiece(v, e)
    BY <1>1, <1>2, <2>v, NumberIs
  <2> QED BY <1>2, <1>e, <2>1, <2>v, GoodKv
<1>4. GoodPart(IF n > 0 THEN Kv(AverageLabel, Number("average", Average(t, n))) ELSE Nothing, e)
  <2>1. CASE n > 0
    <3>v. PICK v, a : v = Number("average", a) /\ a = Average(t, n)
      OBVIOUS
    <3>1. a \in Int /\ 2 * (n * a - t) <= n /\ -(2 * (n * a - t)) <= n
      BY <1>1, <2>1, <3>v, AverageIs
    <3>2. "value" \in Kinds /\ "average" \in Values /\ AmountLen \in Nat
      BY ReceiptAssumption DEF Kinds, Values
    <3>3. v \in Pieces
      BY <3>1, <3>2, <3>v, PieceType DEF Number
    <3>4. v.kind = "value" /\ v.what = "average" /\ v.n = a
      BY <3>v DEF Number, Piece
    <3>5. IsAverage(v.n, e)
      BY <1>1, <2>1, <3>1, <3>4 DEF IsAverage
    <3>6. FairPiece(v, e)
      BY <3>4, <3>5 DEF FairPiece
    <3>7. GoodPart(Kv(AverageLabel, v), e)
      BY <1>e, <3>3, <3>4, <3>6, AverageLabelIs, GoodPair
    <3> QED BY <2>1, <3>7, <3>v
  <2>2. CASE ~(n > 0)
    BY <1>e, <2>2, GoodNone
  <2> QED BY <2>1, <2>2
<1>d. PICK d : d = [cmds |-> Divider, lines |-> <<DividerLine>>]
  OBVIOUS
<1>5. GoodPart(d, e)
  BY <1>d, <1>e, GoodDivider
<1>6. GoodPart(Both(<<Kv(Label("SKUPAJ:"), Number("total", t)),
                      IF n > 0 THEN Kv(AverageLabel, Number("average", Average(t, n))) ELSE Nothing,
                      d>>), e)
  BY <1>3, <1>4, <1>5, GoodFew
<1> QED
  BY <1>6, <1>d, <1>e DEF PriceLines, AverageLabel, DividerLine

\* What is in a part is in the whole.
LEMMA IntoCat ==
  ASSUME NEW T, NEW a \in Seq(T), NEW b \in Seq(T)
  PROVE  /\ \A i \in DOMAIN a : i \in DOMAIN Cat(a, b) /\ Cat(a, b)[i] = a[i]
         /\ \A i \in DOMAIN b : Len(a) + i \in DOMAIN Cat(a, b) /\ Cat(a, b)[Len(a) + i] = b[i]
<1>u. PICK u : u = Cat(a, b)
  OBVIOUS
<1>n. PICK m \in Nat, n \in Nat : m = Len(a) /\ n = Len(b)
  OBVIOUS
<1>0. u \in Seq(T) /\ IsJoin(u, a, b)
  BY <1>u, CatIs
<1>1. /\ Len(u) = m + n
      /\ \A k \in 1 .. m : u[k] = a[k]
      /\ \A k \in 1 .. n : u[m + k] = b[k]
  BY <1>0, <1>n DEF IsJoin
<1>2. DOMAIN a = 1 .. m /\ DOMAIN b = 1 .. n /\ DOMAIN u = 1 .. m + n
  BY <1>0, <1>1, <1>n
<1>3. /\ \A i \in 1 .. m : i \in 1 .. m + n
      /\ \A i \in 1 .. n : m + i \in 1 .. m + n
  OBVIOUS
<1> QED
  BY <1>1, <1>2, <1>3, <1>n, <1>u

LEMMA AveragedCat ==
  ASSUME NEW a \in Seq(Seq(Pieces)), NEW b \in Seq(Seq(Pieces)), Averaged(a) \/ Averaged(b)
  PROVE  Averaged(Cat(a, b))
<1>u. PICK u, n : u = Cat(a, b) /\ n = Len(a)
  OBVIOUS
<1>1. /\ \A i \in DOMAIN a : i \in DOMAIN u /\ u[i] = a[i]
      /\ \A i \in DOMAIN b : n + i \in DOMAIN u /\ u[n + i] = b[i]
  BY <1>u, IntoCat
<1>2. CASE Averaged(a)
  BY <1>1, <1>2, <1>u DEF Averaged
<1>3. CASE Averaged(b)
  <2>1. PICK i \in DOMAIN b : \E k \in DOMAIN b[i] : b[i][k].what = "average"
    BY <1>3 DEF Averaged
  <2>2. n + i \in DOMAIN u /\ u[n + i] = b[i]
    BY <1>1
  <2>3. \E k \in DOMAIN u[n + i] : u[n + i][k].what = "average"
    BY <2>1, <2>2
  <2>4. Averaged(u)
    BY <2>2, <2>3 DEF Averaged
  <2> QED BY <2>4, <1>u
<1> QED
  BY <1>2, <1>3

LEMMA FlattenThree ==
  ASSUME NEW T, NEW a \in Seq(T), NEW b \in Seq(T), NEW c \in Seq(T)
  PROVE  FlattenSeq(<<a, b, c>>) = Cat(a, Cat(b, c))
<1>t. PICK U : U = Seq(T)
  OBVIOUS
<1>1. <<a, b, c>> = <<a>> \o <<b, c>> /\ <<b, c>> = <<b>> \o <<c>>
  BY <1>t, CatTwo, CatThree, ZenonT(60) DEF Cat
<1>2. <<a>> \in Seq(Seq(T)) /\ <<b>> \in Seq(Seq(T)) /\ <<c>> \in Seq(Seq(T))
      /\ <<b, c>> \in Seq(Seq(T))
  OBVIOUS
<1>3. FlattenSeq(<<a>>) = a /\ FlattenSeq(<<b>>) = b /\ FlattenSeq(<<c>>) = c
  BY FlattenOne
<1>4. FlattenSeq(<<b>> \o <<c>>) = FlattenSeq(<<b>>) \o FlattenSeq(<<c>>)
  BY <1>2, FlattenConcat
<1>5. FlattenSeq(<<a>> \o <<b, c>>) = FlattenSeq(<<a>>) \o FlattenSeq(<<b, c>>)
  BY <1>2, FlattenConcat
<1> QED
  BY <1>1, <1>3, <1>4, <1>5 DEF Cat

LEMMA PriceIsAveraged ==
  ASSUME Typed, reservation.price_total # None, Nights > 0
  PROVE  Averaged(Both(PriceLines).lines)
<1>v. PICK v, k, a, b, c : /\ v = Number("average", Average(reservation.price_total, Nights))
                           /\ k = KvPieces(AverageLabel, 1, v)
                           /\ a = Kv(Label("SKUPAJ:"), Number("total", reservation.price_total)).lines
                           /\ b = <<k>> /\ c = <<DividerLine>>
  OBVIOUS
<1>p. PICK p : p = PriceLines
  OBVIOUS
<1>1. Len(p) = 3 /\ p[1].lines = a /\ p[2].lines = b /\ p[3].lines = c
  BY <1>p, <1>v DEF PriceLines, Kv, KvPieces, AverageLabel, DividerLine
<1>2. Both(p).lines = FlattenSeq([i \in 1 .. 3 |-> p[i].lines])
  BY <1>1 DEF Both
<1>3. [i \in 1 .. 3 |-> p[i].lines] = <<a, b, c>>
  BY <1>1
<1>4. a \in Seq(Seq(Pieces)) /\ b \in Seq(Seq(Pieces)) /\ c \in Seq(Seq(Pieces))
  <2>1. \A q \in Pieces : \A l \in LabelNames : Kv(Label(l), q).lines \in Seq(Seq(Pieces))
    <3>1. ASSUME NEW q \in Pieces, NEW l \in LabelNames PROVE Kv(Label(l), q).lines \in Seq(Seq(Pieces))
      <4>1. Label(l) \in Pieces /\ 1 \in Nat
        BY LabelIs
      <4>2. KvPieces(Label(l), 1, q) \in Seq(Pieces)
        BY <4>1, KvIs
      <4>3. Kv(Label(l), q).lines = <<KvPieces(Label(l), 1, q)>>
        BY DEF Kv, KvPieces
      <4> QED BY <4>2, <4>3
    <3> QED BY <3>1
  <2>2. "SKUPAJ:" \in LabelNames /\ "Povp./noc:" \in LabelNames /\ "total" \in Ordinary
        /\ "value" \in Kinds /\ "average" \in Values
    BY DEF LabelNames, Ordinary, Kinds, Values
  <2>t. PICK t \in Int, n \in Nat \ {0} : t = reservation.price_total /\ n = Nights
    BY TypedIs, NightsIs DEF OrNone
  <2>3. Number("total", t) \in Pieces
    BY <2>2, NumberIs
  <2>4. v \in Pieces
    <3>1. Average(t, n) \in Int
      BY AverageIs
    <3>2. AmountLen \in Nat
      BY ReceiptAssumption
    <3> QED BY <1>v, <2>2, <2>t, <3>1, <3>2, PieceType DEF Number
  <2>5. a \in Seq(Seq(Pieces))
    BY <1>v, <2>1, <2>2, <2>3, <2>t
  <2>6. b \in Seq(Seq(Pieces))
    <3>1. AverageLabel \in Pieces /\ 1 \in Nat
      BY AverageLabelIs
    <3>2. k \in Seq(Pieces)
      BY <1>v, <2>4, <3>1, KvIs
    <3> QED BY <1>v, <3>2
  <2>7. c \in Seq(Seq(Pieces))
    BY <1>v, DividerIs
  <2> QED BY <2>5, <2>6, <2>7
<1>5. Averaged(b)
  <2>1. b[1] = k /\ 1 \in DOMAIN b
    BY <1>v
  <2>2. k[3] = v /\ 3 \in DOMAIN k
    BY <1>v DEF KvPieces
  <2>3. v.what = "average"
    BY <1>v DEF Number, Piece
  <2> QED BY <2>1, <2>2, <2>3 DEF Averaged
<1>6. Averaged(Cat(a, Cat(b, c)))
  BY <1>4, <1>5, AveragedCat, CatType
<1> QED
  BY <1>2, <1>3, <1>4, <1>6, <1>p, FlattenThree

-----------------------------------------------------------------------------
(* The head and the foot of the receipt. *)

Start == Cat(Cat(Cmd("init", StationEncoding), Cmd("font", 0)), Cmd("size", BaseSize))
BannerAtTop == IF Cancelled THEN CancelledBanner ELSE <<>>
BannerAtBottom ==
  IF Cancelled THEN Cat(Cat(Cmd("align", "center"), CancelledBanner), Cmd("align", "left")) ELSE <<>>
Top == Cat(Cat(Cat(Cat(Cmd("align", "center"), BoldLine(HeaderLine)), BannerAtTop), Divider),
           Cmd("align", "left"))
TopText == Cat(<<HeaderLine>>, IF Cancelled THEN <<Banner>> ELSE <<>>)
Foot == Cat(Cat(Line(TimeOfPrinting), Cmd("newline", 3)), Cmd("cut", 0))

HeaderPrinted == Printed(HeaderLine, {Mark(BaseSize, "center", TRUE)})
BannerPrinted == Printed(Banner, {Mark(3, "center", TRUE)})
DividerPrinted == Printed(DividerLine, {Mark(BaseSize, "center", FALSE)})
BannersPrinted == IF Cancelled THEN <<BannerPrinted>> ELSE <<>>
TopPrinted == Cat(Cat(<<HeaderPrinted>>, BannersPrinted), <<DividerPrinted>>)

\* The lines of the head.
LEMMA BannerIs ==
  /\ Banner \in Seq(Pieces) /\ Len(Banner) = 1 /\ DOMAIN Banner = {1}
  /\ Banner[1].what = "*** PREKLICANO ***" /\ Banner[1].kind = "value" /\ OnlyValues(Banner)
<1>p. PICK p : p = Value("*** PREKLICANO ***", 18)
  OBVIOUS
<1>1. "value" \in Kinds /\ "*** PREKLICANO ***" \in Values
  BY DEF Kinds, Values
<1>2. p \in Pieces
  <2>1. 18 \in Nat /\ 0 \in Int
    OBVIOUS
  <2> QED BY <1>1, <1>p, <2>1, PieceType DEF Value
<1>3. p.what = "*** PREKLICANO ***" /\ p.kind = "value"
  BY <1>p DEF Value, Piece
<1>b. PICK b : b = <<p>>
  OBVIOUS
<1>4. Banner = b
  BY <1>b, <1>p DEF Banner
<1>5. b \in Seq(Pieces) /\ Len(b) = 1 /\ DOMAIN b = {1} /\ b[1] = p
  BY <1>2, <1>b
<1>6. OnlyValues(b)
  BY <1>3, <1>5 DEF OnlyValues
<1> QED
  BY <1>3, <1>4, <1>5, <1>6

LEMMA HeaderIs ==
  ASSUME Typed
  PROVE  /\ HeaderLine \in Seq(Pieces) /\ OnlyValues(HeaderLine) /\ \A e : Fair(HeaderLine, e)
         /\ HeaderLine # <<>> /\ HeaderLine # TimeOfPrinting
<1>v. PICK c, r, d : /\ c = Value("channel REZERVACIJA", 19) /\ r = Value("REZERVACIJA", 11)
                     /\ d = Value("PREKLICANO", 13)
  OBVIOUS
<1>p. PICK p, q : /\ p = IF settings.show_channel THEN In(reservation.letters, c) ELSE r
                  /\ q = In("dash", d)
  OBVIOUS
<1>1. "value" \in Kinds /\ {"PREKLICANO", "channel REZERVACIJA", "REZERVACIJA"} \subseteq Values
  BY DEF Kinds, Values
<1>c. c \in Pieces /\ r \in Pieces /\ d \in Pieces
  <2>1. 19 \in Nat /\ 11 \in Nat /\ 13 \in Nat /\ 0 \in Int
    OBVIOUS
  <2> QED BY <1>1, <1>v, <2>1, PieceType DEF Value
<1>w. /\ c.kind = "value" /\ r.kind = "value" /\ d.kind = "value"
      /\ c.what = "channel REZERVACIJA" /\ r.what = "REZERVACIJA" /\ d.what = "PREKLICANO"
  BY <1>v DEF Value, Piece
<1>i. PICK i : i = In(reservation.letters, c)
  OBVIOUS
<1>a. /\ i \in Pieces /\ i.kind = c.kind /\ i.what = c.what
      /\ q \in Pieces /\ q.kind = d.kind /\ q.what = d.what
  <2>1. reservation.letters \in Alphabets
    BY TypedIs
  <2>2. i \in Pieces /\ i.kind = c.kind /\ i.what = c.what
    BY <1>c, <1>i, <2>1, InIs
  <2>3. q \in Pieces /\ q.kind = d.kind /\ q.what = d.what
    BY <1>c, <1>p, Written, InIs
  <2> QED BY <2>2, <2>3
<1>2. p \in Pieces /\ q \in Pieces
  BY <1>p, <1>i, <1>c, <1>a
<1>3. /\ p.what \in {"channel REZERVACIJA", "REZERVACIJA"} /\ p.kind = "value"
      /\ q.what = "PREKLICANO" /\ q.kind = "value"
  BY <1>p, <1>i, <1>w, <1>a
<1>4. \A e : FairPiece(p, e) /\ FairPiece(q, e)
  BY <1>3 DEF FairPiece
<1>h. HeaderLine = <<p>> \o (IF Cancelled THEN <<q>> ELSE <<>>)
  BY <1>p, <1>v DEF HeaderLine, Mailed
<1>5. HeaderLine = <<p>> \/ HeaderLine = <<p, q>>
  <2>1. CASE Cancelled
    <3>1. <<p>> \o <<q>> = <<p, q>>
      BY <1>2, CatTwo DEF Cat
    <3> QED BY <1>h, <2>1, <3>1
  <2>2. CASE ~Cancelled
    <3>1. <<p>> \o <<>> = <<p>>
      BY <1>2, CatEmpty DEF Cat
    <3> QED BY <1>h, <2>2, <3>1
  <2> QED BY <2>1, <2>2
<1>6. HeaderLine \in Seq(Pieces) /\ HeaderLine[1] = p /\ HeaderLine # <<>>
      /\ \A k \in DOMAIN HeaderLine : HeaderLine[k] \in {p, q}
  <2>1. CASE HeaderLine = <<p>>
    BY <1>2, <2>1
  <2>2. CASE HeaderLine = <<p, q>>
    <3>h. PICK h : h = <<p, q>>
      OBVIOUS
    <3>1. h \in Seq(Pieces) /\ h[1] = p /\ h[2] = q /\ DOMAIN h = {1, 2} /\ Len(h) = 2
      BY <1>2, <3>h
    <3>3. Len(h) # 0 /\ Len(<<>>) = 0
      BY <3>1
    <3>2. h # <<>>
      BY <3>3, Zenon
    <3> QED BY <2>2, <3>1, <3>2, <3>h
  <2> QED BY <1>5, <2>1, <2>2
<1>7. OnlyValues(HeaderLine) /\ \A e : Fair(HeaderLine, e)
  BY <1>3, <1>4, <1>6 DEF OnlyValues, Fair
<1>8. HeaderLine # TimeOfPrinting
  <2>1. TimeOfPrinting[1].what = "Printed"
    BY DEF TimeOfPrinting, Value, Piece
  <2>2. p.what # "Printed"
    BY <1>3
  <2> QED BY <1>6, <2>1, <2>2
<1> QED
  BY <1>6, <1>7, <1>8

\* The two encodings.
Reads(enc) == enc \in Encodings /\ "ascii" \in enc.has

LEMMA EncodingsAre ==
  ASSUME Typed
  PROVE  /\ Reads(StationEncoding) /\ StationEncoding \in Encodings /\ StationEncoding.fits = {}
         /\ Reads(AgentEncoding) /\ AgentEncoding \in Encodings
<1>1. CodePages \in [DOMAIN CodePages -> SUBSET Alphabets] /\ BestFit \subseteq Alphabets
      /\ "cp437" \in DOMAIN CodePages /\ \A page \in DOMAIN CodePages : "ascii" \in CodePages[page]
  BY ReceiptAssumption
<1>2. settings.codepage \in DOMAIN CodePages
  BY ReceiptAssumption DEF Typed
<1>3. \A page \in DOMAIN CodePages : CodePages[page] \in SUBSET Alphabets
  BY <1>1
<1>4. ASSUME NEW has \in SUBSET Alphabets, "ascii" \in has, NEW fits \in SUBSET Alphabets, NEW enc,
             enc = [has |-> has, fits |-> fits]
      PROVE  enc \in Encodings /\ Reads(enc) /\ enc.fits = fits
  BY <1>4 DEF Reads, Encodings
<1>5. PICK s, t : s = StationEncoding /\ t = AgentEncoding
  OBVIOUS
<1>6. s \in Encodings /\ Reads(s) /\ s.fits = {}
  BY <1>1, <1>2, <1>3, <1>4, <1>5 DEF StationEncoding
<1>7. t \in Encodings /\ Reads(t)
  BY <1>1, <1>3, <1>4, <1>5 DEF AgentEncoding
<1> QED
  BY <1>5, <1>6, <1>7

\* The first commands print nothing.
LEMMA PrintsInit ==
  ASSUME Typed
  PROVE  /\ Prints(Cmd("init", StationEncoding), 1, "left", 1, "left", <<>>)
         /\ Prints(Cmd("init", AgentEncoding), 1, "left", 1, "left", <<>>)
         /\ Prints(Cmd("font", 0), 1, "left", 1, "left", <<>>)
         /\ Prints(Cmd("cut", 0), 1, "left", 1, "left", <<>>)
<1>1. \A op \in {"init", "font", "cut"} : \A x \in Int \cup Encodings :
        Prints(Cmd(op, x), 1, "left", 1, "left", <<>>)
  BY PrintsIdle, Zenon
<1>2. StationEncoding \in Int \cup Encodings /\ AgentEncoding \in Int \cup Encodings
  BY EncodingsAre, Zenon
<1>3. 0 \in Int
  OBVIOUS
<1>4. "init" \in {"init", "font", "cut"} /\ "font" \in {"init", "font", "cut"}
      /\ "cut" \in {"init", "font", "cut"} /\ 0 \in Int \cup Encodings
  BY <1>3
<1> QED
  BY <1>1, <1>2, <1>4, Zenon

\* What the head prints.
LEMMA StartPrints ==
  ASSUME Typed
  PROVE  Prints(Start, 1, "left", BaseSize, "left", <<>>)
<1>b. PICK b, i, f, s : /\ b = BaseSize /\ i = Cmd("init", StationEncoding) /\ f = Cmd("font", 0)
                        /\ s = Cmd("size", BaseSize)
  OBVIOUS
<1>1. b \in Int
  BY <1>b, EnvIs
<1>2. /\ Prints(i, 1, "left", 1, "left", <<>>) /\ Prints(f, 1, "left", 1, "left", <<>>)
      /\ Prints(s, 1, "left", b, "left", <<>>)
  BY <1>1, <1>b, PrintsInit, PrintsSize
<1>e. PICK e : e = <<>>
  OBVIOUS
<1>3. Cat(e, e) = e
  <2>1. <<>> \in Seq(PrintedLines)
    OBVIOUS
  <2> QED BY <1>e, <2>1, CatEmpty
<1>4. Prints(Cat(i, f), 1, "left", 1, "left", Cat(e, e))
  BY <1>2, <1>e, PrintsConcat, Zenon
<1>5. Prints(Cat(Cat(i, f), s), 1, "left", b, "left", Cat(Cat(e, e), e))
  BY <1>2, <1>e, <1>4, PrintsConcat, Zenon
<1>6. Cat(Cat(e, e), e) = <<>>
  BY <1>3, <1>e, Zenon
<1> QED
  BY <1>5, <1>6, <1>b, Zenon DEF Start

LEMMA BannerPrints ==
  ASSUME Typed
  PROVE  Prints(CancelledBanner, BaseSize, "center", BaseSize, "center", <<BannerPrinted>>)
<1>b. PICK b, s, t, l : /\ b = BaseSize /\ s = Cmd("size", 3) /\ t = Cmd("size", BaseSize)
                        /\ l = BoldLine(Banner)
  OBVIOUS
<1>x. PICK x, e : x = <<BannerPrinted>> /\ e = <<>>
  OBVIOUS
<1>1. b \in Int /\ 3 \in Int
  BY <1>b, EnvIs
<1>2. Prints(s, b, "center", 3, "center", e) /\ Prints(t, 3, "center", b, "center", e)
  BY <1>1, <1>b, <1>x, PrintsSize
<1>3. Prints(l, 3, "center", 3, "center", x)
  <2>1. Layout(3, "center")
    BY DEF Layout, Aligns
  <2> QED BY <1>b, <1>x, <2>1, BannerIs, PrintsBold DEF BannerPrinted
<1>4. Prints(Cat(s, l), b, "center", 3, "center", Cat(e, x))
  BY <1>2, <1>3, PrintsConcat, Zenon
<1>5. Prints(Cat(Cat(s, l), t), b, "center", b, "center", Cat(Cat(e, x), e))
  BY <1>2, <1>4, PrintsConcat, Zenon
<1>6. Cat(Cat(e, x), e) = x
  <2>1. x \in Seq(PrintedLines)
    BY <1>3 DEF Prints
  <2>2. Cat(e, x) = x /\ Cat(x, e) = x
    BY <1>x, <2>1, CatEmpty
  <2> QED BY <2>2
<1>7. CancelledBanner = Cat(Cat(s, l), t)
  BY <1>b DEF CancelledBanner, Cat
<1> QED
  BY <1>5, <1>6, <1>7, <1>b, <1>x, Zenon

LEMMA TopPrints ==
  ASSUME Typed
  PROVE  Prints(Top, BaseSize, "left", BaseSize, "left", TopPrinted)
<1>b. PICK b, c, h, d, l : /\ b = BaseSize /\ c = Cmd("align", "center") /\ h = BoldLine(HeaderLine)
                           /\ d = Divider /\ l = Cmd("align", "left")
  OBVIOUS
<1>x. PICK x, y, z, e : /\ x = <<HeaderPrinted>> /\ y = BannersPrinted /\ z = <<DividerPrinted>>
                        /\ e = <<>>
  OBVIOUS
<1>0. b \in Int /\ Layout(b, "center") /\ "center" \in Aligns /\ "left" \in Aligns
  BY <1>b, EnvIs DEF Layout, Aligns
<1>1. Prints(c, b, "left", b, "center", e) /\ Prints(l, b, "center", b, "left", e)
  BY <1>0, <1>b, <1>x, PrintsAlign
<1>2. Prints(h, b, "center", b, "center", x)
  BY <1>0, <1>b, <1>x, HeaderIs, PrintsBold DEF HeaderPrinted
<1>3. Prints(BannerAtTop, b, "center", b, "center", y)
  BY <1>b, <1>x, BannerPrints, PrintsNothing DEF BannerAtTop, BannersPrinted
<1>4. Prints(d, b, "center", b, "center", z)
  BY <1>0, <1>b, <1>x, DividerIs, PrintsLine DEF DividerPrinted
<1>5. Prints(Cat(c, h), b, "left", b, "center", Cat(e, x))
  BY <1>1, <1>2, PrintsConcat, Zenon
<1>6. Prints(Cat(Cat(c, h), BannerAtTop), b, "left", b, "center", Cat(Cat(e, x), y))
  BY <1>3, <1>5, PrintsConcat, Zenon
<1>7. Prints(Cat(Cat(Cat(c, h), BannerAtTop), d), b, "left", b, "center", Cat(Cat(Cat(e, x), y), z))
  BY <1>4, <1>6, PrintsConcat, Zenon
<1>8. Prints(Cat(Cat(Cat(Cat(c, h), BannerAtTop), d), l), b, "left", b, "left",
             Cat(Cat(Cat(Cat(e, x), y), z), e))
  BY <1>1, <1>7, PrintsConcat, Zenon
<1>9. Cat(Cat(Cat(Cat(e, x), y), z), e) = TopPrinted
  <2>1. x \in Seq(PrintedLines) /\ y \in Seq(PrintedLines) /\ z \in Seq(PrintedLines)
    BY <1>2, <1>3, <1>4 DEF Prints
  <2>2. Cat(e, x) = x
    BY <1>x, <2>1, CatEmpty
  <2>3. Cat(Cat(x, y), z) \in Seq(PrintedLines)
    BY <2>1, CatType
  <2>4. Cat(Cat(Cat(x, y), z), e) = Cat(Cat(x, y), z)
    BY <1>x, <2>3, CatEmpty
  <2> QED BY <1>x, <2>2, <2>4 DEF TopPrinted
<1> QED
  BY <1>8, <1>9, <1>b, Zenon DEF Top

LEMMA BottomPrints ==
  ASSUME Typed
  PROVE  Prints(BannerAtBottom, BaseSize, "left", BaseSize, "left", BannersPrinted)
<1>b. PICK b, c, n, l : /\ b = BaseSize /\ c = Cmd("align", "center") /\ n = CancelledBanner
                        /\ l = Cmd("align", "left")
  OBVIOUS
<1>x. PICK x, e : x = <<BannerPrinted>> /\ e = <<>>
  OBVIOUS
<1>0. b \in Int /\ "center" \in Aligns /\ "left" \in Aligns
  BY <1>b, EnvIs DEF Aligns
<1>1. Prints(c, b, "left", b, "center", e) /\ Prints(l, b, "center", b, "left", e)
  BY <1>0, <1>b, <1>x, PrintsAlign
<1>2. Prints(n, b, "center", b, "center", x)
  BY <1>b, <1>x, BannerPrints
<1>3. Prints(Cat(c, n), b, "left", b, "center", Cat(e, x))
  BY <1>1, <1>2, PrintsConcat, Zenon
<1>4. Prints(Cat(Cat(c, n), l), b, "left", b, "left", Cat(Cat(e, x), e))
  BY <1>1, <1>3, PrintsConcat, Zenon
<1>5. Cat(Cat(e, x), e) = x
  <2>1. x \in Seq(PrintedLines)
    BY <1>2 DEF Prints
  <2>2. Cat(e, x) = x /\ Cat(x, e) = x
    BY <1>x, <2>1, CatEmpty
  <2> QED BY <2>2
<1>6. CASE Cancelled
  <2>1. BannerAtBottom = Cat(Cat(c, n), l) /\ BannersPrinted = x
    BY <1>6, <1>b, <1>x DEF BannerAtBottom, BannersPrinted
  <2> QED BY <1>4, <1>5, <1>b, <2>1
<1>7. CASE ~Cancelled
  BY <1>7, PrintsNothing DEF BannerAtBottom, BannersPrinted
<1> QED
  BY <1>6, <1>7

\* The time of printing, and paper to tear.
LEMMA GoodTail ==
  ASSUME Typed
  PROVE  \E w : Makes(Foot, <<>>, w, Env)
                /\ \A i \in DOMAIN w : Silent(w[i].line) \/ w[i].line = TimeOfPrinting
<1>b. PICK b, e : b = BaseSize /\ e = Env
  OBVIOUS
<1>0. Sane(e) /\ e.base = b /\ b \in Int
  BY <1>b, EnvIs
<1>t. PICK t, n, c : t = Line(TimeOfPrinting) /\ n = Cmd("newline", 3) /\ c = Cmd("cut", 0)
  OBVIOUS
<1>x. PICK x, y : x = Printed(TimeOfPrinting, {Mark(e.base, "left", FALSE)}) /\ y = Printed(<<>>, {})
  OBVIOUS
<1>1. TimeOfPrinting \in Seq(Pieces) /\ Fair(TimeOfPrinting, e) /\ Fits(TimeOfPrinting, e)
  <2>p. PICK p : p = Value("Printed", 28)
    OBVIOUS
  <2>1. "Printed" \in Ordinary /\ 28 \in Nat
    BY DEF Ordinary
  <2>2. p \in Pieces /\ p.kind = "value" /\ FairPiece(p, e)
    BY <2>1, <2>p, ValueIs
  <2>3. TimeOfPrinting = <<p>>
    BY <2>p DEF TimeOfPrinting
  <2> QED BY <2>2, <2>3 DEF Fair, Fits
<1>2. /\ x \in PrintedLines /\ x.line = TimeOfPrinting /\ Fine(x, e)
      /\ Prints(t, e.base, "left", e.base, "left", <<x>>)
  BY <1>0, <1>1, <1>t, <1>x, FineLine
<1>3. y \in PrintedLines /\ y.line = <<>> /\ y.marks = {}
  BY <1>x DEF Printed, PrintedLines
<1>4. Fine(y, e) /\ Silent(y.line)
  BY <1>3 DEF Fine, Fair, Fits, LaidOut, Silent
<1>5. Prints(n, e.base, "left", e.base, "left", <<y>>)
  <2>f. PICK f, l, m : f = FALSE /\ l = <<>> /\ m = {}
    OBVIOUS
  <2>1. <<y>> \in Seq(PrintedLines) /\ \A pp \in Seq(PrintedLines) : Append(pp, y) = Cat(pp, <<y>>)
    <3>1. <<>> \in Seq(Pieces) /\ {} \in SUBSET [size : Int, align : Aligns, bold : BOOLEAN]
      OBVIOUS
    <3> QED BY <1>x, <3>1, PrintedType
  <2>2. n \in Seq(Cmds)
    BY <1>t, CmdTypes
  <2>3. ASSUME NEW pp \in Seq(PrintedLines)
        PROVE  Run(Ready(b, "left", pp), n) = Ready(b, "left", Cat(pp, <<y>>))
    <3>1. Run(Printer(b, "left", f, m, l, pp), n)
            = Printer(b, "left", f, {}, <<>>, Append(pp, Printed(l, m)))
      BY <1>t, DoesNewline
    <3>2. Ready(b, "left", pp) = Printer(b, "left", f, m, l, pp)
      BY <2>f DEF Ready
    <3>3. Printer(b, "left", f, {}, <<>>, Append(pp, y)) = Ready(b, "left", Append(pp, y))
      BY <2>f DEF Ready
    <3>4. y = Printed(l, m)
      BY <1>x, <2>f
    <3> QED BY <2>1, <3>1, <3>2, <3>3, <3>4
  <2> QED BY <1>0, <2>1, <2>2, <2>3 DEF Prints
<1>6. Prints(c, e.base, "left", e.base, "left", <<>>)
  BY <1>t, PrintsIdle
<1>w. PICK u, v, w : u = <<x>> /\ v = <<y>> /\ w = Cat(u, v)
  OBVIOUS
<1>7. Prints(Foot, e.base, "left", e.base, "left", w)
  <2>o. PICK o : o = <<>>
    OBVIOUS
  <2>1. Prints(Cat(t, n), e.base, "left", e.base, "left", Cat(u, v))
    BY <1>2, <1>5, <1>w, PrintsConcat, Zenon
  <2>2. Prints(Cat(Cat(t, n), c), e.base, "left", e.base, "left", Cat(Cat(u, v), o))
    BY <1>6, <2>1, <2>o, PrintsConcat, Zenon
  <2>3. w \in Seq(PrintedLines)
    BY <1>w, <2>1 DEF Prints
  <2>4. Cat(w, o) = w
    BY <2>3, <2>o, CatEmpty
  <2> QED BY <1>t, <1>w, <2>2, <2>4, Zenon DEF Foot
<1>8. u \in Seq(PrintedLines) /\ v \in Seq(PrintedLines) /\ w = <<x, y>>
  BY <1>2, <1>3, <1>w, CatTwo
<1>9. AllFine(w, e) /\ \A i \in DOMAIN w : Silent(w[i].line) \/ w[i].line = TimeOfPrinting
  BY <1>2, <1>4, <1>8 DEF AllFine
<1>10. Content(LinesIn(w)) = Content(<<>>)
  <2>1. LinesIn(w) = Cat(LinesIn(u), LinesIn(v))
    BY <1>8, <1>w, LinesInCat
  <2>2. LinesIn(u) = <<x.line>> /\ LinesIn(v) = <<y.line>>
    BY <1>2, <1>3, <1>w, LinesInOne
  <2>3. <<x.line>> \in Seq(Seq(Pieces)) /\ <<y.line>> \in Seq(Seq(Pieces))
    <3>1. x.line \in Seq(Pieces) /\ y.line \in Seq(Pieces)
      BY <1>1, <1>2, <1>3
    <3> QED BY <3>1
  <2>4. Content(<<x.line>>) = Heard(x.line) /\ Content(<<y.line>>) = Heard(y.line)
    <3>1. x.line \in Seq(Pieces) /\ y.line \in Seq(Pieces)
      BY <1>1, <1>2, <1>3
    <3> QED BY <3>1, ContentOne
  <2>5. Heard(x.line) = <<>> /\ Heard(y.line) = <<>>
    BY <1>2, <1>4 DEF Heard
  <2>6. Content(LinesIn(w)) = Cat(Content(LinesIn(u)), Content(LinesIn(v)))
    BY <2>1, <2>2, <2>3, ContentCat
  <2>o. PICK o : o = <<>>
    OBVIOUS
  <2>7. Cat(o, o) = o
    <3>1. o \in Seq(Pieces)
      BY <2>o
    <3> QED BY <2>o, <3>1, CatEmpty
  <2> QED BY <2>2, <2>4, <2>5, <2>6, <2>7, <2>o, ContentEmpty
<1>11. Makes(Foot, <<>>, w, e)
  <2>1. <<>> \in Seq(Seq(Pieces)) /\ AllFair(<<>>, e)
    BY DEF AllFair
  <2> QED BY <1>7, <1>9, <1>10, <2>1 DEF Makes
<1> QED
  BY <1>9, <1>11, <1>b

-----------------------------------------------------------------------------
(* The invariant: what is built so far is the head, good parts, and at the    *)
(* end the foot.                                                              *)

Closing == Cat(BannerAtBottom, Foot)
Frame == [env |-> Env, start |-> Start, top |-> Top, toptext |-> TopText,
          closing |-> Closing, closingtext |-> ClosingText,
          priced |-> Nights > 0 /\ reservation.price_total # None]
Framed(f) == /\ f.start \in Seq(Cmds) /\ f.top \in Seq(Cmds) /\ f.closing \in Seq(Cmds)
             /\ f.toptext \in Seq(Seq(Pieces)) /\ f.closingtext \in Seq(Seq(Pieces))

Middle == {"guest", "rooms", "dates", "summary", "total", "number", "footer"}
\* b and t are the head, the parts in cmds and lines, and more.
Holds(f, b, t, cmds, lines) ==
  /\ Good(cmds, lines, f.env)
  /\ b = Cat(Cat(f.start, f.top), cmds) /\ t = Cat(f.toptext, lines)
Reached(f, s, b, t) ==
  /\ s = "header" => b = f.start /\ t = <<>>
  /\ s \in Middle => \E cmds, lines : /\ Holds(f, b, t, cmds, lines)
                                      /\ s \in {"number", "footer"} /\ f.priced => Averaged(lines)
  /\ s = "cut" => \E cmds, lines, b0, t0 :
                    /\ Holds(f, b0, t0, cmds, lines) /\ (f.priced => Averaged(lines))
                    /\ b = Cat(b0, f.closing) /\ t = Cat(t0, f.closingtext)
IInv == Typed /\ section \in Middle \cup {"header", "cut"} /\ Reached(Frame, section, buf, text)

LEMMA TextTypes ==
  ASSUME Typed
  PROVE  /\ TopText \in Seq(Seq(Pieces)) /\ ClosingText \in Seq(Seq(Pieces))
         /\ <<HeaderLine>> \in Seq(Seq(Pieces)) /\ <<Banner>> \in Seq(Seq(Pieces))
<1>1. /\ <<HeaderLine>> \in Seq(Seq(Pieces)) /\ <<Banner>> \in Seq(Seq(Pieces))
      /\ <<>> \in Seq(Seq(Pieces))
  <2>h. PICK h, b, T : h = HeaderLine /\ b = Banner /\ T = Seq(Pieces)
    OBVIOUS
  <2>1. h \in T /\ b \in T
    BY <2>h, HeaderIs, BannerIs
  <2>2. <<h>> \in Seq(T) /\ <<b>> \in Seq(T) /\ <<>> \in Seq(T)
    BY <2>1
  <2> QED BY <2>2, <2>h
<1>m. PICK m : m = IF Cancelled THEN <<Banner>> ELSE <<>>
  OBVIOUS
<1>2. m \in Seq(Seq(Pieces))
  BY <1>1, <1>m
<1>3. TopText \in Seq(Seq(Pieces))
  BY <1>1, <1>2, <1>m, CatType DEF TopText
<1> QED
  BY <1>1, <1>2, <1>3, <1>m DEF ClosingText

LEMMA FrameIs ==
  ASSUME Typed
  PROVE  /\ Framed(Frame) /\ Frame.env = Env /\ Frame.start = Start /\ Frame.top = Top
         /\ Frame.toptext = TopText /\ Frame.closing = Closing /\ Frame.closingtext = ClosingText
         /\ Frame.priced <=> Nights > 0 /\ reservation.price_total # None
<1>1. Start \in Seq(Cmds) /\ Top \in Seq(Cmds) /\ BannerAtBottom \in Seq(Cmds)
  BY StartPrints, TopPrints, BottomPrints DEF Prints
<1>2. Foot \in Seq(Cmds)
  BY GoodTail DEF Makes, Prints
<1>3. Closing \in Seq(Cmds)
  BY <1>1, <1>2, CatType DEF Closing
<1>4. /\ Frame.env = Env /\ Frame.start = Start /\ Frame.top = Top
      /\ Frame.toptext = TopText /\ Frame.closing = Closing /\ Frame.closingtext = ClosingText
  BY DEF Frame
<1>5. Frame.priced <=> Nights > 0 /\ reservation.price_total # None
  BY DEF Frame
<1> QED
  BY <1>1, <1>3, <1>4, <1>5, TextTypes DEF Framed

\* The frame stays.
LEMMA FrameStays ==
  ASSUME reservation' = reservation, settings' = settings
  PROVE  Frame' = Frame /\ (Typed => Typed')
<1>1. Nights' = Nights /\ Cancelled' = Cancelled /\ BaseSize' = BaseSize /\ Divider' = Divider
      /\ HeaderLine' = HeaderLine
  BY DEF Nights, Cancelled, BaseSize, Divider, HeaderLine, Mailed, Line, Cmd
<1>2. Env' = Env /\ CancelledBanner' = CancelledBanner /\ Start' = Start
  BY <1>1 DEF Env, CancelledBanner, Start, StationEncoding
<1>3. BannerAtTop' = BannerAtTop /\ BannerAtBottom' = BannerAtBottom
  BY <1>1, <1>2 DEF BannerAtTop, BannerAtBottom
<1>4. Top' = Top /\ Closing' = Closing
  BY <1>1, <1>3 DEF Top, Closing
<1>5. TopText' = TopText /\ ClosingText' = ClosingText
  BY <1>1 DEF TopText, ClosingText
<1> QED
  BY <1>1, <1>2, <1>4, <1>5 DEF Frame, Typed

\* One more part.
LEMMA MiddleStep ==
  ASSUME NEW f, Framed(f), NEW s \in Middle, NEW b, NEW t, Reached(f, s, b, t),
         NEW c, NEW l, Good(c, l, f.env), NEW s2 \in Middle,
         s2 = "number" => s = "total" /\ (f.priced => Averaged(l)), s2 = "footer" => s = "number"
  PROVE  Reached(f, s2, Cat(b, c), Cat(t, l))
<1>1. PICK cmds, lines : /\ Holds(f, b, t, cmds, lines)
                         /\ s \in {"number", "footer"} /\ f.priced => Averaged(lines)
  BY DEF Reached
<1>2. /\ cmds \in Seq(Cmds) /\ lines \in Seq(Seq(Pieces))
      /\ c \in Seq(Cmds) /\ l \in Seq(Seq(Pieces))
  BY <1>1, GoodType DEF Holds
<1>3. Good(Cat(cmds, c), Cat(lines, l), f.env)
  BY <1>1, GoodCat DEF Holds
<1>4. Cat(b, c) = Cat(Cat(f.start, f.top), Cat(cmds, c))
  <2>1. Cat(f.start, f.top) \in Seq(Cmds)
    BY CatType DEF Framed
  <2>2. b = Cat(Cat(f.start, f.top), cmds)
    BY <1>1 DEF Holds
  <2> QED BY <1>2, <2>1, <2>2, CatAssoc
<1>5. Cat(t, l) = Cat(f.toptext, Cat(lines, l))
  <2>1. t = Cat(f.toptext, lines) /\ f.toptext \in Seq(Seq(Pieces))
    BY <1>1 DEF Holds, Framed
  <2> QED BY <1>2, <2>1, CatAssoc
<1>6. Holds(f, Cat(b, c), Cat(t, l), Cat(cmds, c), Cat(lines, l))
  BY <1>3, <1>4, <1>5 DEF Holds
<1>7. s2 \in {"number", "footer"} /\ f.priced => Averaged(Cat(lines, l))
  BY <1>1, <1>2, AveragedCat
<1>8. s2 # "header" /\ s2 # "cut"
  BY DEF Middle
<1> QED
  BY <1>6, <1>7, <1>8 DEF Reached

\* What a section does to the state.
LEMMA EmitIs ==
  ASSUME NEW name, NEW c, NEW l, Emit(name, c, l)
  PROVE  /\ section = name /\ buf' = Cat(buf, c) /\ text' = Cat(text, l)
         /\ reservation' = reservation /\ settings' = settings
         /\ name = "header" => section' = "guest"
         /\ name = "guest" => section' = "rooms"
         /\ name = "rooms" => section' = "dates"
         /\ name = "dates" => section' = "summary"
         /\ name = "summary" => section' = "total"
         /\ name = "total" => section' = "number"
         /\ name = "number" => section' = "footer"
         /\ name = "footer" => section' = "cut"
<1>1. PICK i \in 1 .. Len(Sections) - 1 : Sections[i] = name /\ section' = Sections[i + 1]
  BY DEF Emit
<1>2. /\ Len(Sections) = 9 /\ Sections[1] = "header" /\ Sections[2] = "guest"
      /\ Sections[3] = "rooms" /\ Sections[4] = "dates" /\ Sections[5] = "summary"
      /\ Sections[6] = "total" /\ Sections[7] = "number" /\ Sections[8] = "footer"
      /\ Sections[9] = "cut"
  BY DEF Sections
<1>3. i \in 1 .. 8
  BY <1>1, <1>2
<1>4. /\ i = 1 \/ i = 2 \/ i = 3 \/ i = 4 \/ i = 5 \/ i = 6 \/ i = 7 \/ i = 8
  BY <1>3
<1>5. /\ name = "header" => section' = "guest"
      /\ name = "guest" => section' = "rooms"
      /\ name = "rooms" => section' = "dates"
      /\ name = "dates" => section' = "summary"
      /\ name = "summary" => section' = "total"
      /\ name = "total" => section' = "number"
      /\ name = "number" => section' = "footer"
      /\ name = "footer" => section' = "cut"
  BY <1>1, <1>2, <1>4
<1> QED
  BY <1>5 DEF Emit, Cat

LEMMA PartStep ==
  ASSUME IInv, NEW name \in Middle \ {"footer"}, NEW c, NEW l, Good(c, l, Env), Emit(name, c, l),
         name = "total" => (Frame.priced => Averaged(l))
  PROVE  IInv'
<1>f. PICK f, s, b, t : f = Frame /\ s = section /\ b = buf /\ t = text
  OBVIOUS
<1>n. PICK s2, b2, t2 : s2 = section' /\ b2 = buf' /\ t2 = text'
  OBVIOUS
<1>1. /\ s = name /\ b2 = Cat(b, c) /\ t2 = Cat(t, l)
      /\ reservation' = reservation /\ settings' = settings
  BY <1>f, <1>n, EmitIs
<1>2. s2 \in Middle /\ (s2 = "number" => s = "total") /\ (s2 = "footer" => s = "number")
  BY <1>f, <1>n, EmitIs DEF Middle
<1>3. Typed /\ Reached(f, s, b, t)
  BY <1>f DEF IInv
<1>4. Framed(f) /\ f.env = Env
  BY <1>3, <1>f, FrameIs
<1>5. Reached(f, s2, b2, t2)
  BY <1>1, <1>2, <1>3, <1>4, <1>f, MiddleStep
<1>6. Frame' = f /\ Typed'
  BY <1>1, <1>3, <1>f, FrameStays
<1> QED
  BY <1>2, <1>5, <1>6, <1>n DEF IInv

LEMMA PartsStep ==
  ASSUME IInv, NEW name \in Middle \ {"footer"}, NEW parts, GoodPart(Both(parts), Env),
         EmitBoth(name, parts), name = "total" => (Frame.priced => Averaged(Both(parts).lines))
  PROVE  IInv'
<1>1. Emit(name, Both(parts).cmds, Both(parts).lines)
  BY DEF EmitBoth
<1>2. Good(Both(parts).cmds, Both(parts).lines, Env)
  BY DEF GoodPart
<1> QED
  BY <1>1, <1>2, PartStep

LEMMA HeaderStep == IInv /\ Header => IInv'
<1> SUFFICES ASSUME IInv, Header PROVE IInv'
  OBVIOUS
<1>f. PICK f : f = Frame
  OBVIOUS
<1>n. PICK s2, b2, t2 : s2 = section' /\ b2 = buf' /\ t2 = text'
  OBVIOUS
<1>0. Typed /\ Reached(f, section, buf, text)
  BY <1>f DEF IInv
<1>e. Framed(f) /\ f.env = Env /\ f.start = Start /\ f.top = Top /\ f.toptext = TopText
  BY <1>0, <1>f, FrameIs
<1>1. Emit("header", Top, TopText)
  BY DEF Header, Top, TopText, BannerAtTop, Cat
<1>2. /\ section = "header" /\ b2 = Cat(buf, Top) /\ t2 = Cat(text, TopText) /\ s2 = "guest"
      /\ reservation' = reservation /\ settings' = settings
  BY <1>1, <1>n, EmitIs
<1>3. buf = f.start /\ text = <<>>
  BY <1>0, <1>2 DEF Reached
<1>4. b2 = Cat(Cat(f.start, f.top), <<>>)
  <2>1. Cat(f.start, f.top) \in Seq(Cmds)
    BY <1>e, CatType DEF Framed
  <2>2. Cat(Cat(f.start, f.top), <<>>) = Cat(f.start, f.top)
    BY <2>1, CatEmpty
  <2> QED BY <1>2, <1>3, <1>e, <2>2
<1>5. t2 = Cat(f.toptext, <<>>)
  <2>1. f.toptext \in Seq(Seq(Pieces))
    BY <1>e DEF Framed
  <2>2. Cat(f.toptext, <<>>) = f.toptext /\ Cat(<<>>, f.toptext) = f.toptext
    BY <2>1, CatEmpty
  <2> QED BY <1>2, <1>3, <1>e, <2>2
<1>6. Holds(f, b2, t2, <<>>, <<>>)
  BY <1>4, <1>5, GoodNothing DEF Holds
<1>7. Reached(f, "guest", b2, t2) /\ "guest" \in Middle
  BY <1>6 DEF Reached, Middle
<1>8. Frame' = f /\ Typed'
  BY <1>0, <1>2, <1>f, FrameStays
<1> QED
  BY <1>2, <1>7, <1>8, <1>n DEF IInv

LEMMA FooterStep == IInv /\ Footer => IInv'
<1> SUFFICES ASSUME IInv, Footer PROVE IInv'
  OBVIOUS
<1>f. PICK f, s, b, t : f = Frame /\ s = section /\ b = buf /\ t = text
  OBVIOUS
<1>n. PICK s2, b2, t2 : s2 = section' /\ b2 = buf' /\ t2 = text'
  OBVIOUS
<1>0. Typed /\ Reached(f, s, b, t)
  BY <1>f DEF IInv
<1>e. f.closing = Closing /\ f.closingtext = ClosingText
  BY <1>0, <1>f, FrameIs
<1>1. Emit("footer", Closing, ClosingText)
  <2>p. PICK p, q, r, u : /\ p = BannerAtBottom /\ q = Line(TimeOfPrinting)
                          /\ r = Cmd("newline", 3) /\ u = Cmd("cut", 0)
    OBVIOUS
  <2>1. p \in Seq(Cmds) /\ q \in Seq(Cmds) /\ r \in Seq(Cmds) /\ u \in Seq(Cmds)
    <3>1. p \in Seq(Cmds)
      BY <1>0, <2>p, BottomPrints DEF Prints
    <3>2. TimeOfPrinting \in Seq(Pieces)
      <4>1. "Printed" \in Ordinary /\ 28 \in Nat
        BY DEF Ordinary
      <4>2. Value("Printed", 28) \in Pieces
        BY <4>1, ValueIs
      <4> QED BY <4>2 DEF TimeOfPrinting
    <3>3. q \in Seq(Cmds)
      BY <2>p, <3>2, LineType
    <3> QED BY <2>p, <3>1, <3>3, CmdTypes
  <2>2. Cat(Cat(Cat(p, q), r), u) = Cat(p, Cat(Cat(q, r), u))
    <3>1. Cat(Cat(p, q), r) = Cat(p, Cat(q, r)) /\ Cat(q, r) \in Seq(Cmds)
      BY <2>1, CatAssoc, CatType
    <3>2. Cat(Cat(p, Cat(q, r)), u) = Cat(p, Cat(Cat(q, r), u))
      BY <2>1, <3>1, CatAssoc
    <3> QED BY <3>1, <3>2
  <2>3. Closing = Cat(Cat(Cat(p, q), r), u)
    BY <2>2, <2>p DEF Closing, Foot
  <2>4. Emit("footer", Cat(Cat(Cat(p, q), r), u), ClosingText)
    BY <2>p DEF Footer, BannerAtBottom, TimeOfPrinting, Cat
  <2> QED BY <2>3, <2>4
<1>2. /\ s = "footer" /\ b2 = Cat(b, f.closing) /\ t2 = Cat(t, f.closingtext) /\ s2 = "cut"
      /\ reservation' = reservation /\ settings' = settings
  BY <1>1, <1>e, <1>f, <1>n, EmitIs
<1>3. PICK cmds, lines : Holds(f, b, t, cmds, lines) /\ (f.priced => Averaged(lines))
  BY <1>0, <1>2 DEF Reached, Middle
<1>4. Reached(f, "cut", b2, t2)
  BY <1>2, <1>3 DEF Reached, Middle
<1>5. Frame' = f /\ Typed'
  BY <1>0, <1>2, <1>f, FrameStays
<1> QED
  BY <1>2, <1>4, <1>5, <1>n DEF IInv

LEMMA Inductive == IInv /\ [Next]_vars => IInv'
<1> SUFFICES ASSUME IInv, [Next]_vars PROVE IInv'
  OBVIOUS
<1>0. Typed
  BY DEF IInv
<1>m. /\ "guest" \in Middle \ {"footer"} /\ "rooms" \in Middle \ {"footer"}
      /\ "dates" \in Middle \ {"footer"} /\ "summary" \in Middle \ {"footer"}
      /\ "total" \in Middle \ {"footer"} /\ "number" \in Middle \ {"footer"}
  BY DEF Middle
<1>1. CASE Header
  BY <1>1, HeaderStep
<1>2. CASE Guest
  <2>p. PICK p : p = <<Kv(Label("Gost:"), Mailed("guest_name", reservation.guest_name))>>
    OBVIOUS
  <2>1. EmitBoth("guest", p) /\ GoodPart(Both(p), Env)
    BY <1>0, <1>2, <2>p, GoodGuest DEF Guest
  <2> QED BY <1>m, <2>1, PartsStep
<1>3. CASE Rooms
  <2>p. PICK p : p = RoomParts
    OBVIOUS
  <2>1. EmitBoth("rooms", p) /\ GoodPart(Both(p), Env)
    BY <1>0, <1>3, <2>p, GoodRooms DEF Rooms, RoomParts
  <2> QED BY <1>m, <2>1, PartsStep
<1>4. CASE Dates
  <2>p. PICK p : p = <<Kv(Label("From:"), Value("checkin", 10)), Kv(Label("To:"), Value("checkout", 10))>>
    OBVIOUS
  <2>1. EmitBoth("dates", p) /\ GoodPart(Both(p), Env)
    BY <1>0, <1>4, <2>p, GoodDates DEF Dates
  <2> QED BY <1>m, <2>1, PartsStep
<1>5. CASE Summary
  <2>p. PICK p : p = <<When(SummaryLine # <<>>, Plain(SummaryLine)),
                       [cmds |-> Divider, lines |-> <<DividerLine>>]>>
    OBVIOUS
  <2>1. EmitBoth("summary", p) /\ GoodPart(Both(p), Env)
    BY <1>0, <1>5, <2>p, GoodSummary DEF Summary, DividerLine
  <2> QED BY <1>m, <2>1, PartsStep
<1>6. CASE TotalLines
  <2>p. PICK p : p = IF reservation.price_total # None THEN PriceLines ELSE <<>>
    OBVIOUS
  <2>1. EmitBoth("total", p)
    BY <1>6, <2>p DEF TotalLines
  <2>2. GoodPart(Both(p), Env)
    <3>1. GoodPart(Both(<<>>), Env)
      BY GoodNone, GoodFew
    <3> QED BY <1>0, <2>p, <3>1, GoodPrice
  <2>3. Frame.priced => Averaged(Both(p).lines)
    BY <1>0, <2>p, FrameIs, PriceIsAveraged
  <2> QED BY <1>m, <2>1, <2>2, <2>3, PartsStep
<1>7. CASE NumberLine
  <2>n. PICK n, c, l, e : /\ n = Kv(Label("Reservation nr.:"), Mailed("external_ref", reservation.external_ref))
                          /\ c = n.cmds /\ l = n.lines /\ e = Env
    OBVIOUS
  <2>1. Good(c, l, e) /\ Good(Divider, <<>>, e)
    BY <1>0, <2>n, GoodGuest, GoodDivider DEF GoodPart
  <2>2. Good(Cat(c, Divider), Cat(l, <<>>), e)
    BY <2>1, GoodCat
  <2>3. Cat(l, <<>>) = l
    BY <2>1, GoodType, CatEmpty
  <2>4. Emit("number", Cat(c, Divider), l)
    BY <1>7, <2>n DEF NumberLine, Cat
  <2> QED BY <1>m, <2>2, <2>3, <2>4, <2>n, PartStep
<1>8. CASE Footer
  BY <1>8, FooterStep
<1>9. CASE UNCHANGED vars
  <2>1. /\ reservation' = reservation /\ settings' = settings /\ section' = section
        /\ buf' = buf /\ text' = text
    BY <1>9 DEF vars
  <2>2. Frame' = Frame /\ Typed'
    BY <1>0, <2>1, FrameStays
  <2>n. PICK f, s, b, t : f = Frame /\ s = section /\ b = buf /\ t = text
    OBVIOUS
  <2>3. s \in Middle \cup {"header", "cut"} /\ Reached(f, s, b, t)
    BY <2>n DEF IInv
  <2> QED BY <2>1, <2>2, <2>3, <2>n DEF IInv
<1> QED
  BY <1>1, <1>2, <1>3, <1>4, <1>5, <1>6, <1>7, <1>8, <1>9 DEF Next

LEMMA Initially == Init => IInv
<1> SUFFICES ASSUME Init PROVE IInv
  OBVIOUS
<1>1. Typed /\ section = "header" /\ text = <<>> /\ buf = Start
  BY DEF Init, Typed, Start, Cat
<1>2. Frame.start = Start
  BY <1>1, FrameIs
<1>3. Reached(Frame, "header", Start, <<>>)
  BY <1>2 DEF Reached, Middle
<1> QED
  BY <1>1, <1>3 DEF IInv

\* The invariant of build_reservation_receipt: in every state the bytes are the head and
\* good parts, the text is their text, and once the receipt is cut the foot follows.
THEOREM Invariant == Spec => []IInv
<1>1. Init => IInv
  BY Initially
<1>2. IInv /\ [Next]_vars => IInv'
  BY Inductive
<1> QED
  BY <1>1, <1>2, PTL DEF Spec

-----------------------------------------------------------------------------
(* The finished receipt on the two printers. *)

Whole(mid, w) == Cat(Cat(Cat(TopPrinted, mid), BannersPrinted), w)
Finished(mid, w, lines, e) ==
  /\ mid \in Seq(PrintedLines) /\ w \in Seq(PrintedLines) /\ lines \in Seq(Seq(Pieces))
  /\ Content(LinesIn(mid)) = Content(lines) /\ Content(LinesIn(w)) = <<>>
  /\ AllFine(mid, e) /\ AllFine(w, e) /\ AllFair(lines, e)
  /\ \A i \in DOMAIN w : Silent(w[i].line) \/ w[i].line = TimeOfPrinting

\* What is printed before the letters are encoded.
Raw(cmds) == Run(Fresh, cmds).paper

LEMMA RawPrinted ==
  ASSUME NEW cmds, NEW s, NEW a, NEW new, Prints(cmds, 1, "left", s, a, new)
  PROVE  Raw(cmds) = new
<1>e. PICK e : e = <<>>
  OBVIOUS
<1>1. e \in Seq(PrintedLines) /\ new \in Seq(PrintedLines)
  BY <1>e DEF Prints
<1>2. Run(Ready(1, "left", e), cmds) = Ready(s, a, Cat(e, new))
  BY <1>1 DEF Prints
<1>3. Cat(e, new) = new
  BY <1>1, <1>e, CatEmpty
<1>4. Fresh = Ready(1, "left", e)
  BY <1>e DEF Fresh, Ready, Printer
<1>5. Raw(cmds) = Run(Fresh, cmds).paper
  BY DEF Raw
<1>6. Ready(s, a, new).paper = new
  BY DEF Ready, Printer
<1> QED
  BY <1>2, <1>3, <1>4, <1>5, <1>6

\* What the first command of many is.
Starts(x, a) == x \in Seq(Cmds) /\ 1 \in DOMAIN x /\ x[1] = a

LEMMA StartsCat == \A x, a : Starts(x, a) => \A y \in Seq(Cmds) : Starts(Cat(x, y), a)
BY CatType, IntoCat DEF Starts

LEMMA ReceiptIs ==
  ASSUME IInv, section = "cut"
  PROVE  \E mid, w, lines :
           /\ Finished(mid, w, lines, Env) /\ Raw(buf) = Whole(mid, w)
           /\ text = Cat(Cat(TopText, lines), ClosingText) /\ buf[1].arg = StationEncoding
           /\ Nights > 0 /\ reservation.price_total # None => Averaged(lines)
<1>f. PICK f, e, b : f = Frame /\ e = Env /\ b = BaseSize
  OBVIOUS
<1>0. Typed /\ Reached(f, section, buf, text)
  BY <1>f DEF IInv
<1>1. /\ f.env = e /\ f.start = Start /\ f.top = Top /\ f.toptext = TopText
      /\ f.closing = Closing /\ f.closingtext = ClosingText
      /\ f.priced <=> Nights > 0 /\ reservation.price_total # None
      /\ e.base = b
  BY <1>0, <1>f, FrameIs, EnvIs
<1>2. PICK cmds, lines, b0, t0 :
           /\ Holds(f, b0, t0, cmds, lines) /\ (f.priced => Averaged(lines))
           /\ buf = Cat(b0, f.closing) /\ text = Cat(t0, f.closingtext)
  BY <1>0 DEF Reached, Middle
<1>3. /\ Good(cmds, lines, e) /\ buf = Cat(Cat(Cat(Start, Top), cmds), Closing)
      /\ text = Cat(Cat(TopText, lines), ClosingText)
  BY <1>1, <1>2 DEF Holds
<1>4. PICK mid : Makes(cmds, lines, mid, e)
  BY <1>3 DEF Good
<1>5. PICK w : /\ Makes(Foot, <<>>, w, e)
               /\ \A i \in DOMAIN w : Silent(w[i].line) \/ w[i].line = TimeOfPrinting
  BY <1>0, <1>f, GoodTail
<1>o. PICK o, t, n : o = <<>> /\ t = TopPrinted /\ n = BannersPrinted
  OBVIOUS
<1>6. /\ Prints(Start, 1, "left", b, "left", o) /\ Prints(Top, b, "left", b, "left", t)
      /\ Prints(cmds, b, "left", b, "left", mid) /\ Prints(BannerAtBottom, b, "left", b, "left", n)
      /\ Prints(Foot, b, "left", b, "left", w)
  BY <1>0, <1>1, <1>4, <1>5, <1>f, <1>o, StartPrints, TopPrints, BottomPrints DEF Makes
<1>7. /\ o \in Seq(PrintedLines) /\ t \in Seq(PrintedLines) /\ mid \in Seq(PrintedLines)
      /\ n \in Seq(PrintedLines) /\ w \in Seq(PrintedLines)
  BY <1>6 DEF Prints
<1>8. Prints(Cat(Start, Top), 1, "left", b, "left", Cat(o, t))
  BY <1>6, PrintsConcat, Zenon
<1>9. Prints(Cat(Cat(Start, Top), cmds), 1, "left", b, "left", Cat(Cat(o, t), mid))
  BY <1>6, <1>8, PrintsConcat, Zenon
<1>10. Prints(Closing, b, "left", b, "left", Cat(n, w))
  BY <1>6, PrintsConcat, Zenon DEF Closing
<1>11. Prints(buf, 1, "left", b, "left", Cat(Cat(Cat(o, t), mid), Cat(n, w)))
  <2>1. Prints(Cat(Cat(Cat(Start, Top), cmds), Closing), 1, "left", b, "left",
               Cat(Cat(Cat(o, t), mid), Cat(n, w)))
    BY <1>9, <1>10, PrintsConcat, Zenon
  <2> QED BY <1>3, <2>1
<1>12. Cat(Cat(Cat(o, t), mid), Cat(n, w)) = Whole(mid, w)
  <2>1. Cat(o, t) = t
    BY <1>7, <1>o, CatEmpty
  <2>2. Cat(t, mid) \in Seq(PrintedLines)
    BY <1>7, CatType
  <2>3. Cat(Cat(t, mid), Cat(n, w)) = Cat(Cat(Cat(t, mid), n), w)
    BY <1>7, <2>2, CatAssoc
  <2> QED BY <1>o, <2>1, <2>3 DEF Whole
<1>13. Raw(buf) = Whole(mid, w)
  BY <1>11, <1>12, RawPrinted
<1>14. Finished(mid, w, lines, e)
  BY <1>4, <1>5, <1>7, ContentEmpty DEF Makes, Finished
<1>15. buf[1].arg = StationEncoding
  <2>i. PICK i, x, z : /\ i = Cmd("init", StationEncoding) /\ x = Cmd("font", 0)
                       /\ z = Cmd("size", BaseSize)
    OBVIOUS
  <2>1. i \in Seq(Cmds) /\ x \in Seq(Cmds) /\ z \in Seq(Cmds)
    <3>1. Prints(i, 1, "left", 1, "left", <<>>) /\ Prints(x, 1, "left", 1, "left", <<>>)
      BY <1>0, <2>i, PrintsInit
    <3>2. z \in Seq(Cmds)
      BY <1>0, <2>i, EnvIs, CmdTypes
    <3> QED BY <3>1, <3>2 DEF Prints
  <2>2. Top \in Seq(Cmds) /\ cmds \in Seq(Cmds) /\ Closing \in Seq(Cmds)
    BY <1>6, <1>10 DEF Prints
  <2>3. 1 \in DOMAIN i /\ i[1].arg = StationEncoding
    BY <2>i DEF Cmd
  <2>4. buf = Cat(Cat(Cat(Cat(Cat(i, x), z), Top), cmds), Closing)
    BY <1>3, <2>i DEF Start
  <2>6. Starts(i, i[1])
    BY <2>1, <2>3 DEF Starts
  <2>7. Starts(buf, i[1])
    BY <2>1, <2>2, <2>4, <2>6, StartsCat, Zenon
  <2>5. buf[1] = i[1]
    BY <2>7 DEF Starts
  <2> QED BY <2>3, <2>5
<1> QED
  BY <1>1, <1>2, <1>3, <1>13, <1>14, <1>15, <1>f

\* The content of the head and of the banners.
LEMMA TopContent ==
  ASSUME Typed
  PROVE  /\ TopPrinted \in Seq(PrintedLines) /\ BannersPrinted \in Seq(PrintedLines)
         /\ LinesIn(BannersPrinted) = ClosingText
         /\ Content(LinesIn(TopPrinted)) = Content(TopText)
<1>x. PICK x, y, z, h, d, c : /\ x = <<HeaderPrinted>> /\ y = BannersPrinted /\ z = <<DividerPrinted>>
                              /\ h = <<HeaderLine>> /\ d = <<DividerLine>> /\ c = ClosingText
  OBVIOUS
<1>1. HeaderPrinted \in PrintedLines /\ BannerPrinted \in PrintedLines /\ DividerPrinted \in PrintedLines
  <2>1. \A s \in Int : \A a \in Aligns : \A b \in BOOLEAN :
          {Mark(s, a, b)} \in SUBSET [size : Int, align : Aligns, bold : BOOLEAN]
    BY DEF Mark
  <2>2. BaseSize \in Int /\ 3 \in Int /\ "center" \in Aligns
    BY EnvIs DEF Aligns
  <2>m. PICK m, n, k : /\ m = {Mark(BaseSize, "center", TRUE)} /\ n = {Mark(3, "center", TRUE)}
                       /\ k = {Mark(BaseSize, "center", FALSE)}
    OBVIOUS
  <2>3. /\ m \in SUBSET [size : Int, align : Aligns, bold : BOOLEAN]
        /\ n \in SUBSET [size : Int, align : Aligns, bold : BOOLEAN]
        /\ k \in SUBSET [size : Int, align : Aligns, bold : BOOLEAN]
    BY <2>1, <2>2, <2>m
  <2>4. HeaderLine \in Seq(Pieces) /\ Banner \in Seq(Pieces) /\ DividerLine \in Seq(Pieces)
    BY HeaderIs, BannerIs, DividerIs
  <2>5. /\ Printed(HeaderLine, m) \in PrintedLines /\ Printed(Banner, n) \in PrintedLines
        /\ Printed(DividerLine, k) \in PrintedLines
    BY <2>3, <2>4 DEF Printed, PrintedLines
  <2> QED BY <2>5, <2>m DEF HeaderPrinted, BannerPrinted, DividerPrinted
<1>2. HeaderPrinted.line = HeaderLine /\ BannerPrinted.line = Banner /\ DividerPrinted.line = DividerLine
  BY DEF HeaderPrinted, BannerPrinted, DividerPrinted, Printed
<1>3. /\ <<HeaderPrinted>> \in Seq(PrintedLines) /\ <<BannerPrinted>> \in Seq(PrintedLines)
      /\ <<DividerPrinted>> \in Seq(PrintedLines) /\ <<>> \in Seq(PrintedLines)
  BY <1>1
<1>4. x \in Seq(PrintedLines) /\ y \in Seq(PrintedLines) /\ z \in Seq(PrintedLines)
  BY <1>3, <1>x DEF BannersPrinted
<1>5. LinesIn(x) = h /\ LinesIn(z) = d
  BY <1>1, <1>2, <1>x, LinesInOne
<1>6. LinesIn(y) = c
  <2>1. LinesIn(<<BannerPrinted>>) = <<Banner>> /\ LinesIn(<<>>) = <<>>
    BY <1>1, <1>2, LinesInOne
  <2> QED BY <1>x, <2>1 DEF BannersPrinted, ClosingText
<1>7. LinesIn(Cat(Cat(x, y), z)) = Cat(Cat(h, c), d)
  <2>1. LinesIn(Cat(x, y)) = Cat(h, c) /\ Cat(x, y) \in Seq(PrintedLines)
    BY <1>4, <1>5, <1>6, LinesInCat, CatType
  <2> QED BY <1>4, <1>5, <2>1, LinesInCat
<1>8. h \in Seq(Seq(Pieces)) /\ c \in Seq(Seq(Pieces)) /\ d \in Seq(Seq(Pieces))
  BY <1>4, <1>5, <1>6, LinesInType
<1>9. Content(Cat(Cat(h, c), d)) = Content(Cat(h, c))
  <2>1. Cat(h, c) \in Seq(Seq(Pieces))
    BY <1>8, CatType
  <2>2. Content(Cat(Cat(h, c), d)) = Cat(Content(Cat(h, c)), Content(d))
    BY <1>8, <2>1, ContentCat
  <2>3. Content(d) = <<>>
    BY <1>x, DividerIs, ContentOne
  <2>4. Content(Cat(h, c)) \in Seq(Seq(Pieces))
    BY <2>1, ContentIs
  <2> QED BY <2>2, <2>3, <2>4, CatEmpty
<1>10. TopText = Cat(h, c)
  BY <1>x DEF TopText, ClosingText
<1>11. Cat(Cat(x, y), z) \in Seq(PrintedLines)
  BY <1>4, CatType
<1> QED
  BY <1>4, <1>6, <1>7, <1>9, <1>10, <1>11, <1>x DEF TopPrinted

LEMMA WholeType ==
  ASSUME Typed, NEW mid, NEW w, NEW lines, NEW e, Finished(mid, w, lines, e)
  PROVE  Whole(mid, w) \in Seq(PrintedLines)
<1>1. /\ TopPrinted \in Seq(PrintedLines) /\ BannersPrinted \in Seq(PrintedLines)
      /\ mid \in Seq(PrintedLines) /\ w \in Seq(PrintedLines)
  BY TopContent DEF Finished
<1> QED
  BY <1>1, CatType DEF Whole

\* What the receipt says.
LEMMA ReceiptSays ==
  ASSUME Typed, NEW mid, NEW w, NEW lines, NEW e, Finished(mid, w, lines, e),
         NEW t, t = Cat(Cat(TopText, lines), ClosingText)
  PROVE  /\ Content(LinesIn(Whole(mid, w))) = Content(t) /\ t \in Seq(Seq(Pieces))
         /\ Content(t) = Cat(Cat(Content(TopText), Content(lines)), Content(ClosingText))
<1>n. PICK p, n, tt, c : /\ p = TopPrinted /\ n = BannersPrinted /\ tt = TopText /\ c = ClosingText
  OBVIOUS
<1>1. /\ p \in Seq(PrintedLines) /\ n \in Seq(PrintedLines)
      /\ mid \in Seq(PrintedLines) /\ w \in Seq(PrintedLines)
      /\ lines \in Seq(Seq(Pieces)) /\ tt \in Seq(Seq(Pieces)) /\ c \in Seq(Seq(Pieces))
  BY <1>n, TopContent, TextTypes DEF Finished
<1>2. /\ Content(LinesIn(p)) = Content(tt) /\ LinesIn(n) = c
      /\ Content(LinesIn(mid)) = Content(lines) /\ Content(LinesIn(w)) = <<>>
  BY <1>n, TopContent DEF Finished
<1>3. \A u, v \in Seq(PrintedLines) :
        /\ Cat(u, v) \in Seq(PrintedLines)
        /\ Content(LinesIn(Cat(u, v))) = Cat(Content(LinesIn(u)), Content(LinesIn(v)))
  <2>1. ASSUME NEW u \in Seq(PrintedLines), NEW v \in Seq(PrintedLines)
        PROVE  Content(LinesIn(Cat(u, v))) = Cat(Content(LinesIn(u)), Content(LinesIn(v)))
    <3>1. LinesIn(Cat(u, v)) = Cat(LinesIn(u), LinesIn(v))
      BY LinesInCat
    <3>2. LinesIn(u) \in Seq(Seq(Pieces)) /\ LinesIn(v) \in Seq(Seq(Pieces))
      BY LinesInType
    <3> QED BY <3>1, <3>2, ContentCat
  <2> QED BY <2>1, CatType
<1>4. Content(LinesIn(Cat(Cat(Cat(p, mid), n), w)))
        = Cat(Cat(Cat(Content(tt), Content(lines)), Content(c)), <<>>)
  BY <1>1, <1>2, <1>3
<1>5. \A u, v \in Seq(Seq(Pieces)) :
        Cat(u, v) \in Seq(Seq(Pieces)) /\ Content(Cat(u, v)) = Cat(Content(u), Content(v))
  BY CatType, ContentCat
<1>6. t = Cat(Cat(tt, lines), c)
  BY <1>n
<1>7. t \in Seq(Seq(Pieces)) /\ Content(t) = Cat(Cat(Content(tt), Content(lines)), Content(c))
  BY <1>1, <1>5, <1>6
<1>8. Content(t) \in Seq(Seq(Pieces))
  BY <1>7, ContentIs
<1>9. Cat(Content(t), <<>>) = Content(t)
  BY <1>8, CatEmpty
<1> QED
  BY <1>4, <1>7, <1>9, <1>n DEF Whole

\* What the agent's receipt says.
LEMMA AgentSays ==
  ASSUME Typed, text \in Seq(Seq(Pieces))
  PROVE  /\ Content(LinesIn(Raw(RenderJob))) = Content(text) /\ RenderJob[1].arg = AgentEncoding
         /\ Raw(RenderJob) \in Seq(PrintedLines)
<1>t. PICK t, o, e : t = text /\ o = <<>> /\ e = <<<<>>>>
  OBVIOUS
<1>c. PICK i, f, l, n, c : /\ i = Cmd("init", AgentEncoding) /\ f = FlattenSeq(RenderLines(t)) /\ l = Line(<<>>)
                           /\ n = Cmd("newline", 3) /\ c = Cmd("cut", 0)
  OBVIOUS
<1>0. o \in Seq(Seq(Pieces)) /\ e \in Seq(Seq(Pieces)) /\ t \in Seq(Seq(Pieces)) /\ <<>> \in Seq(Pieces)
  BY <1>t
<1>1. Renders(i, o) /\ Renders(c, o)
  <2>1. /\ Prints(i, 1, "left", 1, "left", <<>>) /\ Prints(c, 1, "left", 1, "left", <<>>)
    BY <1>c, PrintsInit
  <2>2. LinesIn(<<>>) = <<>>
    BY DEF LinesIn
  <2> QED BY <1>t, <2>1, <2>2 DEF Renders
<1>2. Renders(f, t)
  BY <1>0, <1>c, RendersText
<1>3. Renders(l, e)
  BY <1>0, <1>c, <1>t, RendersLine
<1>4. Renders(n, e)
  <2>y. PICK y : y = Printed(<<>>, {})
    OBVIOUS
  <2>0. y \in PrintedLines /\ y.line = <<>>
    BY <2>y DEF Printed, PrintedLines
  <2>f. PICK b, k, m : b = FALSE /\ k = <<>> /\ m = {}
    OBVIOUS
  <2>1. <<y>> \in Seq(PrintedLines) /\ \A pp \in Seq(PrintedLines) : Append(pp, y) = Cat(pp, <<y>>)
    <3>1. <<>> \in Seq(Pieces) /\ {} \in SUBSET [size : Int, align : Aligns, bold : BOOLEAN]
      OBVIOUS
    <3> QED BY <2>y, <3>1, PrintedType
  <2>2. n \in Seq(Cmds)
    BY <1>c, CmdTypes
  <2>3. ASSUME NEW pp \in Seq(PrintedLines)
        PROVE  Run(Ready(1, "left", pp), n) = Ready(1, "left", Cat(pp, <<y>>))
    <3>1. Run(Printer(1, "left", b, m, k, pp), n)
            = Printer(1, "left", b, {}, <<>>, Append(pp, Printed(k, m)))
      BY <1>c, DoesNewline
    <3>2. Ready(1, "left", pp) = Printer(1, "left", b, m, k, pp)
      BY <2>f DEF Ready
    <3>3. Printer(1, "left", b, {}, <<>>, Append(pp, y)) = Ready(1, "left", Append(pp, y))
      BY <2>f DEF Ready
    <3>4. y = Printed(k, m)
      BY <2>y, <2>f
    <3> QED BY <2>1, <3>1, <3>2, <3>3, <3>4
  <2>4. Prints(n, 1, "left", 1, "left", <<y>>)
    BY <2>1, <2>2, <2>3 DEF Prints
  <2>5. LinesIn(<<y>>) = e
    BY <1>t, <2>0, LinesInOne
  <2> QED BY <2>4, <2>5 DEF Renders
<1>5. Renders(Cat(Cat(Cat(Cat(i, f), l), n), c), Cat(Cat(Cat(Cat(o, t), e), e), o))
  <2>1. Renders(Cat(i, f), Cat(o, t))
    BY <1>1, <1>2, RendersCat
  <2>2. Renders(Cat(Cat(i, f), l), Cat(Cat(o, t), e))
    BY <1>3, <2>1, RendersCat
  <2>3. Renders(Cat(Cat(Cat(i, f), l), n), Cat(Cat(Cat(o, t), e), e))
    BY <1>4, <2>2, RendersCat
  <2> QED BY <1>1, <2>3, RendersCat
<1>6. RenderJob = Cat(Cat(Cat(Cat(i, f), l), n), c)
  BY <1>c, <1>t DEF RenderJob, RenderLines, Cat
<1>7. /\ LinesIn(Raw(RenderJob)) = Cat(Cat(Cat(Cat(o, t), e), e), o)
      /\ Raw(RenderJob) \in Seq(PrintedLines)
  <2>r. PICK r, x : r = RenderJob /\ x = Cat(Cat(Cat(Cat(o, t), e), e), o)
    OBVIOUS
  <2>1. PICK new : Prints(r, 1, "left", 1, "left", new) /\ LinesIn(new) = x
    BY <1>5, <1>6, <2>r DEF Renders
  <2>2. Raw(r) = new
    BY <2>1, RawPrinted
  <2>3. new \in Seq(PrintedLines)
    BY <2>1 DEF Prints
  <2> QED BY <2>1, <2>2, <2>3, <2>r
<1>8. \A u, v \in Seq(Seq(Pieces)) :
        Cat(u, v) \in Seq(Seq(Pieces)) /\ Content(Cat(u, v)) = Cat(Content(u), Content(v))
  BY CatType, ContentCat
<1>9. Content(e) = o /\ Content(o) = o
  <2>1. Heard(<<>>) = <<>>
    BY DEF Heard, Silent
  <2>2. Content(<<<<>>>>) = Heard(<<>>)
    BY <1>0, ContentOne
  <2> QED BY <1>t, <2>1, <2>2, ContentEmpty
<1>10. Content(Cat(Cat(Cat(Cat(o, t), e), e), o)) = Cat(Cat(Cat(Cat(o, Content(t)), o), o), o)
  BY <1>0, <1>8, <1>9
<1>11. Cat(o, Content(t)) = Content(t) /\ Cat(Content(t), o) = Content(t)
  BY <1>0, <1>t, ContentIs, CatEmpty
<1>12. RenderJob[1].arg = AgentEncoding
  <2>1. i \in Seq(Cmds) /\ f \in Seq(Cmds) /\ l \in Seq(Cmds) /\ n \in Seq(Cmds) /\ c \in Seq(Cmds)
    BY <1>1, <1>2, <1>3, <1>4 DEF Renders, Prints
  <2>2. 1 \in DOMAIN i /\ i[1].arg = AgentEncoding
    BY <1>c DEF Cmd
  <2>3. Cat(Cat(Cat(Cat(Cat(i, f), l), n), c), <<>>) = RenderJob
    <3>1. Cat(Cat(Cat(Cat(i, f), l), n), c) \in Seq(Cmds)
      BY <2>1, CatType
    <3> QED BY <1>6, <3>1, CatEmpty
  <2>4. <<>> \in Seq(Cmds)
    OBVIOUS
  <2>6. Starts(i, i[1])
    BY <2>1, <2>2 DEF Starts
  <2>7. Starts(RenderJob, i[1])
    BY <2>1, <2>3, <2>4, <2>6, StartsCat, Zenon
  <2>5. RenderJob[1] = i[1]
    BY <2>7 DEF Starts
  <2> QED BY <2>2, <2>5
<1> QED
  BY <1>7, <1>10, <1>11, <1>12, <1>t

-----------------------------------------------------------------------------
(* What an encoding makes of the lines: another letter here and there. *)

EncPiece(enc, p) ==
  CASE p.letters \in enc.has -> p
    [] p.letters \in enc.fits \ enc.has -> In("look-alikes", p)
    [] OTHER -> In("?", p)
EncAll(enc, lines) == [i \in 1 .. Len(lines) |-> Encoded(enc, lines[i])]

LEMMA EncPieceIs ==
  ASSUME NEW enc, Reads(enc), NEW p \in Pieces, NEW q, q = EncPiece(enc, p)
  PROVE  /\ q \in Pieces /\ q.kind = p.kind /\ q.what = p.what /\ q.len = p.len /\ q.n = p.n
         /\ p.letters = "ascii" => q = p
         /\ q.letters = "ascii" => q = p
         /\ q = p \/ q = In("?", p) \/ (q = In("look-alikes", p) /\ enc.fits # {})
<1>1. q = p \/ q = In("?", p) \/ (q = In("look-alikes", p) /\ enc.fits # {})
  BY DEF EncPiece
<1>2. p.letters = "ascii" => q = p
  BY DEF EncPiece, Reads
<1>3. CASE q = p
  BY <1>1, <1>2, <1>3
<1>4. CASE q = In("?", p)
  <2>1. /\ q \in Pieces /\ q.kind = p.kind /\ q.what = p.what /\ q.len = p.len /\ q.n = p.n
        /\ q.letters = "?"
    <3>s. PICK s : s = "?"
      OBVIOUS
    <3>1. q = In(s, p) /\ s \in Alphabets
      BY <1>4, <3>s, Written
    <3>2. /\ q \in Pieces /\ q.kind = p.kind /\ q.what = p.what /\ q.len = p.len /\ q.n = p.n
          /\ q.letters = s
      BY <3>1, InIs
    <3> QED BY <3>2, <3>s
  <2> QED BY <1>1, <1>2, <2>1
<1>5. CASE q = In("look-alikes", p)
  <2>1. /\ q \in Pieces /\ q.kind = p.kind /\ q.what = p.what /\ q.len = p.len /\ q.n = p.n
        /\ q.letters = "look-alikes"
    <3>s. PICK s : s = "look-alikes"
      OBVIOUS
    <3>1. q = In(s, p) /\ s \in Alphabets
      BY <1>5, <3>s, Written
    <3>2. /\ q \in Pieces /\ q.kind = p.kind /\ q.what = p.what /\ q.len = p.len /\ q.n = p.n
          /\ q.letters = s
      BY <3>1, InIs
    <3> QED BY <3>2, <3>s
  <2> QED BY <1>1, <1>2, <2>1
<1> QED
  BY <1>1, <1>3, <1>4, <1>5

LEMMA EncodedIs ==
  ASSUME NEW enc, Reads(enc), NEW l \in Seq(Pieces), NEW e, e = Encoded(enc, l)
  PROVE  /\ e \in Seq(Pieces) /\ Len(e) = Len(l) /\ DOMAIN e = DOMAIN l
         /\ \A k \in DOMAIN l : e[k] = EncPiece(enc, l[k])
         /\ \A k \in DOMAIN l : /\ e[k].kind = l[k].kind /\ e[k].what = l[k].what
                                /\ e[k].len = l[k].len /\ e[k].n = l[k].n
<1>n. PICK n \in Nat : n = Len(l) /\ DOMAIN l = 1 .. n
  OBVIOUS
<1>1. DOMAIN e = 1 .. n /\ \A k \in 1 .. n : e[k] = EncPiece(enc, l[k])
  BY <1>n DEF Encoded, EncPiece
<1>2. \A k \in 1 .. n : l[k] \in Pieces
  BY <1>n
<1>3. \A k \in 1 .. n : /\ e[k] \in Pieces /\ e[k].kind = l[k].kind /\ e[k].what = l[k].what
                        /\ e[k].len = l[k].len /\ e[k].n = l[k].n
  BY <1>1, <1>2, EncPieceIs
<1>4. e = [k \in 1 .. n |-> e[k]]
  BY <1>n DEF Encoded
<1>5. e \in [1 .. n -> Pieces]
  BY <1>3, <1>4
<1>6. e \in Seq(Pieces) /\ Len(e) = n
  BY <1>5
<1> QED
  BY <1>1, <1>3, <1>6, <1>n

\* A line of plain letters is itself, and no other line becomes one.
Ascii(line) == \A k \in DOMAIN line : line[k].letters = "ascii"

LEMMA EncodedSame ==
  ASSUME NEW enc, Reads(enc), NEW c \in Seq(Pieces), Ascii(c), NEW l \in Seq(Pieces)
  PROVE  Encoded(enc, l) = c <=> l = c
<1>e. PICK e : e = Encoded(enc, l)
  OBVIOUS
<1>1. /\ e \in Seq(Pieces) /\ Len(e) = Len(l) /\ DOMAIN e = DOMAIN l
      /\ \A k \in DOMAIN l : e[k] = EncPiece(enc, l[k])
  BY <1>e, EncodedIs
<1>2. \A k \in DOMAIN l : l[k] \in Pieces
  OBVIOUS
<1>3. \A k \in DOMAIN l : l[k].letters = "ascii" \/ e[k].letters = "ascii" => e[k] = l[k]
  BY <1>1, <1>2, EncPieceIs
<1>4. (\A k \in DOMAIN l : e[k] = l[k]) => e = l
  BY <1>1
<1>5. CASE e = c
  BY <1>1, <1>3, <1>4, <1>5, <1>e DEF Ascii
<1>6. CASE l = c
  BY <1>1, <1>3, <1>4, <1>6, <1>e DEF Ascii
<1> QED
  BY <1>5, <1>6, <1>e

LEMMA PlainLines ==
  /\ Banner \in Seq(Pieces) /\ Ascii(Banner)
  /\ TimeOfPrinting \in Seq(Pieces) /\ Ascii(TimeOfPrinting)
<1>t. PICK t, p, b, q : /\ t = TimeOfPrinting /\ p = Value("Printed", 28) /\ b = Banner
                        /\ q = Value("*** PREKLICANO ***", 18)
  OBVIOUS
<1>1. p \in Pieces
  <2>1. "Printed" \in Ordinary /\ 28 \in Nat
    BY DEF Ordinary
  <2> QED BY <1>t, <2>1, ValueIs
<1>2. p.letters = "ascii" /\ q.letters = "ascii"
  BY <1>t DEF Value, Piece
<1>3. t = <<p>> /\ b = <<q>>
  BY <1>t DEF TimeOfPrinting, Banner
<1>4. t \in Seq(Pieces) /\ DOMAIN t = {1} /\ t[1] = p /\ DOMAIN b = {1} /\ b[1] = q
  BY <1>1, <1>3
<1>5. Ascii(t) /\ Ascii(b)
  BY <1>2, <1>4 DEF Ascii
<1> QED
  BY <1>4, <1>5, <1>t, BannerIs

LEMMA EncodedSilent ==
  ASSUME NEW enc, Reads(enc), NEW l \in Seq(Pieces)
  PROVE  /\ Silent(Encoded(enc, l)) <=> Silent(l)
         /\ Encoded(enc, l) = TimeOfPrinting <=> l = TimeOfPrinting
         /\ Encoded(enc, l) = Banner <=> l = Banner
<1>e. PICK e : e = Encoded(enc, l)
  OBVIOUS
<1>1. DOMAIN e = DOMAIN l /\ \A k \in DOMAIN l : e[k].kind = l[k].kind
  BY <1>e, EncodedIs
<1>2. Silent(e) <=> Silent(l)
  BY <1>1 DEF Silent
<1> QED
  BY <1>2, <1>e, PlainLines, EncodedSame

LEMMA EncodedSays ==
  ASSUME NEW enc, Reads(enc), NEW l \in Seq(Pieces)
  PROVE  Says(Encoded(enc, l)) = Encoded(enc, Says(l))
<1>e. PICK e, s, a, b : /\ e = Encoded(enc, l) /\ s = Says(l) /\ a = Says(e)
                        /\ b = Encoded(enc, s)
  OBVIOUS
<1>1. /\ e \in Seq(Pieces) /\ DOMAIN e = DOMAIN l /\ Len(e) = Len(l)
      /\ \A k \in DOMAIN l : e[k] = EncPiece(enc, l[k]) /\ e[k].kind = l[k].kind
  BY <1>e, EncodedIs
<1>2. s \in Seq(Pieces) /\ a \in Seq(Pieces)
  BY <1>1, <1>e, SaysType
<1>g. PICK g : g = Gap(1)
  OBVIOUS
<1>3. g \in Pieces /\ g.letters = "ascii"
  <2>1. 1 \in Nat
    OBVIOUS
  <2>2. Gap(1).letters = "ascii"
    BY DEF Gap, Piece
  <2> QED BY <1>g, <2>1, <2>2, GapType
<1>4. EncPiece(enc, g) = g
  BY <1>3, EncPieceIs
<1>5. /\ DOMAIN s = DOMAIN l /\ DOMAIN a = DOMAIN l
      /\ \A k \in DOMAIN l : s[k] = IF l[k].kind = "gap" THEN g ELSE l[k]
      /\ \A k \in DOMAIN l : a[k] = IF e[k].kind = "gap" THEN g ELSE e[k]
  BY <1>1, <1>e, <1>g DEF Says
<1>6. /\ b \in Seq(Pieces) /\ DOMAIN b = DOMAIN s
      /\ \A k \in DOMAIN s : b[k] = EncPiece(enc, s[k])
  BY <1>2, <1>e, EncodedIs
<1>7. \A k \in DOMAIN l : a[k] = b[k]
  BY <1>1, <1>4, <1>5, <1>6
<1>8. a = b
  BY <1>2, <1>5, <1>6, <1>7
<1> QED
  BY <1>8, <1>e

LEMMA FunctionIsSeq ==
  ASSUME NEW T, NEW n \in Nat, NEW a \in [1 .. n -> T]
  PROVE  a \in Seq(T) /\ Len(a) = n /\ DOMAIN a = 1 .. n
OBVIOUS

LEMMA EncAllType ==
  ASSUME NEW enc, Reads(enc), NEW s \in Seq(Seq(Pieces)), NEW a, a = EncAll(enc, s)
  PROVE  /\ a \in Seq(Seq(Pieces)) /\ Len(a) = Len(s) /\ DOMAIN a = 1 .. Len(s)
         /\ \A i \in 1 .. Len(s) : a[i] = Encoded(enc, s[i])
<1>n. PICK n, T : n \in Nat /\ n = Len(s) /\ T = Seq(Pieces)
  OBVIOUS
<1>1. \A i \in 1 .. n : s[i] \in T
  BY <1>n
<1>2. \A i \in 1 .. n : Encoded(enc, s[i]) \in T
  BY <1>1, <1>n, EncodedIs
<1>3. a \in [1 .. n -> T] /\ \A i \in 1 .. n : a[i] = Encoded(enc, s[i])
  BY <1>2, <1>n DEF EncAll
<1>4. a \in Seq(T) /\ Len(a) = n /\ DOMAIN a = 1 .. n
  <2>1. a \in [1 .. n -> T] /\ n \in Nat
    BY <1>3, <1>n
  <2> QED BY <2>1, FunctionIsSeq, Zenon
<1> QED
  BY <1>3, <1>4, <1>n

LEMMA EncAllCat ==
  ASSUME NEW enc, Reads(enc), NEW s \in Seq(Seq(Pieces)), NEW t \in Seq(Seq(Pieces))
  PROVE  EncAll(enc, Cat(s, t)) = Cat(EncAll(enc, s), EncAll(enc, t))
<1>u. PICK u, a, b, c, T : /\ u = Cat(s, t) /\ a = EncAll(enc, s) /\ b = EncAll(enc, t)
                           /\ c = EncAll(enc, u) /\ T = Seq(Pieces)
  OBVIOUS
<1>1. u \in Seq(T) /\ s \in Seq(T) /\ t \in Seq(T)
  BY <1>u, CatType
<1>2. \A v \in Seq(T) : /\ EncAll(enc, v) \in Seq(T) /\ Len(EncAll(enc, v)) = Len(v)
                        /\ \A i \in 1 .. Len(v) : v[i] \in T /\ EncAll(enc, v)[i] = Encoded(enc, v[i])
  <2>1. ASSUME NEW v \in Seq(T)
        PROVE  /\ EncAll(enc, v) \in Seq(T) /\ Len(EncAll(enc, v)) = Len(v)
               /\ \A i \in 1 .. Len(v) : v[i] \in T /\ EncAll(enc, v)[i] = Encoded(enc, v[i])
    <3>1. \A i \in 1 .. Len(v) : v[i] \in T
      OBVIOUS
    <3>2. v \in Seq(Seq(Pieces))
      BY <1>u
    <3> QED BY <1>u, <3>1, <3>2, EncAllType
  <2> QED BY <2>1
<1>f. PICK f : f = [l \in T |-> Encoded(enc, l)]
  OBVIOUS
<1>3. \A v \in Seq(T) : IsImage(EncAll(enc, v), v, f)
  BY <1>2, <1>f DEF IsImage
<1>4. c = Cat(a, b)
  BY <1>1, <1>2, <1>3, <1>u, ImageCat
<1> QED
  BY <1>4, <1>u

LEMMA EncodedHeard ==
  ASSUME NEW enc, Reads(enc), NEW l \in Seq(Pieces)
  PROVE  Heard(Encoded(enc, l)) = EncAll(enc, Heard(l))
<1>e. PICK e, s, d : e = Encoded(enc, l) /\ s = Says(l) /\ d = Encoded(enc, s)
  OBVIOUS
<1>1. /\ Silent(e) <=> Silent(l)
      /\ e = TimeOfPrinting <=> l = TimeOfPrinting
  BY <1>e, EncodedSilent
<1>2. Says(e) = d
  BY <1>e, EncodedSays
<1>3. EncAll(enc, <<>>) = <<>>
  BY DEF EncAll
<1>4. EncAll(enc, <<s>>) = <<d>>
  <2>a. PICK a, x : a = EncAll(enc, x) /\ x = <<s>>
    OBVIOUS
  <2>0. s \in Seq(Pieces)
    BY <1>e, SaysType
  <2>1. x \in Seq(Seq(Pieces)) /\ Len(x) = 1 /\ x[1] = s
    BY <2>0, <2>a
  <2>4. /\ a \in Seq(Seq(Pieces)) /\ Len(a) = Len(x)
        /\ \A i \in 1 .. Len(x) : a[i] = Encoded(enc, x[i])
    BY <2>1, <2>a, EncAllType, Zenon
  <2>2. a \in Seq(Seq(Pieces)) /\ Len(a) = 1 /\ a[1] = Encoded(enc, s)
    BY <2>1, <2>4
  <2>3. a = <<d>>
    BY <1>e, <2>2
  <2> QED BY <2>a, <2>3
<1>5. CASE Silent(l) \/ l = TimeOfPrinting
  BY <1>1, <1>3, <1>5, <1>e DEF Heard
<1>6. CASE ~(Silent(l) \/ l = TimeOfPrinting)
  BY <1>1, <1>2, <1>4, <1>6, <1>e DEF Heard
<1> QED
  BY <1>5, <1>6

\* The content is encoded line by line.
LEMMA ContentEncoded ==
  ASSUME NEW enc, Reads(enc), NEW s \in Seq(Seq(Pieces))
  PROVE  Content(EncAll(enc, s)) = EncAll(enc, Content(s))
<1>T. PICK T, n, a, g, k : /\ T = Seq(Pieces) /\ n = Len(s) /\ a = EncAll(enc, s)
                           /\ g = Hearing(s) /\ k = Hearing(a)
  OBVIOUS
<1>0. n \in Nat /\ \A i \in 1 .. n : s[i] \in Seq(Pieces)
  BY <1>T
<1>1. /\ a \in Seq(T) /\ Len(a) = n /\ \A i \in 1 .. n : a[i] = Encoded(enc, s[i])
  BY <1>T, EncAllType
<1>2. g \in Seq(Seq(T)) /\ Len(g) = n /\ k \in Seq(Seq(T)) /\ Len(k) = n
  BY <1>1, <1>T, HearingType
<1>3. \A i \in 1 .. n : g[i] \in Seq(T) /\ k[i] = EncAll(enc, g[i])
  <2>1. ASSUME NEW i \in 1 .. n PROVE g[i] \in Seq(T) /\ k[i] = EncAll(enc, g[i])
    <3>1. g[i] = Heard(s[i]) /\ k[i] = Heard(a[i])
      BY <1>1, <1>T DEF Hearing
    <3>2. g[i] \in Seq(T)
      BY <1>2
    <3> QED BY <1>0, <1>1, <3>1, <3>2, EncodedHeard
  <2> QED BY <2>1
<1>4. PICK h \in [0 .. n -> Seq(T)] : Flat(h, g)
  BY <1>2, FlatExists
<1>5. h[0] = <<>> /\ \A i \in 1 .. n : h[i] = Cat(h[i - 1], g[i])
  BY <1>2, <1>4 DEF Flat
<1>d. PICK d : d = [i \in 0 .. n |-> EncAll(enc, h[i])]
  OBVIOUS
<1>6. d \in [0 .. n -> Seq(T)] /\ \A i \in 0 .. n : d[i] = EncAll(enc, h[i])
  <2>1. \A i \in 0 .. n : EncAll(enc, h[i]) \in Seq(T)
    BY <1>4, <1>T, EncAllType
  <2> QED BY <1>d, <2>1
<1>7. d[0] = <<>>
  <2>1. 0 \in 0 .. n
    BY <1>0
  <2> QED BY <1>5, <1>6, <2>1 DEF EncAll
<1>8. ASSUME NEW i \in 1 .. n PROVE d[i] = Cat(d[i - 1], k[i])
  <2>1. i \in 0 .. n /\ i - 1 \in 0 .. n
    BY <1>0
  <2>2. h[i - 1] \in Seq(T) /\ g[i] \in Seq(T) /\ h[i] = Cat(h[i - 1], g[i])
    BY <1>3, <1>4, <1>5, <2>1
  <2>3. EncAll(enc, Cat(h[i - 1], g[i])) = Cat(EncAll(enc, h[i - 1]), EncAll(enc, g[i]))
    BY <1>T, <2>2, EncAllCat
  <2> QED BY <1>3, <1>6, <2>1, <2>2, <2>3
<1>9. Flat(d, k)
  BY <1>2, <1>7, <1>8 DEF Flat
<1>10. FlattenSeq(k) = d[n] /\ FlattenSeq(g) = h[n]
  BY <1>2, <1>4, <1>6, <1>9, FlattenIs
<1>11. n \in 0 .. n
  BY <1>0
<1>12. Content(s) = FlattenSeq(g) /\ Content(a) = FlattenSeq(k)
  BY <1>1, <1>T, ContentIs
<1> QED
  BY <1>6, <1>10, <1>11, <1>12, <1>T

\* A line is as long as before.
LEMMA TotalEncoded ==
  ASSUME NEW enc, Reads(enc), NEW l \in Seq(Pieces)
  PROVE  Total(Encoded(enc, l)) = Total(l)
<1>e. PICK e, n : e = Encoded(enc, l) /\ n = Len(l)
  OBVIOUS
<1>1. e \in Seq(Pieces) /\ Len(e) = n /\ \A k \in 1 .. n : e[k].len = l[k].len
  <2>1. /\ e \in Seq(Pieces) /\ Len(e) = Len(l) /\ \A k \in DOMAIN l : e[k].len = l[k].len
    BY <1>e, EncodedIs
  <2> QED BY <1>e, <2>1
<1>2. PICK h : Folds(h, "total", 0, l) /\ h[n] = Fold("total", 0, l)
  BY <1>e, FoldFolds
<1>3. Folds(h, "total", 0, e)
  BY <1>1, <1>2, <1>e DEF Folds, Op
<1>4. Fold("total", 0, e) = h[n]
  BY <1>1, <1>3, FoldIs
<1> QED
  BY <1>1, <1>2, <1>4, <1>e, TotalIsFold

\* The paper is what the commands print, encoded.
LEMMA PaperIs ==
  ASSUME NEW cmds, NEW q, q = Raw(cmds), q \in Seq(PrintedLines),
         NEW enc, enc = cmds[1].arg, Reads(enc), NEW p, p = Paper(cmds)
  PROVE  /\ DOMAIN p = 1 .. Len(q) /\ DOMAIN q = 1 .. Len(q) /\ Len(p) = Len(q)
         /\ \A i \in 1 .. Len(q) : /\ q[i].line \in Seq(Pieces)
                                   /\ p[i].line = Encoded(enc, q[i].line) /\ p[i].marks = q[i].marks
         /\ PaperLines(cmds) = EncAll(enc, LinesIn(q))
<1>n. PICK n \in Nat : n = Len(q) /\ DOMAIN q = 1 .. n
  OBVIOUS
<1>1. p = [i \in 1 .. n |-> [q[i] EXCEPT !.line = Encoded(enc, @)]]
  BY <1>n DEF Paper, Raw, Run
<1>2. DOMAIN p = 1 .. n /\ Len(p) = n
  BY <1>1
<1>3. \A i \in 1 .. n : q[i] \in PrintedLines
  BY <1>n
<1>4. ASSUME NEW i \in 1 .. n
      PROVE  /\ q[i].line \in Seq(Pieces)
             /\ p[i].line = Encoded(enc, q[i].line) /\ p[i].marks = q[i].marks
  <2>1. p[i] = [q[i] EXCEPT !.line = Encoded(enc, @)]
    BY <1>1
  <2> QED BY <1>3, <2>1 DEF PrintedLines
<1>5. PaperLines(cmds) = [i \in 1 .. n |-> p[i].line]
  BY <1>2 DEF PaperLines
<1>6. LinesIn(q) = [i \in 1 .. n |-> q[i].line] /\ Len(LinesIn(q)) = n
  BY <1>n, LinesInType DEF LinesIn
<1>7. EncAll(enc, LinesIn(q)) = [i \in 1 .. n |-> Encoded(enc, q[i].line)]
  BY <1>6 DEF EncAll
<1>8. PaperLines(cmds) = EncAll(enc, LinesIn(q))
  BY <1>4, <1>5, <1>7
<1> QED
  BY <1>2, <1>4, <1>8, <1>n

-----------------------------------------------------------------------------
(* The receipt's properties. *)

\* The content of the two printouts is one content, encoded twice.
LEMMA TwoEncodings ==
  ASSUME IInv, section = "cut"
  PROVE  /\ Content(text) \in Seq(Seq(Pieces))
         /\ Content(PaperLines(buf)) = EncAll(StationEncoding, Content(text))
         /\ Content(PaperLines(RenderJob)) = EncAll(AgentEncoding, Content(text))
<1>0. Typed
  BY DEF IInv
<1>1. PICK mid, w, lines : /\ Finished(mid, w, lines, Env) /\ Raw(buf) = Whole(mid, w)
                           /\ text = Cat(Cat(TopText, lines), ClosingText)
                           /\ buf[1].arg = StationEncoding
  BY ReceiptIs
<1>t. PICK t, e, q, r, se, ae : /\ t = text /\ e = Env /\ q = Raw(buf) /\ r = Raw(RenderJob)
                                /\ se = StationEncoding /\ ae = AgentEncoding
  OBVIOUS
<1>2. /\ Content(LinesIn(q)) = Content(t) /\ t \in Seq(Seq(Pieces))
  BY <1>0, <1>1, <1>t, ReceiptSays
<1>3. q \in Seq(PrintedLines)
  BY <1>0, <1>1, <1>t, WholeType
<1>4. Reads(se) /\ Reads(ae)
  BY <1>0, <1>t, EncodingsAre
<1>5. /\ Content(LinesIn(r)) = Content(t) /\ RenderJob[1].arg = ae /\ r \in Seq(PrintedLines)
  BY <1>0, <1>2, <1>t, AgentSays
<1>6. PaperLines(buf) = EncAll(se, LinesIn(q)) /\ PaperLines(RenderJob) = EncAll(ae, LinesIn(r))
  <2>1. buf[1].arg = se
    BY <1>1, <1>t
  <2>2. PaperLines(buf) = EncAll(se, LinesIn(q))
    BY <1>3, <1>4, <1>t, <2>1, PaperIs
  <2>3. PaperLines(RenderJob) = EncAll(ae, LinesIn(r))
    BY <1>4, <1>5, <1>t, PaperIs
  <2> QED BY <2>2, <2>3
<1>7. LinesIn(q) \in Seq(Seq(Pieces)) /\ LinesIn(r) \in Seq(Seq(Pieces))
  BY <1>3, <1>5, LinesInType
<1>8. /\ Content(EncAll(se, LinesIn(q))) = EncAll(se, Content(LinesIn(q)))
      /\ Content(EncAll(ae, LinesIn(r))) = EncAll(ae, Content(LinesIn(r)))
  BY <1>4, <1>7, ContentEncoded
<1>9. Content(t) \in Seq(Seq(Pieces))
  BY <1>2, ContentIs
<1> QED
  BY <1>2, <1>5, <1>6, <1>8, <1>9, <1>t

LEMMA SameLetters ==
  ASSUME Typed, NEW x \in Pieces, NEW p, p = EncPiece(StationEncoding, x),
         NEW q, q = EncPiece(AgentEncoding, x)
  PROVE  SamePiece(p, q)
<1>1. /\ p \in Pieces /\ p.kind = x.kind /\ p.what = x.what /\ p.len = x.len /\ p.n = x.n
      /\ q \in Pieces /\ q.kind = x.kind /\ q.what = x.what /\ q.len = x.len /\ q.n = x.n
      /\ p = x \/ p = In("?", x)
      /\ q = x \/ q = In("?", x) \/ q = In("look-alikes", x)
  BY EncodingsAre, EncPieceIs
<1>2. In("?", x).letters = "?" /\ In("look-alikes", x).letters = "look-alikes"
  BY Written, InIs, Zenon
<1>3. p.letters = q.letters \/ p.letters = "?" \/ q.letters \in {"?", "look-alikes"}
  BY <1>1, <1>2
<1>4. In(q.letters, p) = q
  BY <1>1 DEF In, Pieces
<1> QED
  BY <1>3, <1>4 DEF SamePiece

LEMMA SameInv == IInv => SameOnBothPrinters
<1> SUFFICES ASSUME IInv, section = "cut", NEW lan, lan = Content(PaperLines(buf)),
                    NEW agent, agent = Content(PaperLines(RenderJob))
             PROVE  /\ Len(lan) = Len(agent)
                    /\ \A i \in 1 .. Len(lan) :
                         /\ Len(lan[i]) = Len(agent[i])
                         /\ \A k \in DOMAIN lan[i] : SamePiece(lan[i][k], agent[i][k])
  BY DEF SameOnBothPrinters
<1>0. Typed
  BY DEF IInv
<1>c. PICK c, se, ae, n : /\ c = Content(text) /\ se = StationEncoding /\ ae = AgentEncoding
                          /\ n = Len(c)
  OBVIOUS
<1>1. c \in Seq(Seq(Pieces)) /\ lan = EncAll(se, c) /\ agent = EncAll(ae, c)
  BY <1>c, TwoEncodings
<1>2. Reads(se) /\ Reads(ae)
  BY <1>0, <1>c, EncodingsAre
<1>3. /\ Len(lan) = n /\ Len(agent) = n
      /\ \A i \in 1 .. n : lan[i] = Encoded(se, c[i]) /\ agent[i] = Encoded(ae, c[i])
  BY <1>1, <1>2, <1>c, EncAllType
<1>4. ASSUME NEW i \in 1 .. n
      PROVE  /\ Len(lan[i]) = Len(agent[i])
             /\ \A k \in DOMAIN lan[i] : SamePiece(lan[i][k], agent[i][k])
  <2>l. PICK l, a, b : l = c[i] /\ a = lan[i] /\ b = agent[i]
    OBVIOUS
  <2>1. l \in Seq(Pieces)
    BY <1>1, <1>c, <2>l
  <2>2. /\ Len(a) = Len(l) /\ DOMAIN a = DOMAIN l
        /\ \A k \in DOMAIN l : a[k] = EncPiece(se, l[k])
    BY <1>2, <1>3, <2>1, <2>l, EncodedIs
  <2>3. /\ Len(b) = Len(l) /\ \A k \in DOMAIN l : b[k] = EncPiece(ae, l[k])
    BY <1>2, <1>3, <2>1, <2>l, EncodedIs
  <2>4. \A k \in DOMAIN l : l[k] \in Pieces
    BY <2>1
  <2>5. \A k \in DOMAIN l : SamePiece(a[k], b[k])
    BY <1>0, <1>c, <2>2, <2>3, <2>4, SameLetters
  <2> QED BY <2>2, <2>3, <2>5, <2>l
<1> QED
  BY <1>3, <1>4

\* Where a printed line comes from.
LEMMA TopIs ==
  ASSUME Typed
  PROVE  TopPrinted = IF Cancelled THEN <<HeaderPrinted, BannerPrinted, DividerPrinted>>
                                   ELSE <<HeaderPrinted, DividerPrinted>>
<1>x. PICK h, b, d, T : /\ h = HeaderPrinted /\ b = BannerPrinted /\ d = DividerPrinted
                        /\ T = {h, b, d}
  OBVIOUS
<1>0. h \in T /\ b \in T /\ d \in T
  BY <1>x
<1>1. Cat(<<h>>, <<>>) = <<h>> /\ <<h, d>> = Cat(<<h>>, <<d>>)
  <2>1. <<h>> \in Seq(T)
    BY <1>0
  <2>2. Cat(<<h>>, <<>>) = <<h>>
    BY <2>1, CatEmpty
  <2>3. <<h, d>> = Cat(<<h>>, <<d>>)
    BY <1>0, CatTwo
  <2> QED BY <2>2, <2>3
<1>2. <<h, b, d>> = Cat(Cat(<<h>>, <<b>>), <<d>>)
  <2>1. <<h, b, d>> = Cat(<<h>>, <<b, d>>) /\ <<b, d>> = Cat(<<b>>, <<d>>)
    BY <1>0, CatThree, CatTwo
  <2>u. PICK u, v, x : u = <<h>> /\ v = <<b>> /\ x = <<d>>
    OBVIOUS
  <2>2. u \in Seq(T) /\ v \in Seq(T) /\ x \in Seq(T)
    BY <1>0, <2>u
  <2>3. Cat(u, Cat(v, x)) = Cat(Cat(u, v), x)
    BY <2>2, CatAssoc
  <2> QED BY <2>1, <2>3, <2>u
<1> QED
  BY <1>1, <1>2, <1>x DEF TopPrinted, BannersPrinted

LEMMA WholeAt ==
  ASSUME Typed, NEW mid \in Seq(PrintedLines), NEW w \in Seq(PrintedLines), NEW p, p = Whole(mid, w),
         NEW i \in DOMAIN p
  PROVE  \/ i = 1 /\ p[i] = HeaderPrinted
         \/ Cancelled /\ p[i] = BannerPrinted
         \/ p[i] = DividerPrinted
         \/ \E j \in DOMAIN mid : p[i] = mid[j]
         \/ \E j \in DOMAIN w : p[i] = w[j]
<1>t. PICK t, n, x, y : /\ t = TopPrinted /\ n = BannersPrinted /\ x = Cat(t, mid) /\ y = Cat(x, n)
  OBVIOUS
<1>1. /\ t \in Seq(PrintedLines) /\ n \in Seq(PrintedLines) /\ x \in Seq(PrintedLines)
      /\ y \in Seq(PrintedLines) /\ p = Cat(y, w)
  BY <1>t, TopContent, CatType DEF Whole
<1>2. \/ i \in DOMAIN y /\ p[i] = y[i]
      \/ i - Len(y) \in DOMAIN w /\ p[i] = w[i - Len(y)]
  BY <1>1, InCat
<1>3. i \in DOMAIN y => \/ i \in DOMAIN x /\ y[i] = x[i]
                        \/ i - Len(x) \in DOMAIN n /\ y[i] = n[i - Len(x)]
  <2> SUFFICES ASSUME i \in DOMAIN y PROVE \/ i \in DOMAIN x /\ y[i] = x[i]
                                           \/ i - Len(x) \in DOMAIN n /\ y[i] = n[i - Len(x)]
    OBVIOUS
  <2>1. i \in DOMAIN Cat(x, n)
    BY <1>t
  <2>2. \/ i \in DOMAIN x /\ Cat(x, n)[i] = x[i]
        \/ i - Len(x) \in DOMAIN n /\ Cat(x, n)[i] = n[i - Len(x)]
    BY <1>1, <2>1, InCat
  <2> QED BY <2>2, <1>t
<1>4. i \in DOMAIN x => \/ i \in DOMAIN t /\ x[i] = t[i]
                        \/ i - Len(t) \in DOMAIN mid /\ x[i] = mid[i - Len(t)]
  <2> SUFFICES ASSUME i \in DOMAIN x PROVE \/ i \in DOMAIN t /\ x[i] = t[i]
                                           \/ i - Len(t) \in DOMAIN mid /\ x[i] = mid[i - Len(t)]
    OBVIOUS
  <2>1. i \in DOMAIN Cat(t, mid)
    BY <1>t
  <2>2. \/ i \in DOMAIN t /\ Cat(t, mid)[i] = t[i]
        \/ i - Len(t) \in DOMAIN mid /\ Cat(t, mid)[i] = mid[i - Len(t)]
    BY <1>1, <2>1, InCat
  <2> QED BY <2>2, <1>t
<1>5. i \in DOMAIN t => \/ i = 1 /\ t[i] = HeaderPrinted
                        \/ Cancelled /\ t[i] = BannerPrinted
                        \/ t[i] = DividerPrinted
  BY <1>t, TopIs
<1>6. \A j \in DOMAIN n : Cancelled /\ n[j] = BannerPrinted
  BY <1>t DEF BannersPrinted
<1>7. CASE i - Len(y) \in DOMAIN w /\ p[i] = w[i - Len(y)]
  BY <1>7
<1>8. CASE i \in DOMAIN y /\ p[i] = y[i]
  <2>1. CASE i - Len(x) \in DOMAIN n /\ y[i] = n[i - Len(x)]
    BY <1>6, <1>8, <2>1
  <2>2. CASE i \in DOMAIN x /\ y[i] = x[i]
    <3>1. CASE i - Len(t) \in DOMAIN mid /\ x[i] = mid[i - Len(t)]
      BY <1>8, <2>2, <3>1
    <3>2. CASE i \in DOMAIN t /\ x[i] = t[i]
      BY <1>5, <1>8, <2>2, <3>2
    <3> QED BY <1>4, <2>2, <3>1, <3>2
  <2> QED BY <1>3, <1>8, <2>1, <2>2
<1> QED
  BY <1>2, <1>7, <1>8

\* No line but the banner is the banner.
NoBanner(line) == \A k \in DOMAIN line : line[k].what # "*** PREKLICANO ***"

LEMMA FairIsNoBanner ==
  ASSUME NEW l, NEW e, Fair(l, e)
  PROVE  NoBanner(l) /\ l # Banner
<1>1. NoBanner(l)
  BY DEF NoBanner, Fair, FairPiece
<1> QED
  BY <1>1, BannerIs DEF NoBanner

LEMMA PrintedAre ==
  ASSUME Typed
  PROVE  /\ HeaderPrinted.line = HeaderLine /\ HeaderPrinted.line # Banner
         /\ BannerPrinted.line = Banner
         /\ DividerPrinted.line = DividerLine /\ DividerPrinted.line # Banner
         /\ Silent(DividerPrinted.line)
<1>1. /\ HeaderPrinted.line = HeaderLine /\ BannerPrinted.line = Banner
      /\ DividerPrinted.line = DividerLine
  BY DEF HeaderPrinted, BannerPrinted, DividerPrinted, Printed
<1>2. HeaderLine # Banner /\ DividerLine # Banner
  BY HeaderIs, DividerIs, FairIsNoBanner
<1>3. Silent(DividerLine)
  BY DEF Silent, DividerLine, Piece
<1> QED
  BY <1>1, <1>2, <1>3

\* What a plain text says is plain.
LEMMA PlainContent ==
  ASSUME NEW s \in Seq({l \in Seq(Pieces) : NoBanner(l)})
  PROVE  \A i \in DOMAIN Content(s) : Content(s)[i] # Banner
<1>p. PICK P : P = {l \in Seq(Pieces) : NoBanner(l)}
  OBVIOUS
<1>1. \A l \in P : l \in Seq(Pieces) /\ NoBanner(l)
  BY <1>p
<1>2. ASSUME NEW l \in P PROVE Says(l) \in P
  <2>1. Says(l) \in Seq(Pieces)
    BY <1>1, SaysType
  <2>2. Gap(1).what # "*** PREKLICANO ***"
    BY DEF Gap, Piece
  <2>3. NoBanner(Says(l))
    BY <1>1, <2>2 DEF NoBanner, Says
  <2> QED BY <1>p, <2>1, <2>3
<1>3. \A l \in P : Heard(l) \in Seq(P)
  <2>1. ASSUME NEW l \in P PROVE Heard(l) \in Seq(P)
    <3>1. <<Says(l)>> \in Seq(P) /\ <<>> \in Seq(P)
      BY <1>2
    <3> QED BY <3>1 DEF Heard
  <2> QED BY <2>1
<1>n. PICK n \in Nat : n = Len(s)
  OBVIOUS
<1>4. \A i \in 1 .. n : s[i] \in P
  BY <1>n, <1>p
<1>h. PICK h, T : h = Hearing(s) /\ T = Seq(P)
  OBVIOUS
<1>5. h \in [1 .. n -> T]
  BY <1>3, <1>4, <1>h, <1>n DEF Hearing
<1>6. h \in Seq(T)
  BY <1>5
<1>7. FlattenSeq(h) \in Seq(P)
  BY <1>6, <1>h, FlattenType
<1>8. Content(s) = FlattenSeq(h)
  BY <1>h DEF Content, Hearing, Heard
<1>9. Banner \notin P
  BY <1>1, BannerIs DEF NoBanner
<1> QED
  BY <1>7, <1>8, <1>9

LEMMA BannerSays ==
  ASSUME Typed
  PROVE  /\ Says(Banner) = Banner /\ Heard(Banner) = <<Banner>>
         /\ Heard(HeaderLine) = <<Says(HeaderLine)>>
<1>1. ~Silent(Banner) /\ ~Silent(HeaderLine)
  <2>1. 1 \in DOMAIN HeaderLine
    BY HeaderIs, EmptySeq
  <2> QED BY <2>1, BannerIs, HeaderIs DEF Silent, OnlyValues
<1>2. Banner # TimeOfPrinting
  <2>1. TimeOfPrinting[1].what = "Printed"
    BY DEF TimeOfPrinting, Value, Piece
  <2> QED BY <2>1, BannerIs
<1>3. Says(Banner) = Banner
  <2>b. PICK b : b = Banner
    OBVIOUS
  <2>1. b \in Seq(Pieces) /\ DOMAIN b = {1} /\ b[1].kind = "value" /\ Len(b) = 1
    BY <2>b, BannerIs
  <2>2. Says(b) = [k \in {1} |-> b[k]]
    BY <2>1 DEF Says
  <2>3. b = [k \in {1} |-> b[k]]
    BY <2>1
  <2> QED BY <2>2, <2>3, <2>b
<1> QED
  BY <1>1, <1>2, <1>3, HeaderIs DEF Heard

\* Layout and fit, line by line.
LEMMA LenCat ==
  ASSUME NEW T, NEW a \in Seq(T), NEW b \in Seq(T), NEW u, u = Cat(a, b)
  PROVE  u \in Seq(T) /\ Len(u) = Len(a) + Len(b)
<1>1. u \in Seq(T) /\ IsJoin(u, a, b)
  BY CatIs
<1> QED
  BY <1>1 DEF IsJoin

LEMMA LastOfCat ==
  ASSUME NEW T, NEW a \in Seq(T), NEW b \in Seq(T), Len(b) = 1, NEW u, u = Cat(a, b)
  PROVE  u \in Seq(T) /\ Len(u) = Len(a) + 1 /\ Len(a) + 1 \in DOMAIN u /\ u[Len(a) + 1] = b[1]
<1>n. PICK m \in Nat : m = Len(a)
  OBVIOUS
<1>1. u \in Seq(T) /\ IsJoin(u, a, b)
  BY CatIs
<1>2. Len(u) = m + 1 /\ u[m + 1] = b[1]
  BY <1>n, <1>1 DEF IsJoin
<1> QED
  BY <1>n, <1>1, <1>2

LEMMA RawLayout ==
  ASSUME IInv, section = "cut", NEW p, p = Raw(buf),
         NEW i \in DOMAIN p, NEW mark \in p[i].marks, p[i].line # Banner
  PROVE  /\ mark.size = BaseSize
         /\ ~Silent(p[i].line) /\ i > 1 => mark.align = "left"
         /\ mark.bold /\ i > 1 => settings.bold_labels /\ p[i].line[1].kind = "label"
<1>0. Typed
  BY DEF IInv
<1>1. PICK mid, w, lines : /\ Finished(mid, w, lines, Env) /\ Raw(buf) = Whole(mid, w)
  BY ReceiptIs
<1>2. \/ i = 1 /\ p[i] = HeaderPrinted
      \/ Cancelled /\ p[i] = BannerPrinted
      \/ p[i] = DividerPrinted
      \/ \E j \in DOMAIN mid : p[i] = mid[j]
      \/ \E j \in DOMAIN w : p[i] = w[j]
  BY <1>0, <1>1, WholeAt DEF Finished
<1>e. PICK e : e = Env
  OBVIOUS
<1>3. e.base = BaseSize /\ e.bold = settings.bold_labels
  BY <1>0, <1>e, EnvIs
<1>4. CASE i = 1 /\ p[i] = HeaderPrinted
  <2>1. mark = Mark(BaseSize, "center", TRUE)
    BY <1>4 DEF HeaderPrinted, Printed
  <2>2. mark.size = BaseSize
    BY <2>1 DEF Mark
  <2> QED BY <1>4, <2>2
<1>5. CASE Cancelled /\ p[i] = BannerPrinted
  BY <1>0, <1>5, PrintedAre
<1>6. CASE p[i] = DividerPrinted
  <2>m. PICK m : m = Mark(BaseSize, "center", FALSE)
    OBVIOUS
  <2>1. mark = m
    BY <1>6, <2>m DEF DividerPrinted, Printed
  <2>2. m.size = BaseSize /\ m.bold = FALSE
    BY <2>m DEF Mark
  <2>3. Silent(p[i].line)
    BY <1>0, <1>6, PrintedAre
  <2> QED BY <2>1, <2>2, <2>3
<1>7. CASE (\E j \in DOMAIN mid : p[i] = mid[j]) \/ (\E j \in DOMAIN w : p[i] = w[j])
  <2>1. Fine(p[i], e)
    BY <1>1, <1>7, <1>e DEF Finished, AllFine
  <2> QED BY <1>3, <2>1 DEF Fine, LaidOut
<1> QED
  BY <1>2, <1>4, <1>5, <1>6, <1>7

\* The paper of the finished receipt.
RawIsPaper(q, p) ==
  /\ DOMAIN p = 1 .. Len(q) /\ DOMAIN q = 1 .. Len(q) /\ Len(p) = Len(q) /\ Len(q) \in Nat
  /\ \A i \in 1 .. Len(q) :
       /\ p[i].marks = q[i].marks /\ p[i].line \in Seq(Pieces) /\ q[i].line \in Seq(Pieces)
       /\ Silent(p[i].line) <=> Silent(q[i].line)
       /\ p[i].line = TimeOfPrinting <=> q[i].line = TimeOfPrinting
       /\ p[i].line = Banner <=> q[i].line = Banner
       /\ DOMAIN p[i].line = DOMAIN q[i].line /\ Total(p[i].line) = Total(q[i].line)
       /\ \A k \in DOMAIN q[i].line :
            /\ p[i].line[k].kind = q[i].line[k].kind /\ p[i].line[k].len = q[i].line[k].len
            /\ p[i].line[k].n = q[i].line[k].n

LEMMA Papers ==
  ASSUME IInv, section = "cut"
  PROVE  RawIsPaper(Raw(buf), Paper(buf))
<1>0. Typed
  BY DEF IInv
<1>1. PICK mid, w, lines : /\ Finished(mid, w, lines, Env) /\ Raw(buf) = Whole(mid, w)
                           /\ buf[1].arg = StationEncoding
  BY ReceiptIs
<1>q. PICK q, p, enc : q = Raw(buf) /\ p = Paper(buf) /\ enc = StationEncoding
  OBVIOUS
<1>2. q \in Seq(PrintedLines) /\ Reads(enc) /\ enc = buf[1].arg
  BY <1>0, <1>1, <1>q, WholeType, EncodingsAre
<1>3. /\ DOMAIN p = 1 .. Len(q) /\ DOMAIN q = 1 .. Len(q) /\ Len(p) = Len(q) /\ Len(q) \in Nat
      /\ \A i \in 1 .. Len(q) : /\ q[i].line \in Seq(Pieces)
                                /\ p[i].line = Encoded(enc, q[i].line) /\ p[i].marks = q[i].marks
  <2>1. /\ DOMAIN p = 1 .. Len(q) /\ DOMAIN q = 1 .. Len(q) /\ Len(p) = Len(q)
        /\ \A i \in 1 .. Len(q) : /\ q[i].line \in Seq(Pieces)
                                  /\ p[i].line = Encoded(enc, q[i].line) /\ p[i].marks = q[i].marks
    <3>c. PICK c : c = buf
      OBVIOUS
    <3>1. q = Raw(c) /\ p = Paper(c) /\ enc = c[1].arg
      BY <1>2, <1>q, <3>c
    <3> QED BY <1>2, <3>1, PaperIs
  <2>2. Len(q) \in Nat
    BY <1>2
  <2> QED BY <2>1, <2>2
<1>4. ASSUME NEW i \in 1 .. Len(q)
      PROVE  /\ p[i].line \in Seq(Pieces)
             /\ Silent(p[i].line) <=> Silent(q[i].line)
             /\ p[i].line = TimeOfPrinting <=> q[i].line = TimeOfPrinting
             /\ p[i].line = Banner <=> q[i].line = Banner
             /\ DOMAIN p[i].line = DOMAIN q[i].line /\ Total(p[i].line) = Total(q[i].line)
             /\ \A k \in DOMAIN q[i].line :
                  /\ p[i].line[k].kind = q[i].line[k].kind /\ p[i].line[k].len = q[i].line[k].len
                  /\ p[i].line[k].n = q[i].line[k].n
  <2>l. PICK l, e : l = q[i].line /\ e = p[i].line
    OBVIOUS
  <2>1. l \in Seq(Pieces) /\ e = Encoded(enc, l)
    BY <1>3, <2>l
  <2>2. /\ Silent(e) <=> Silent(l)
        /\ e = TimeOfPrinting <=> l = TimeOfPrinting
        /\ e = Banner <=> l = Banner
    BY <1>2, <2>1, EncodedSilent
  <2>3. Total(e) = Total(l)
    BY <1>2, <2>1, TotalEncoded
  <2>4. /\ e \in Seq(Pieces) /\ DOMAIN e = DOMAIN l
        /\ \A k \in DOMAIN l : /\ e[k].kind = l[k].kind /\ e[k].len = l[k].len /\ e[k].n = l[k].n
    BY <1>2, <2>1, EncodedIs
  <2> QED BY <2>2, <2>3, <2>4, <2>l
<1>5. RawIsPaper(q, p)
  BY <1>3, <1>4 DEF RawIsPaper
<1> QED
  BY <1>5, <1>q

LEMMA LayoutInv == IInv => LayoutIsRestored
<1> SUFFICES ASSUME IInv, section = "cut", NEW p, p = Paper(buf),
                    NEW i \in DOMAIN p, NEW mark \in p[i].marks, p[i].line # Banner
             PROVE  /\ mark.size = BaseSize
                    /\ ~Silent(p[i].line) /\ i > 1 => mark.align = "left"
                    /\ mark.bold /\ i > 1 => settings.bold_labels /\ p[i].line[1].kind = "label"
  BY DEF LayoutIsRestored
<1>q. PICK q, l, e : q = Raw(buf) /\ l = q[i].line /\ e = p[i].line
  OBVIOUS
<1>1. RawIsPaper(q, p)
  BY <1>q, Papers
<1>2. /\ i \in DOMAIN q /\ mark \in q[i].marks /\ l # Banner
      /\ e \in Seq(Pieces) /\ l \in Seq(Pieces)
      /\ Silent(e) <=> Silent(l)
      /\ DOMAIN e = DOMAIN l /\ \A k \in DOMAIN l : e[k].kind = l[k].kind
  BY <1>1, <1>q DEF RawIsPaper
<1>3. /\ mark.size = BaseSize
      /\ ~Silent(l) /\ i > 1 => mark.align = "left"
      /\ mark.bold /\ i > 1 => settings.bold_labels /\ l[1].kind = "label"
  BY <1>2, <1>q, RawLayout
<1>4. l[1].kind = "label" => e[1].kind = "label"
  <2>1. CASE 1 \in DOMAIN l
    BY <1>2, <2>1
  <2>2. CASE 1 \notin DOMAIN l
    <3>1. l = <<>> /\ e = <<>>
      BY <1>2, <2>2
    <3> QED BY <3>1
  <2> QED BY <2>1, <2>2
<1>5. /\ mark.size = BaseSize
      /\ ~Silent(e) /\ i > 1 => mark.align = "left"
      /\ mark.bold /\ i > 1 => settings.bold_labels /\ e[1].kind = "label"
  BY <1>2, <1>3, <1>4, Zenon
<1> QED
  BY <1>5, <1>q, Zenon

LEMMA RawFits ==
  ASSUME IInv, section = "cut", NEW p, p = Raw(buf)
  PROVE  /\ \A i \in DOMAIN p : LET line == p[i].line IN \A k \in DOMAIN line :
              /\ line[k].kind = "gap" =>
                   line[k].len >= 1 /\ (Total(line) = settings.width \/ line[k].len = 1)
              /\ line[k].kind = "room" /\ line[k].n > 0 => line[k].len <= settings.width
         /\ Letters(FlattenSeq(Wrap(RoomLabel(reservation.room_type, 3), settings.width)))
              = Letters(RoomLabel(reservation.room_type, 3))
<1>0. Typed
  BY DEF IInv
<1>1. PICK mid, w, lines : /\ Finished(mid, w, lines, Env) /\ Raw(buf) = Whole(mid, w)
  BY ReceiptIs
<1>e. PICK e : e = Env
  OBVIOUS
<1>3. e.width = settings.width
  BY <1>0, <1>e, EnvIs
<1>4. ASSUME NEW i \in DOMAIN p PROVE Fits(p[i].line, e)
  <2>1. \/ i = 1 /\ p[i] = HeaderPrinted
        \/ Cancelled /\ p[i] = BannerPrinted
        \/ p[i] = DividerPrinted
        \/ \E j \in DOMAIN mid : p[i] = mid[j]
        \/ \E j \in DOMAIN w : p[i] = w[j]
    BY <1>0, <1>1, WholeAt DEF Finished
  <2>2. Fits(HeaderLine, e) /\ Fits(Banner, e)
    BY <1>0, HeaderIs, BannerIs, ValuesFit
  <2>3. Fits(DividerLine, e)
    BY <1>0, <1>e, DividerIs
  <2>4. CASE (\E j \in DOMAIN mid : p[i] = mid[j]) \/ (\E j \in DOMAIN w : p[i] = w[j])
    BY <1>1, <1>e, <2>4 DEF Finished, AllFine, Fine
  <2> QED BY <1>0, <2>1, <2>2, <2>3, <2>4, PrintedAre
<1>5. \A i \in DOMAIN p : LET line == p[i].line IN \A k \in DOMAIN line :
        /\ line[k].kind = "gap" =>
             line[k].len >= 1 /\ (Total(line) = settings.width \/ line[k].len = 1)
        /\ line[k].kind = "room" /\ line[k].n > 0 => line[k].len <= settings.width
  BY <1>3, <1>4 DEF Fits
<1>c. PICK c : c = RoomLabel(reservation.room_type, 3)
  OBVIOUS
<1>6. c \in Seq(Chunk)
  <2>1. 3 \in OrNone(Nat)
    BY DEF OrNone
  <2> QED BY <1>0, <1>c, <2>1, TypedIs, RoomLabelType
<1>7. Letters(FlattenSeq(Wrap(c, settings.width))) = Letters(c)
  BY <1>0, <1>6, TypedIs, WrapIs
<1> QED
  BY <1>5, <1>7, <1>c

LEMMA FitInv == IInv => LinesFit
<1> SUFFICES ASSUME IInv, section = "cut", NEW p, p = Paper(buf)
             PROVE  /\ \A i \in DOMAIN p : LET line == p[i].line IN \A k \in DOMAIN line :
                         /\ line[k].kind = "gap" =>
                              line[k].len >= 1 /\ (Total(line) = settings.width \/ line[k].len = 1)
                         /\ line[k].kind = "room" /\ line[k].n > 0 => line[k].len <= settings.width
                    /\ Letters(FlattenSeq(Wrap(RoomLabel(reservation.room_type, 3), settings.width)))
                         = Letters(RoomLabel(reservation.room_type, 3))
  BY DEF LinesFit
<1>q. PICK q : q = Raw(buf)
  OBVIOUS
<1>1. RawIsPaper(q, p)
  BY <1>q, Papers
<1>2. ASSUME NEW i \in DOMAIN p, NEW e, e = p[i].line, NEW k \in DOMAIN e
      PROVE  /\ e[k].kind = "gap" =>
                  e[k].len >= 1 /\ (Total(e) = settings.width \/ e[k].len = 1)
             /\ e[k].kind = "room" /\ e[k].n > 0 => e[k].len <= settings.width
  <2>l. PICK l : l = q[i].line
    OBVIOUS
  <2>1. /\ i \in DOMAIN q /\ k \in DOMAIN l /\ Total(e) = Total(l)
        /\ e[k].kind = l[k].kind /\ e[k].len = l[k].len /\ e[k].n = l[k].n
    BY <1>1, <1>2, <2>l DEF RawIsPaper
  <2>2. /\ l[k].kind = "gap" =>
             l[k].len >= 1 /\ (Total(l) = settings.width \/ l[k].len = 1)
        /\ l[k].kind = "room" /\ l[k].n > 0 => l[k].len <= settings.width
    BY <1>q, <2>1, <2>l, RawFits
  <2> QED BY <2>1, <2>2
<1> QED
  BY <1>2, <1>q, RawFits

\* A cancelled receipt.
LEMMA CancelledText ==
  ASSUME Typed, Cancelled, NEW lines \in Seq(Seq(Pieces)), NEW a,
         a = Cat(Cat(Content(TopText), Content(lines)), Content(ClosingText))
  PROVE  a[2] = Banner /\ a[Len(a)] = Banner /\ Len(a) >= 2
<1>h. PICK h, b, s, l, T : /\ h = <<HeaderLine>> /\ b = <<Banner>> /\ s = <<Says(HeaderLine)>>
                           /\ l = Content(lines) /\ T = Seq(Pieces)
  OBVIOUS
<1>1. h \in Seq(Seq(Pieces)) /\ b \in Seq(Seq(Pieces)) /\ TopText = Cat(h, b) /\ ClosingText = b
  BY <1>h, TextTypes DEF TopText, ClosingText
<1>2. Content(h) = s /\ Content(b) = b
  BY <1>h, HeaderIs, BannerIs, ContentOne, BannerSays
<1>3. Content(Cat(h, b)) = Cat(s, b)
  BY <1>1, <1>2, ContentCat
<1>4. s \in Seq(T) /\ b \in Seq(T) /\ l \in Seq(T)
  BY <1>1, <1>2, <1>h, ContentIs
<1>5. a = Cat(Cat(Cat(s, b), l), b)
  BY <1>1, <1>2, <1>3, <1>h
<1>6. Len(s) = 1 /\ Len(b) = 1 /\ b[1] = Banner /\ 1 \in DOMAIN b
  BY <1>h
<1>x. PICK x, y : x = Cat(s, b) /\ y = Cat(x, l)
  OBVIOUS
<1>7. x \in Seq(T) /\ y \in Seq(T)
  BY <1>4, <1>x, CatType
<1>8. 2 \in DOMAIN x /\ x[2] = Banner
  <2>1. Len(s) + 1 \in DOMAIN x /\ x[Len(s) + 1] = b[1]
    BY <1>4, <1>6, <1>x, IntoCat
  <2>2. Len(s) + 1 = 2
    BY <1>6
  <2> QED BY <1>6, <2>1, <2>2
<1>9. 2 \in DOMAIN y /\ y[2] = Banner
  BY <1>4, <1>7, <1>8, <1>x, IntoCat
<1>10. a = Cat(y, b)
  BY <1>5, <1>x
<1>11. a[2] = Banner
  BY <1>4, <1>7, <1>9, <1>10, IntoCat
<1>12. a[Len(a)] = Banner
  <2>1. Len(a) = Len(y) + 1 /\ a[Len(y) + 1] = b[1]
    BY <1>4, <1>6, <1>7, <1>10, LastOfCat
  <2> QED BY <1>6, <2>1
<1>13. Len(a) >= 2
  <2>1. Len(a) = Len(y) + 1
    BY <1>4, <1>6, <1>7, <1>10, LastOfCat
  <2>2. Len(y) \in Nat /\ 2 \in 1 .. Len(y)
    BY <1>7, <1>9
  <2> QED BY <2>1, <2>2
<1> QED
  BY <1>11, <1>12, <1>13

Unsaid(w) == \A k \in DOMAIN w : Silent(w[k].line) \/ w[k].line = TimeOfPrinting
TwoBanners(p) ==
  /\ 2 \in DOMAIN p /\ p[2].line = Banner
  /\ \E i \in DOMAIN p : /\ p[i].line = Banner /\ i > 2
                         /\ \A k \in i + 1 .. Len(p) :
                              Silent(p[k].line) \/ p[k].line = TimeOfPrinting
LEMMA CancelledPaper ==
  ASSUME Typed, Cancelled, NEW mid \in Seq(PrintedLines), NEW w \in Seq(PrintedLines),
         Unsaid(w), NEW p, p = Whole(mid, w)
  PROVE  TwoBanners(p)
<1>t. PICK t, n, x, y : /\ t = TopPrinted /\ n = BannersPrinted /\ x = Cat(t, mid) /\ y = Cat(x, n)
  OBVIOUS
<1>1. /\ t \in Seq(PrintedLines) /\ n \in Seq(PrintedLines) /\ x \in Seq(PrintedLines)
      /\ y \in Seq(PrintedLines) /\ p = Cat(y, w) /\ p \in Seq(PrintedLines)
  BY <1>t, TopContent, CatType DEF Whole
<1>2. Len(t) = 3 /\ 2 \in DOMAIN t /\ t[2] = BannerPrinted
  BY <1>t, TopIs
<1>3. Len(n) = 1 /\ 1 \in DOMAIN n /\ n[1] = BannerPrinted
  BY <1>t DEF BannersPrinted
<1>4. 2 \in DOMAIN p /\ p[2] = BannerPrinted
  <2>0. x = Cat(t, mid) /\ y = Cat(x, n)
    BY <1>t
  <2>1. 2 \in DOMAIN x /\ x[2] = BannerPrinted
    BY <1>1, <1>2, <2>0, IntoCat
  <2>2. 2 \in DOMAIN y /\ y[2] = BannerPrinted
    BY <1>1, <2>0, <2>1, IntoCat
  <2> QED BY <1>1, <2>2, IntoCat
<1>l. PICK a \in Nat, b \in Nat, c \in Nat : a = Len(mid) /\ b = Len(x) /\ c = Len(w)
  BY <1>1
<1>5. b = 3 + a /\ Len(y) = b + 1 /\ Len(p) = b + 1 + c
  <2>1. Len(x) = Len(t) + Len(mid)
    <3>1. x = Cat(t, mid)
      BY <1>t
    <3> QED BY <1>1, <3>1, LenCat
  <2>2. Len(y) = Len(x) + Len(n)
    <3>1. y = Cat(x, n)
      BY <1>t
    <3> QED BY <1>1, <3>1, LenCat
  <2>3. Len(p) = Len(y) + Len(w)
    BY <1>1, LenCat
  <2> QED BY <1>2, <1>3, <1>l, <2>1, <2>2, <2>3
<1>6. b + 1 \in DOMAIN p /\ p[b + 1] = BannerPrinted
  <2>1. b + 1 \in DOMAIN y /\ y[b + 1] = n[1]
    <3>1. y = Cat(x, n) /\ Len(n) = 1
      BY <1>3, <1>t
    <3>2. Len(x) + 1 \in DOMAIN y /\ y[Len(x) + 1] = n[1]
      BY <1>1, <3>1, LastOfCat
    <3> QED BY <1>l, <3>2
  <2>2. b + 1 \in DOMAIN p /\ p[b + 1] = y[b + 1]
    BY <1>1, <2>1, IntoCat
  <2> QED BY <1>3, <2>1, <2>2
<1>7. ASSUME NEW k \in (b + 1) + 1 .. Len(p)
      PROVE  Silent(p[k].line) \/ p[k].line = TimeOfPrinting
  <2>0. k \in Int /\ b + 2 <= k /\ k <= b + 1 + c
    BY <1>5
  <2>1. k - Len(y) \in 1 .. c /\ Len(y) + (k - Len(y)) = k
    BY <1>5, <2>0
  <2>2. k - Len(y) \in DOMAIN w
    BY <1>l, <2>1
  <2>3. p[Len(y) + (k - Len(y))] = w[k - Len(y)]
    BY <1>1, <2>2, IntoCat, SMTT(40)
  <2> QED BY <2>1, <2>2, <2>3 DEF Unsaid
<1>8. BannerPrinted.line = Banner
  BY PrintedAre
<1>9. b + 1 > 2
  BY <1>5
<1> QED
  BY <1>4, <1>6, <1>7, <1>8, <1>9 DEF TwoBanners

LEMMA CancelledInv == IInv => CancelledIsUnmistakable
<1> SUFFICES ASSUME IInv, section = "cut" PROVE CancelledIsUnmistakable
  BY DEF CancelledIsUnmistakable
<1>0. Typed
  BY DEF IInv
<1>1. PICK mid, w, lines : /\ Finished(mid, w, lines, Env) /\ Raw(buf) = Whole(mid, w)
                           /\ text = Cat(Cat(TopText, lines), ClosingText)
  BY ReceiptIs
<1>2. /\ mid \in Seq(PrintedLines) /\ w \in Seq(PrintedLines) /\ lines \in Seq(Seq(Pieces))
      /\ AllFine(mid, Env) /\ AllFine(w, Env) /\ AllFair(lines, Env)
      /\ \A k \in DOMAIN w : Silent(w[k].line) \/ w[k].line = TimeOfPrinting
  BY <1>1 DEF Finished
<1>t. PICK p, a, t : p = Raw(buf) /\ a = Content(text) /\ t = text
  OBVIOUS
<1>o. PICK o, b, ae : o = Paper(buf) /\ b = Content(PaperLines(RenderJob)) /\ ae = AgentEncoding
  OBVIOUS
<1>r. /\ RawIsPaper(p, o) /\ p \in Seq(PrintedLines)
      /\ Len(b) = Len(a) /\ Len(a) \in Nat /\ DOMAIN b = 1 .. Len(a)
      /\ \A i \in 1 .. Len(a) : b[i] = Banner <=> a[i] = Banner
  <2>1. RawIsPaper(p, o) /\ p \in Seq(PrintedLines)
    BY <1>0, <1>1, <1>t, <1>o, Papers, WholeType
  <2>2. a \in Seq(Seq(Pieces)) /\ b = EncAll(ae, a) /\ Reads(ae)
    BY <1>0, <1>t, <1>o, TwoEncodings, EncodingsAre
  <2>3. /\ Len(b) = Len(a) /\ DOMAIN b = 1 .. Len(a)
        /\ \A i \in 1 .. Len(a) : b[i] = Encoded(ae, a[i])
    BY <2>2, EncAllType
  <2>4. \A i \in 1 .. Len(a) : a[i] \in Seq(Pieces)
    BY <2>2
  <2>5. \A i \in 1 .. Len(a) : b[i] = Banner <=> a[i] = Banner
    BY <2>2, <2>3, <2>4, EncodedSilent
  <2> QED BY <2>1, <2>2, <2>3, <2>5
<1>3. /\ a = Content(t) /\ t \in Seq(Seq(Pieces))
      /\ Content(t) = Cat(Cat(Content(TopText), Content(lines)), Content(ClosingText))
  <2>1. /\ t \in Seq(Seq(Pieces))
        /\ Content(t) = Cat(Cat(Content(TopText), Content(lines)), Content(ClosingText))
    BY <1>0, <1>1, <1>t, ReceiptSays
  <2> QED BY <1>t, <2>1
<1>4. \A i \in DOMAIN p : \/ p[i] = HeaderPrinted
                          \/ Cancelled /\ p[i] = BannerPrinted
                          \/ p[i] = DividerPrinted
                          \/ p[i].line # Banner
  <2>1. ASSUME NEW i \in DOMAIN p
        PROVE  \/ p[i] = HeaderPrinted
               \/ Cancelled /\ p[i] = BannerPrinted
               \/ p[i] = DividerPrinted
               \/ p[i].line # Banner
    <3>1. \/ i = 1 /\ p[i] = HeaderPrinted
          \/ Cancelled /\ p[i] = BannerPrinted
          \/ p[i] = DividerPrinted
          \/ \E j \in DOMAIN mid : p[i] = mid[j]
          \/ \E j \in DOMAIN w : p[i] = w[j]
      BY <1>0, <1>1, <1>2, <1>t, WholeAt
    <3>2. CASE (\E j \in DOMAIN mid : p[i] = mid[j]) \/ (\E j \in DOMAIN w : p[i] = w[j])
      <4>1. Fair(p[i].line, Env)
        BY <1>2, <3>2 DEF AllFine, Fine
      <4> QED BY <4>1, FairIsNoBanner
    <3> QED BY <3>1, <3>2
  <2> QED BY <2>1
<1>5. \A i \in DOMAIN p : p[i].line = Banner => Cancelled /\ p[i] = BannerPrinted
  BY <1>0, <1>4, PrintedAre
<1>6. CASE Cancelled
  <2>1. a[2] = Banner /\ a[Len(a)] = Banner
    BY <1>0, <1>2, <1>3, <1>6, CancelledText
  <2>2. /\ 2 \in DOMAIN p /\ p[2].line = Banner
        /\ \E i \in DOMAIN p : /\ p[i].line = Banner /\ i > 2
                               /\ \A k \in i + 1 .. Len(p) :
                                    Silent(p[k].line) \/ p[k].line = TimeOfPrinting
    <3>1. p = Whole(mid, w)
      BY <1>1, <1>t
    <3>2. mid \in Seq(PrintedLines) /\ w \in Seq(PrintedLines) /\ Unsaid(w)
      BY <1>2 DEF Unsaid
    <3>3. TwoBanners(p)
      BY <1>0, <1>6, <3>1, <3>2, CancelledPaper
    <3> QED BY <3>3 DEF TwoBanners
  <2>3. BannerPrinted.marks = {[size |-> 3, align |-> "center", bold |-> TRUE]}
    BY DEF BannerPrinted, Printed, Mark
  <2>4. \A i \in DOMAIN p : p[i].line = Banner
          => p[i].marks = {[size |-> 3, align |-> "center", bold |-> TRUE]}
    BY <1>5, <2>3
  <2>5. b[2] = Banner /\ b[Len(b)] = Banner
    <3>1. Len(a) >= 2
      BY <1>0, <1>2, <1>3, <1>6, CancelledText
    <3> QED BY <1>r, <2>1, <3>1
  <2>6. 2 \in DOMAIN o /\ o[2].line = Banner
    BY <1>r, <2>2 DEF RawIsPaper
  <2>7. \E i \in DOMAIN o : /\ o[i].line = Banner /\ i > 2
                            /\ \A k \in i + 1 .. Len(o) :
                                 Silent(o[k].line) \/ o[k].line = TimeOfPrinting
    <3>1. PICK i \in DOMAIN p : /\ p[i].line = Banner /\ i > 2
                               /\ \A k \in i + 1 .. Len(p) :
                                    Silent(p[k].line) \/ p[k].line = TimeOfPrinting
      BY <2>2
    <3>2. i \in DOMAIN o /\ o[i].line = Banner
      BY <1>r, <3>1 DEF RawIsPaper
    <3>3. ASSUME NEW k \in i + 1 .. Len(o) PROVE Silent(o[k].line) \/ o[k].line = TimeOfPrinting
      <4>1. Len(o) = Len(p) /\ DOMAIN p = 1 .. Len(p) /\ Len(p) \in Nat
        BY <1>r DEF RawIsPaper
      <4>2. k \in i + 1 .. Len(p) /\ k \in 1 .. Len(p)
        BY <3>1, <4>1
      <4> QED BY <1>r, <3>1, <4>2 DEF RawIsPaper
    <3> QED BY <3>1, <3>2, <3>3
  <2>8. \A i \in DOMAIN o : o[i].line = Banner
          => o[i].marks = {[size |-> 3, align |-> "center", bold |-> TRUE]}
    BY <1>r, <2>4 DEF RawIsPaper
  <2> QED BY <1>6, <1>o, <2>5, <2>6, <2>7, <2>8 DEF CancelledIsUnmistakable
<1>7. CASE ~Cancelled
  <2>1. {i \in DOMAIN p : p[i].line = Banner} = {}
    BY <1>5, <1>7
  <2>p. PICK P : P = {l \in Seq(Pieces) : NoBanner(l)}
    OBVIOUS
  <2>2. TopText \in Seq(P)
    <3>h. PICK h : h = HeaderLine
      OBVIOUS
    <3>1. h \in P
      BY <1>0, <2>p, <3>h, HeaderIs, FairIsNoBanner
    <3>2. <<h>> \in Seq(P)
      BY <3>1
    <3>3. TopText = Cat(<<h>>, <<>>)
      BY <1>7, <3>h DEF TopText
    <3> QED BY <3>2, <3>3, CatEmpty
  <2>3. lines \in Seq(P)
    <3>n. PICK n \in Nat : n = Len(lines)
      BY <1>2
    <3>1. \A i \in 1 .. n : lines[i] \in P
      <4>T. PICK T : T = Seq(Pieces)
        OBVIOUS
      <4>2. lines \in Seq(T) /\ DOMAIN lines = 1 .. n
        BY <1>2, <3>n, <4>T
      <4>3. \A i \in 1 .. n : lines[i] \in T
        BY <3>n, <4>2
      <4>4. \A i \in 1 .. n : Fair(lines[i], Env)
        BY <1>2, <4>2 DEF AllFair
      <4>1. \A i \in 1 .. n : lines[i] \in Seq(Pieces) /\ Fair(lines[i], Env)
        BY <4>T, <4>3, <4>4
      <4> QED BY <2>p, <4>1, FairIsNoBanner
    <3>2. lines \in [1 .. n -> P]
      <4>1. DOMAIN lines = 1 .. n /\ lines = [i \in DOMAIN lines |-> lines[i]]
        BY <1>2, <3>n
      <4> QED BY <3>1, <4>1
    <3> QED BY <3>2
  <2>4. t \in Seq(P)
    <3>1. ClosingText = <<>>
      BY <1>7 DEF ClosingText
    <3>2. Cat(TopText, lines) \in Seq(P)
      BY <2>2, <2>3, CatType
    <3> QED BY <1>1, <1>t, <3>1, <3>2, CatEmpty
  <2>5. \A i \in DOMAIN a : a[i] # Banner
    BY <1>3, <2>4, <2>p, PlainContent
  <2>6. {i \in DOMAIN o : o[i].line = Banner} = {}
    BY <1>r, <2>1 DEF RawIsPaper
  <2>7. \A i \in DOMAIN b : b[i] # Banner
    <3>1. DOMAIN a = 1 .. Len(a)
      BY <1>0, <1>t, TwoEncodings
    <3> QED BY <1>r, <2>5, <3>1
  <2> QED BY <1>7, <1>o, <2>6, <2>7 DEF CancelledIsUnmistakable
<1> QED
  BY <1>6, <1>7

\* The average and the nights, in every state.
HonestPiece(p, e) ==
  /\ p.what = "NOCI" => p.n \in Nat
  /\ p.what = "average" => IsAverage(p.n, e)
Honest(lines, e) == \A i \in DOMAIN lines : \A k \in DOMAIN lines[i] : HonestPiece(lines[i][k], e)

LEMMA FairIsHonest == ASSUME NEW lines, NEW e, AllFair(lines, e) PROVE Honest(lines, e)
BY DEF AllFair, Fair, FairPiece, Honest, HonestPiece

LEMMA HonestCat ==
  ASSUME NEW a \in Seq(Seq(Pieces)), NEW b \in Seq(Seq(Pieces)), NEW e, Honest(a, e), Honest(b, e),
         NEW u, u = Cat(a, b)
  PROVE  u \in Seq(Seq(Pieces)) /\ Honest(u, e)
<1>1. ASSUME NEW i \in DOMAIN u PROVE \A k \in DOMAIN u[i] : HonestPiece(u[i][k], e)
  <2>1. \/ i \in DOMAIN a /\ u[i] = a[i]
        \/ i - Len(a) \in DOMAIN b /\ u[i] = b[i - Len(a)]
    BY InCat
  <2> QED BY <2>1 DEF Honest
<1> QED
  BY <1>1, CatType DEF Honest

\* The head and the banner at the bottom have neither.
LEMMA HonestFrame ==
  ASSUME Typed
  PROVE  \A e : Honest(TopText, e) /\ Honest(ClosingText, e) /\ Honest(<<>>, e)
<1> SUFFICES ASSUME NEW e PROVE Honest(TopText, e) /\ Honest(ClosingText, e) /\ Honest(<<>>, e)
  OBVIOUS
<1>h. PICK h, b : h = HeaderLine /\ b = Banner
  OBVIOUS
<1>1. Fair(h, e)
  BY <1>h, HeaderIs
<1>2. Honest(<<h>>, e)
  <2>g. PICK g : g = <<h>>
    OBVIOUS
  <2>1. DOMAIN g = {1} /\ g[1] = h
    BY <2>g
  <2>2. \A k \in DOMAIN h : HonestPiece(h[k], e)
    BY <1>1 DEF Fair, FairPiece, HonestPiece
  <2>3. Honest(g, e)
    BY <2>1, <2>2 DEF Honest
  <2> QED BY <2>3, <2>g
<1>3. DOMAIN b = {1} /\ b[1].what = "*** PREKLICANO ***"
  BY <1>h, BannerIs
<1>4. HonestPiece(b[1], e)
  BY <1>3 DEF HonestPiece
<1>5. Honest(<<b>>, e) /\ Honest(<<>>, e)
  <2>g. PICK g : g = <<b>>
    OBVIOUS
  <2>1. DOMAIN g = {1} /\ g[1] = b
    BY <2>g
  <2>2. \A k \in DOMAIN b : HonestPiece(b[k], e)
    BY <1>3, <1>4
  <2>3. Honest(g, e)
    BY <2>1, <2>2 DEF Honest
  <2>4. Honest(<<>>, e)
    BY DEF Honest
  <2> QED BY <2>3, <2>4, <2>g
<1>m. PICK m, n : m = (IF Cancelled THEN <<b>> ELSE <<>>) /\ n = <<h>>
  OBVIOUS
<1>6. Honest(m, e) /\ m \in Seq(Seq(Pieces)) /\ n \in Seq(Seq(Pieces)) /\ Honest(n, e)
  <2>1. <<>> \in Seq(Seq(Pieces))
    OBVIOUS
  <2> QED BY <1>2, <1>5, <1>m, <1>h, <2>1, TextTypes
<1>7. TopText = Cat(n, m) /\ ClosingText = m
  BY <1>h, <1>m DEF TopText, ClosingText
<1>8. Honest(Cat(n, m), e)
  BY <1>6, HonestCat
<1> QED
  BY <1>5, <1>6, <1>7, <1>8

LEMMA TextIsHonest == IInv => Honest(text, Env)
<1> SUFFICES ASSUME IInv PROVE Honest(text, Env)
  OBVIOUS
<1>f. PICK f, s, b, t, e : f = Frame /\ s = section /\ b = buf /\ t = text /\ e = Env
  OBVIOUS
<1>0. Typed /\ Reached(f, s, b, t) /\ s \in Middle \cup {"header", "cut"}
  BY <1>f DEF IInv
<1>1. Framed(f) /\ f.env = e /\ f.toptext = TopText /\ f.closingtext = ClosingText
  BY <1>0, <1>f, FrameIs
<1>2. /\ f.toptext \in Seq(Seq(Pieces)) /\ f.closingtext \in Seq(Seq(Pieces))
      /\ Honest(f.toptext, e) /\ Honest(f.closingtext, e)
  BY <1>0, <1>1, HonestFrame DEF Framed
<1>3. ASSUME NEW b0, NEW t0, NEW cmds, NEW lines, Holds(f, b0, t0, cmds, lines)
      PROVE  t0 \in Seq(Seq(Pieces)) /\ Honest(t0, e)
  <2>1. Good(cmds, lines, e) /\ t0 = Cat(f.toptext, lines)
    BY <1>1, <1>3 DEF Holds
  <2>2. lines \in Seq(Seq(Pieces)) /\ AllFair(lines, e)
    BY <2>1 DEF Good, Makes
  <2> QED BY <1>2, <2>1, <2>2, FairIsHonest, HonestCat
<1>4. CASE s = "header"
  BY <1>0, <1>4, <1>f, HonestFrame DEF Reached
<1>5. CASE s \in Middle
  <2>1. PICK cmds, lines : Holds(f, b, t, cmds, lines)
    BY <1>0, <1>5 DEF Reached
  <2> QED BY <1>3, <1>f, <2>1
<1>6. CASE s = "cut"
  <2>1. PICK cmds, lines, b0, t0 : Holds(f, b0, t0, cmds, lines) /\ t = Cat(t0, f.closingtext)
    BY <1>0, <1>6 DEF Reached
  <2>2. t0 \in Seq(Seq(Pieces)) /\ Honest(t0, e)
    BY <1>3, <2>1
  <2> QED BY <1>2, <1>f, <2>1, <2>2, HonestCat
<1> QED
  BY <1>0, <1>4, <1>5, <1>6

LEMMA AverageInv == IInv => AverageIsFair
<1> SUFFICES ASSUME IInv PROVE AverageIsFair
  OBVIOUS
<1>f. PICK e, t, n, p : e = Env /\ t = text /\ n = Nights /\ p = reservation.price_total
  OBVIOUS
<1>0. Typed
  BY DEF IInv
<1>1. Honest(t, e)
  BY <1>f, TextIsHonest
<1>2. e.nights = n /\ e.total = p
  BY <1>0, <1>f, EnvIs
<1>3. \A i \in DOMAIN t : \A k \in DOMAIN t[i] :
        /\ t[i][k].what = "NOCI" => t[i][k].n \in Nat
        /\ t[i][k].what = "average" =>
             LET off == 2 * (n * t[i][k].n - p) IN n > 0 /\ off <= n /\ -off <= n
  BY <1>1, <1>2 DEF Honest, HonestPiece, IsAverage
<1>4. section = "cut" /\ n > 0 /\ p # None => Averaged(t)
  <2> SUFFICES ASSUME section = "cut", n > 0, p # None PROVE Averaged(t)
    OBVIOUS
  <2>1. PICK mid, w, lines : /\ Finished(mid, w, lines, Env)
                             /\ text = Cat(Cat(TopText, lines), ClosingText)
                             /\ Nights > 0 /\ reservation.price_total # None => Averaged(lines)
    BY ReceiptIs
  <2>2. lines \in Seq(Seq(Pieces)) /\ Averaged(lines)
    BY <1>f, <2>1 DEF Finished
  <2>u. PICK u, v, y : u = TopText /\ v = ClosingText /\ y = Cat(u, lines)
    OBVIOUS
  <2>3. u \in Seq(Seq(Pieces)) /\ v \in Seq(Seq(Pieces))
    BY <1>0, <2>u, TextTypes
  <2>4. y \in Seq(Seq(Pieces)) /\ Averaged(y)
    BY <2>2, <2>3, <2>u, AveragedCat, CatType
  <2>5. Averaged(Cat(y, v))
    BY <2>3, <2>4, AveragedCat
  <2> QED BY <1>f, <2>1, <2>5, <2>u
<1>5. section = "cut" /\ n > 0 /\ p # None =>
        \E i \in DOMAIN t : \E k \in DOMAIN t[i] : t[i][k].what = "average"
  BY <1>4 DEF Averaged
<1> QED
  BY <1>3, <1>5, <1>f DEF AverageIsFair

-----------------------------------------------------------------------------
(* The theorems. *)

\* The LAN printer and the station's agent print the same receipt, line by line, for every
\* reservation, every setting and every code page of a station: build_reservation_receipt's
\* bytes and its text_lines never part, except in letters that the station's code page, or
\* the code page 437 in which the agent prints for every station, does not have.
THEOREM SameReceipt == Spec => []SameOnBothPrinters
BY Invariant, SameInv, PTL

\* A cancelled receipt carries its banner at the top and at the bottom, huge, bold and
\* centred on the LAN printer, and no other receipt carries one.
THEOREM CancelledStandsOut == Spec => []CancelledIsUnmistakable
BY Invariant, CancelledInv, PTL

\* The banner, the header and bold labels leave no size, alignment or boldness behind:
\* the printer is back at the settings' layout before the next line.
THEOREM NothingLeaks == Spec => []LayoutIsRestored
BY Invariant, LayoutInv, PTL

\* At every paper width, in letters of the normal size, values end at the edge or follow
\* their label after one blank and wrapped room labels fit the paper; in every size room
\* labels lose no letter of their text.
THEOREM EverythingFits == Spec => []LinesFit
BY Invariant, FitInv, PTL

\* The average that is printed is the total by the nights, to half a cent a night, whatever
\* the price and the dates, and is there exactly where it should be.
THEOREM FairAverage == Spec => []AverageIsFair
BY Invariant, AverageInv, PTL
=============================================================================
