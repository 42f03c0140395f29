---------------------------- MODULE RiskBudgetProofs ----------------------------
(* Proofs about RiskBudget: its types, what a halt refuses, whose halt it is,     *)
(* that it keeps the promises of RiskLedger, that the day was charged all that    *)
(* today's positions hold, and by how much requests that overlap may exceed the   *)
(* open and the daily limit.                                                      *)
EXTENDS RiskBudget, FiniteSetTheorems, TLAPS

-----------------------------------------------------------------------------------
(* Risk as a quotient                                                              *)

\* Natural numbers are closed under product and quotient.
LEMMA ProductNat == ASSUME NEW a \in Nat, NEW b \in Nat PROVE a * b \in Nat
  BY SMT

LEMMA QuotientNat == ASSUME NEW a \in Nat, NEW e \in Nat, e > 0 PROVE a \div e \in Nat
  BY SMT

LEMMA QuotientPositive ==
    ASSUME NEW a \in Nat, NEW e \in Nat, e > 0, a >= e PROVE a \div e > 0
  BY SMT

LEMMA ProductAtLeast == ASSUME NEW a \in Nat, NEW b \in Nat, a > 0 PROVE a * b >= b
  BY SMT

LEMMA DivisorAtMost ==
    ASSUME NEW u \in Nat, NEW e \in Nat, e > 0, u > 0, u % e = 0 PROVE u >= e
  BY SMT

\* The risk of an amount is a natural number at every equity the tracker may have.
LEMMA RiskPctNat ==
    ASSUME NEW a \in Amount \cup {0}, NEW e \in Equity \cup {0}
    PROVE  RiskPct(a, e) \in Nat
  <1>1. a \in Nat /\ e \in Nat /\ Unit \in Nat
    BY RiskBudgetAssumption
  <1>2. a * Unit \in Nat
    BY <1>1, ProductNat
  <1>3. CASE e > 0
    BY <1>1, <1>2, <1>3, QuotientNat DEF RiskPct
  <1>4. CASE ~(e > 0)
    BY <1>4 DEF RiskPct
  <1>5. QED
    BY <1>3, <1>4

\* No amount is without risk once the equity is known.
LEMMA RiskPctPositive ==
    ASSUME NEW a \in Amount, NEW e \in Equity \cup {0}, e > 0
    PROVE  RiskPct(a, e) > 0
  <1>1. a \in Nat /\ a > 0 /\ e \in Nat /\ Unit \in Nat /\ Unit > 0 /\ Unit % e = 0
    BY RiskBudgetAssumption
  <1>2. a * Unit \in Nat /\ a * Unit >= Unit /\ Unit >= e
    BY <1>1, ProductNat, ProductAtLeast, DivisorAtMost
  <1>3. a * Unit >= e
    BY <1>1, <1>2
  <1>4. QED
    BY <1>1, <1>2, <1>3, QuotientPositive DEF RiskPct

-----------------------------------------------------------------------------------
(* Sums.  A sum is a fold, a function defined by recursion on the parts of a set: *)
(* an induction on their size shows that there is such a function and what it is.  *)

Pick(s) == CHOOSE x \in s : TRUE

\* A set of numbers that has 0 and, with n, n + 1, has them all.
LEMMA AllSizes ==
    ASSUME NEW G, 0 \in G, \A n \in Nat : n \in G => n + 1 \in G
    PROVE  \A n \in Nat : n \in G
  <1> DEFINE R == OpToRel(<, Nat)
             B == {n \in Nat : n \notin G}
  <1>1. \A T : T \subseteq Nat /\ T # {} => \E x \in T : \A y \in T : <<y, x>> \notin R
    <2> HIDE DEF R
    <2>1. IsWellFoundedOn(R, Nat)
      BY NatLessThanWellFounded DEF R
    <2>2. QED
      BY <2>1, WFMin
  <1>2. \A x, y \in Nat : y < x => <<y, x>> \in R
    BY DEF OpToRel
  <1> HIDE DEF R
  <1>3. SUFFICES ASSUME B # {} PROVE FALSE
    OBVIOUS
  <1>4. PICK x \in B : \A y \in B : <<y, x>> \notin R
    BY <1>1, <1>3
  <1>5. x \in Nat /\ x # 0 /\ x - 1 \in Nat /\ x - 1 < x /\ x = (x - 1) + 1
    BY <1>4
  <1>6. x - 1 \in G
    BY <1>2, <1>4, <1>5
  <1>7. QED
    BY <1>4, <1>5, <1>6

\* g is what the fold that sums f computes of each part of S.
Tally(g, f, S) ==
    g = [s \in SUBSET S |-> IF s = {} THEN 0 ELSE f[Pick(s)] + g[s \ {Pick(s)}]]

LEMMA PickIn == ASSUME NEW s, s # {} PROVE Pick(s) \in s
  BY DEF Pick

\* taking an element out of a finite set leaves one fewer
LEMMA Smaller ==
    ASSUME NEW S, IsFiniteSet(S), NEW s \in SUBSET S, s # {}, NEW x \in s
    PROVE  /\ IsFiniteSet(s) /\ Cardinality(s) \in Nat
           /\ s \ {x} \in SUBSET S
           /\ Cardinality(s) = Cardinality(s \ {x}) + 1
           /\ Cardinality(s \ {x}) \in Nat
  <1>1. IsFiniteSet(s)
    BY FS_Subset
  <1>2. IsFiniteSet(s \ {x}) /\ Cardinality(s \ {x}) = Cardinality(s) - 1
    BY <1>1, FS_RemoveElement
  <1>3. Cardinality(s) \in Nat /\ Cardinality(s \ {x}) \in Nat
    BY <1>1, <1>2, FS_CardinalityType
  <1>4. QED
    BY <1>1, <1>2, <1>3

LEMMA TallyExists ==
    ASSUME NEW f, NEW S, IsFiniteSet(S) PROVE \E g : Tally(g, f, S)
  <1> DEFINE Sub(n) == {s \in SUBSET S : Cardinality(s) <= n}
             Part(g, n) == g = [s \in Sub(n) |->
                                  IF s = {} THEN 0 ELSE f[Pick(s)] + g[s \ {Pick(s)}]]
             G == {n \in Nat : \E g : Part(g, n)}
  <1>0. \A s \in SUBSET S : Cardinality(s) \in Nat
    BY FS_Subset, FS_CardinalityType
  <1>1. 0 \in G
    <2>1. Sub(0) = {{}}
      <3>1. \A s \in SUBSET S : Cardinality(s) <= 0 <=> s = {}
        BY <1>0, FS_Subset, FS_EmptySet
      <3>2. QED
        BY <3>1
    <2> DEFINE g == [s \in {{}} |-> 0]
    <2>2. Part(g, 0)
      BY <2>1
    <2>3. QED
      BY <2>2
  <1>2. ASSUME NEW n \in Nat, n \in G PROVE n + 1 \in G
    <2>1. PICK g : Part(g, n)
      BY <1>2
    <2> DEFINE h == [s \in Sub(n + 1) |-> IF s = {} THEN 0 ELSE f[Pick(s)] + g[s \ {Pick(s)}]]
    <2>2. \A s \in Sub(n) : s \in Sub(n + 1) /\ h[s] = g[s]
      <3>1. ASSUME NEW s \in Sub(n) PROVE s \in Sub(n + 1)
        BY <1>0, <3>1
      <3>2. ASSUME NEW s \in Sub(n)
            PROVE  /\ h[s] = IF s = {} THEN 0 ELSE f[Pick(s)] + g[s \ {Pick(s)}]
                   /\ g[s] = IF s = {} THEN 0 ELSE f[Pick(s)] + g[s \ {Pick(s)}]
        <4>1. h[s] = IF s = {} THEN 0 ELSE f[Pick(s)] + g[s \ {Pick(s)}]
          BY <3>1
        <4>2. g[s] = IF s = {} THEN 0 ELSE f[Pick(s)] + g[s \ {Pick(s)}]
          BY <2>1
        <4>3. QED
          BY <4>1, <4>2
      <3>3. QED
        BY <3>1, <3>2
    <2>3. \A s \in Sub(n + 1) : s # {} => s \ {Pick(s)} \in Sub(n)
      BY <1>0, Smaller, PickIn
    <2>4. Part(h, n + 1)
      BY <2>2, <2>3
    <2>5. n + 1 \in Nat
      OBVIOUS
    <2> HIDE DEF Part, h
    <2>6. QED
      BY <2>4, <2>5
  <1>3. Cardinality(S) \in G
    <2> HIDE DEF G
    <2>1. \A n \in Nat : n \in G
      BY <1>1, <1>2, AllSizes
    <2>2. QED
      BY <2>1, FS_CardinalityType
  <1>4. Sub(Cardinality(S)) = SUBSET S
    BY FS_Subset
  <1>5. QED
    BY <1>3, <1>4 DEF Tally

\* Tallies of functions that agree agree.
LEMMA TalliesAgree ==
    ASSUME NEW S, NEW T, NEW f, NEW g, NEW e, NEW h, Tally(e, f, S), Tally(h, g, T),
           NEW U \in SUBSET S, U \in SUBSET T, IsFiniteSet(U),
           \A x \in U : f[x] = g[x]
    PROVE  e[U] = h[U]
  <1> DEFINE G == {n \in Nat : \A s \in SUBSET U : Cardinality(s) = n => e[s] = h[s]}
  <1>0. \A s \in SUBSET U :
          /\ IsFiniteSet(s) /\ Cardinality(s) \in Nat
          /\ e[s] = IF s = {} THEN 0 ELSE f[Pick(s)] + e[s \ {Pick(s)}]
          /\ h[s] = IF s = {} THEN 0 ELSE g[Pick(s)] + h[s \ {Pick(s)}]
    <2>1. ASSUME NEW s \in SUBSET U
          PROVE  /\ IsFiniteSet(s) /\ Cardinality(s) \in Nat
                 /\ s \in SUBSET S /\ s \in SUBSET T
      BY FS_Subset, FS_CardinalityType
    <2>2. QED
      BY <2>1 DEF Tally
  <1>1. 0 \in G
    BY <1>0, FS_EmptySet
  <1>2. ASSUME NEW n \in Nat, n \in G PROVE n + 1 \in G
    <2>1. ASSUME NEW s \in SUBSET U, Cardinality(s) = n + 1 PROVE e[s] = h[s]
      <3>1. s # {}
        BY <2>1, FS_EmptySet
      <3>2. Pick(s) \in s /\ f[Pick(s)] = g[Pick(s)]
        BY <3>1, PickIn
      <3>3. s \ {Pick(s)} \in SUBSET U /\ Cardinality(s \ {Pick(s)}) = n
        BY <2>1, <3>1, <3>2, Smaller
      <3>4. e[s \ {Pick(s)}] = h[s \ {Pick(s)}]
        BY <1>2, <3>3
      <3>5. QED
        BY <1>0, <3>1, <3>2, <3>4
    <2>2. QED
      BY <2>1
  <1>3. QED
    <2> HIDE DEF G
    <2>1. \A n \in Nat : n \in G
      BY <1>1, <1>2, AllSizes
    <2>2. QED
      BY <1>0, <2>1 DEF G

\* The sum is what any tally says of the whole set.
LEMMA SumIsTally ==
    ASSUME NEW f, NEW S, IsFiniteSet(S), NEW g, Tally(g, f, S), NEW s \in SUBSET S
    PROVE  SumFunctionOnSet(f, s) = g[s]
  <1> DEFINE h == CHOOSE h : Tally(h, f, s)
  <1>1. IsFiniteSet(s)
    BY FS_Subset
  <1>2. Tally(h, f, s)
    BY <1>1, TallyExists
  <1>3. SumFunctionOnSet(f, s) = h[s]
    BY DEF SumFunctionOnSet, FoldFunctionOnSet, MapThenFoldSet, Tally, Pick
  <1>4. h[s] = g[s]
    <2> HIDE DEF h
    <2>1. QED
      BY <1>1, <1>2, TalliesAgree
  <1>5. QED
    BY <1>3, <1>4

LEMMA SumOfNone == ASSUME NEW f PROVE SumFunctionOnSet(f, {}) = 0
  <1>1. PICK g : Tally(g, f, {})
    BY TallyExists, FS_EmptySet
  <1>2. g[{}] = 0
    BY <1>1 DEF Tally
  <1>3. QED
    BY <1>1, <1>2, SumIsTally, FS_EmptySet

\* Functions that agree have the same sum.
LEMMA SumsAgree ==
    ASSUME NEW S, IsFiniteSet(S), NEW f, NEW g, \A x \in S : f[x] = g[x]
    PROVE  SumFunctionOnSet(f, S) = SumFunctionOnSet(g, S)
  <1>1. PICK d : Tally(d, f, S)
    BY TallyExists
  <1>2. PICK e : Tally(e, g, S)
    BY TallyExists
  <1>3. d[S] = e[S]
    BY <1>1, <1>2, TalliesAgree
  <1>4. QED
    BY <1>1, <1>2, <1>3, SumIsTally

\* The element that is picked is taken out of the sum.
LEMMA SumOfPicked ==
    ASSUME NEW S, IsFiniteSet(S), S # {}, NEW f
    PROVE  SumFunctionOnSet(f, S) = f[Pick(S)] + SumFunctionOnSet(f, S \ {Pick(S)})
  <1>1. PICK g : Tally(g, f, S)
    BY TallyExists
  <1>2. g[S] = f[Pick(S)] + g[S \ {Pick(S)}]
    BY <1>1 DEF Tally
  <1>3. S \in SUBSET S /\ S \ {Pick(S)} \in SUBSET S
    OBVIOUS
  <1>4. QED
    BY <1>1, <1>2, <1>3, SumIsTally

\* A sum of integers is an integer, and of numbers up to b at most b for each.
LEMMA SumInt ==
    ASSUME NEW S, IsFiniteSet(S), NEW f, \A x \in S : f[x] \in Int
    PROVE  SumFunctionOnSet(f, S) \in Int
  <1> DEFINE G == {n \in Nat : \A s \in SUBSET S :
                        Cardinality(s) = n => SumFunctionOnSet(f, s) \in Int}
  <1>1. 0 \in G
    BY FS_Subset, FS_EmptySet, SumOfNone
  <1>2. ASSUME NEW n \in Nat, n \in G PROVE n + 1 \in G
    <2>1. ASSUME NEW s \in SUBSET S, Cardinality(s) = n + 1
          PROVE  SumFunctionOnSet(f, s) \in Int
      <3>1. s # {} /\ IsFiniteSet(s)
        BY <2>1, FS_EmptySet, FS_Subset
      <3>2. Pick(s) \in s
        BY <3>1, PickIn
      <3>3. s \ {Pick(s)} \in SUBSET S /\ Cardinality(s \ {Pick(s)}) = n
        BY <2>1, <3>1, <3>2, Smaller
      <3>4. SumFunctionOnSet(f, s \ {Pick(s)}) \in Int
        BY <1>2, <3>3
      <3>5. SumFunctionOnSet(f, s) = f[Pick(s)] + SumFunctionOnSet(f, s \ {Pick(s)})
        BY <3>1, SumOfPicked
      <3>6. f[Pick(s)] \in Int
        BY <3>2
      <3>7. QED
        BY <3>4, <3>5, <3>6
    <2>2. QED
      BY <2>1
  <1>3. QED
    <2> HIDE DEF G
    <2>1. \A n \in Nat : n \in G
      BY <1>1, <1>2, AllSizes
    <2>2. QED
      BY <2>1, FS_CardinalityType DEF G

\* Whichever element is taken out of the sum.
LEMMA SumTakeOut ==
    ASSUME NEW S, IsFiniteSet(S), NEW f, \A x \in S : f[x] \in Int, NEW y \in S
    PROVE  SumFunctionOnSet(f, S) = f[y] + SumFunctionOnSet(f, S \ {y})
  <1> DEFINE G == {n \in Nat : \A s \in SUBSET S : \A x \in s :
                        Cardinality(s) = n =>
                            SumFunctionOnSet(f, s) = f[x] + SumFunctionOnSet(f, s \ {x})}
  <1>1. 0 \in G
    BY FS_Subset, FS_EmptySet
  <1>2. ASSUME NEW n \in Nat, n \in G PROVE n + 1 \in G
    <2>1. ASSUME NEW s \in SUBSET S, NEW x \in s, Cardinality(s) = n + 1
          PROVE  SumFunctionOnSet(f, s) = f[x] + SumFunctionOnSet(f, s \ {x})
      <3> DEFINE p == Pick(s)
      <3>1. s # {} /\ IsFiniteSet(s) /\ p \in s
        BY FS_Subset, PickIn
      <3>2. SumFunctionOnSet(f, s) = f[p] + SumFunctionOnSet(f, s \ {p})
        BY <3>1, SumOfPicked
      <3>3. /\ s \ {p} \in SUBSET S /\ Cardinality(s \ {p}) = n
            /\ s \ {x} \in SUBSET S /\ Cardinality(s \ {x}) = n
        BY <2>1, <3>1, Smaller
      <3> HIDE DEF p
      <3>4. CASE x = p
        BY <3>2, <3>4
      <3>5. CASE x # p
        <4>1. x \in s \ {p} /\ p \in s \ {x} /\ (s \ {p}) \ {x} = (s \ {x}) \ {p}
          BY <3>1, <3>5
        <4>2. SumFunctionOnSet(f, s \ {p}) = f[x] + SumFunctionOnSet(f, (s \ {p}) \ {x})
          BY <1>2, <3>3, <4>1
        <4>3. SumFunctionOnSet(f, s \ {x}) = f[p] + SumFunctionOnSet(f, (s \ {x}) \ {p})
          BY <1>2, <3>3, <4>1
        <4>4. f[x] \in Int /\ f[p] \in Int
          BY <3>1
        <4>5. SumFunctionOnSet(f, (s \ {x}) \ {p}) \in Int
          BY <3>1, FS_Subset, SumInt
        <4> DEFINE rest == SumFunctionOnSet(f, (s \ {x}) \ {p})
        <4>6. SumFunctionOnSet(f, s) = f[p] + (f[x] + rest)
          BY <3>2, <4>1, <4>2
        <4>7. SumFunctionOnSet(f, s \ {x}) = f[p] + rest /\ rest \in Int
          BY <4>3, <4>5
        <4> HIDE DEF rest
        <4>8. f[p] + (f[x] + rest) = f[x] + (f[p] + rest)
          BY <4>4, <4>7
        <4>9. QED
          BY <4>6, <4>7, <4>8
      <3>6. QED
        BY <3>4, <3>5
    <2>2. QED
      BY <2>1
  <1>3. QED
    <2> HIDE DEF G
    <2>1. \A n \in Nat : n \in G
      BY <1>1, <1>2, AllSizes
    <2>2. QED
      BY <2>1, FS_CardinalityType DEF G

LEMMA SumAtMost ==
    ASSUME NEW S, IsFiniteSet(S), NEW f, NEW b \in Nat, \A x \in S : f[x] \in Nat /\ f[x] <= b
    PROVE  SumFunctionOnSet(f, S) \in Nat /\ SumFunctionOnSet(f, S) <= Cardinality(S) * b
  <1> DEFINE G == {n \in Nat : \A s \in SUBSET S :
                        Cardinality(s) = n =>
                            /\ SumFunctionOnSet(f, s) \in Nat
                            /\ SumFunctionOnSet(f, s) <= n * b}
  <1>1. 0 \in G
    <2>1. 0 * b = 0
      OBVIOUS
    <2>2. QED
      BY <2>1, FS_Subset, FS_EmptySet, SumOfNone
  <1>2. ASSUME NEW n \in Nat, n \in G PROVE n + 1 \in G
    <2>1. ASSUME NEW s \in SUBSET S, Cardinality(s) = n + 1
          PROVE  SumFunctionOnSet(f, s) \in Nat /\ SumFunctionOnSet(f, s) <= (n + 1) * b
      <3>1. s # {} /\ IsFiniteSet(s)
        BY <2>1, FS_EmptySet, FS_Subset
      <3>2. Pick(s) \in s
        BY <3>1, PickIn
      <3>3. s \ {Pick(s)} \in SUBSET S /\ Cardinality(s \ {Pick(s)}) = n
        BY <2>1, <3>1, <3>2, Smaller
      <3>4. /\ SumFunctionOnSet(f, s \ {Pick(s)}) \in Nat
            /\ SumFunctionOnSet(f, s \ {Pick(s)}) <= n * b
        BY <1>2, <3>3
      <3>5. SumFunctionOnSet(f, s) = f[Pick(s)] + SumFunctionOnSet(f, s \ {Pick(s)})
        BY <3>1, SumOfPicked
      <3>6. f[Pick(s)] \in Nat /\ f[Pick(s)] <= b
        BY <3>2
      <3>7. (n + 1) * b = n * b + b /\ n * b \in Nat
        BY SMT
      <3>8. QED
        BY <3>4, <3>5, <3>6, <3>7
    <2>2. QED
      BY <2>1
  <1>3. QED
    <2> HIDE DEF G
    <2>1. \A n \in Nat : n \in G
      BY <1>1, <1>2, AllSizes
    <2>2. QED
      BY <2>1, FS_CardinalityType DEF G

\* Where one term changes, the sum changes by as much.
LEMMA SumOfChanged ==
    ASSUME NEW S, IsFiniteSet(S), NEW f, NEW g, NEW y \in S,
           \A x \in S : f[x] \in Nat /\ g[x] \in Nat,
           \A x \in S \ {y} : f[x] = g[x]
    PROVE  /\ SumFunctionOnSet(f, S) \in Int /\ SumFunctionOnSet(g, S) \in Int
           /\ SumFunctionOnSet(g, S) = SumFunctionOnSet(f, S) + g[y] - f[y]
  <1>1. \A x \in S : f[x] \in Int /\ g[x] \in Int
    OBVIOUS
  <1>2. IsFiniteSet(S \ {y})
    BY FS_RemoveElement
  <1>3. SumFunctionOnSet(f, S) = f[y] + SumFunctionOnSet(f, S \ {y})
    BY <1>1, SumTakeOut
  <1>4. SumFunctionOnSet(g, S) = g[y] + SumFunctionOnSet(g, S \ {y})
    BY <1>1, SumTakeOut
  <1>5. SumFunctionOnSet(f, S \ {y}) = SumFunctionOnSet(g, S \ {y})
    BY <1>2, SumsAgree
  <1>6. SumFunctionOnSet(f, S \ {y}) \in Int
    BY <1>1, <1>2, SumInt
  <1>7. f[y] \in Int /\ g[y] \in Int
    BY <1>1
  <1>8. QED
    BY <1>3, <1>4, <1>5, <1>6, <1>7

-----------------------------------------------------------------------------------
(* The inductive invariant                                                         *)

Budgeted == {"daily", "open", "count", "symbol", "losses", "granted"}

\* What each stage of an evaluation has established, on the equity it was begun with.
EvaluationOK ==
    \A r \in Request :
        At(r, "idle") \/
        /\ eval[r].equity \in Equity \cup {0}
        /\ eval[r].equity > 0 => equity > 0 /\ eval[r].risk > 0
        /\ eval[r].pc \in {"drawdown", "breached", "perTrade"} \cup Budgeted => eval[r].equity > 0
        /\ eval[r].pc \in Budgeted => eval[r].room <= PerTrade
        /\ At(r, "granted") => eval[r].room > 0

\* The observation clear follows the halt.
ClearOK ==
    \A r \in Request :
        ~At(r, "idle") /\ (halt = None \/ ~At(r, "halted")) => eval[r].clear

IInv ==
    /\ TypeOK
    /\ equity \in Equity \cup {0}
    /\ EvaluationOK
    /\ ClearOK
    /\ OperatorHaltHolds

USE DEF At, Min2, AtLeast0

LEMMA InitIInv == Init => IInv
  <1> SUFFICES ASSUME Init PROVE IInv
    OBVIOUS
  <1>1. TypeOK
    BY DEF Init, TypeOK, Evaluation, Halts
  <1>2. EvaluationOK /\ ClearOK
    BY DEF Init, EvaluationOK, ClearOK, Idle
  <1>3. OperatorHaltHolds /\ equity \in Equity \cup {0}
    BY DEF Init, OperatorHaltHolds
  <1>4. QED
    BY <1>1, <1>2, <1>3 DEF IInv

\* A charge keeps the day's usage in its type.
LEMMA ConsumeType ==
    ASSUME TypeOK, NEW x \in Nat, NEW S \in SUBSET Position, Consume(x, S)
    PROVE  /\ spent' \in Nat /\ losses' \in Nat /\ newDay' \in BOOLEAN
           /\ today' \in SUBSET Position
           /\ spent' \in {spent + x, x}
  <1>1. CASE newDay
    BY <1>1 DEF TypeOK, Consume
  <1>2. CASE ~newDay
    <2>1. spent' = spent + x /\ losses' = losses /\ newDay' = FALSE /\ today' = today \cup S
      BY <1>2 DEF TypeOK, Consume
    <2>2. spent + x \in Nat /\ losses \in Nat
      BY DEF TypeOK
    <2>3. today \cup S \in SUBSET Position
      BY DEF TypeOK
    <2>4. QED
      BY <2>1, <2>2, <2>3
  <1>3. QED
    BY <1>1, <1>2

\* One evaluation goes on: what it must still satisfy.
LEMMA EvalStep ==
    ASSUME IInv, NEW r \in Request, NEW e,
           eval' = [eval EXCEPT ![r] = e],
           UNCHANGED <<equity, halt, operator>>,
           \/ e = Idle
           \/ /\ e \in [pc : PC, symbol : Symbol, risk : Nat, room : Nat, equity : Nat,
                        clear : BOOLEAN]
              /\ e.equity \in Equity \cup {0}
              /\ e.equity > 0 => equity > 0 /\ e.risk > 0
              /\ e.pc \in {"drawdown", "breached", "perTrade"} \cup Budgeted => e.equity > 0
              /\ e.pc \in Budgeted => e.room <= PerTrade
              /\ e.pc = "granted" => e.room > 0
              /\ halt = None \/ e.pc # "halted" => e.clear
    PROVE  /\ eval' \in [Request -> Evaluation]
           /\ EvaluationOK' /\ ClearOK' /\ OperatorHaltHolds'
  <1>1. \A q \in Request : eval'[q] = IF q = r THEN e ELSE eval[q]
    BY DEF IInv, TypeOK
  <1>2. eval' \in [Request -> Evaluation]
    BY DEF IInv, TypeOK, Evaluation
  <1>3. EvaluationOK'
    BY <1>1 DEF IInv, EvaluationOK, Idle, Budgeted
  <1>4. ClearOK'
    BY <1>1 DEF IInv, ClearOK, Idle
  <1>5. OperatorHaltHolds'
    BY DEF IInv, OperatorHaltHolds
  <1>6. QED
    BY <1>2, <1>3, <1>4, <1>5

Record == [pc : PC, symbol : Symbol, risk : Nat, room : Nat, equity : Nat, clear : BOOLEAN]

\* An evaluation goes on to the stage next with the room x.
LEMMA Onward ==
    ASSUME IInv, NEW r \in Request, ~At(r, "idle"), NEW next \in PC \ {"halted"}, NEW x \in Nat,
           eval' = [eval EXCEPT ![r] = [eval[r] EXCEPT !.pc = next, !.room = x]],
           UNCHANGED <<equity, halt, operator>>,
           halt = None \/ ~At(r, "halted"),
           next \in {"drawdown", "breached", "perTrade"} \cup Budgeted => eval[r].equity > 0,
           next \in Budgeted => x <= PerTrade,
           next = "granted" => x > 0
    PROVE  /\ eval' \in [Request -> Evaluation]
           /\ EvaluationOK' /\ ClearOK' /\ OperatorHaltHolds'
  <1> DEFINE e == [eval[r] EXCEPT !.pc = next, !.room = x]
  <1>1. eval[r] \in Record
    BY DEF IInv, TypeOK, Evaluation, Idle, Record
  <1>2. /\ e \in Record
        /\ e.equity = eval[r].equity /\ e.risk = eval[r].risk /\ e.pc = next
        /\ e.room = x /\ e.clear = eval[r].clear
    BY <1>1 DEF Record
  <1>3. /\ eval[r].equity \in Equity \cup {0}
        /\ eval[r].equity > 0 => equity > 0 /\ eval[r].risk > 0
    BY DEF IInv, EvaluationOK
  <1>4. eval[r].clear
    BY DEF IInv, ClearOK
  <1> HIDE DEF e
  <1>5. eval' = [eval EXCEPT ![r] = e]
    BY DEF e
  <1>6. e \in [pc : PC, symbol : Symbol, risk : Nat, room : Nat, equity : Nat, clear : BOOLEAN]
    BY <1>2 DEF Record
  <1>7. e.equity \in Equity \cup {0} /\ (e.equity > 0 => equity > 0 /\ e.risk > 0)
    BY <1>2, <1>3
  <1>8. /\ e.pc \in {"drawdown", "breached", "perTrade"} \cup Budgeted => e.equity > 0
        /\ e.pc \in Budgeted => e.room <= PerTrade
        /\ e.pc = "granted" => e.room > 0
    BY <1>2
  <1>9. e.clear
    BY <1>2, <1>4
  <1>10. QED
    BY <1>5, <1>6, <1>7, <1>8, <1>9, EvalStep

\* The same, when only the stage changes.
LEMMA OnwardGoto ==
    ASSUME IInv, NEW r \in Request, ~At(r, "idle"), NEW next \in PC \ {"halted"}, Goto(r, next),
           UNCHANGED <<equity, halt, operator>>,
           halt = None \/ ~At(r, "halted"),
           next \in {"drawdown", "breached", "perTrade"} \cup Budgeted => eval[r].equity > 0,
           next \in Budgeted => eval[r].room <= PerTrade,
           next = "granted" => eval[r].room > 0
    PROVE  /\ eval' \in [Request -> Evaluation]
           /\ EvaluationOK' /\ ClearOK' /\ OperatorHaltHolds'
  <1>1. eval[r] \in Record
    BY DEF IInv, TypeOK, Evaluation, Idle, Record
  <1>2. [eval[r] EXCEPT !.pc = next] = [eval[r] EXCEPT !.pc = next, !.room = eval[r].room]
    BY <1>1 DEF Record
  <1>3. eval' = [eval EXCEPT ![r] = [eval[r] EXCEPT !.pc = next, !.room = eval[r].room]]
    BY <1>2 DEF Goto
  <1>4. eval[r].room \in Nat
    BY <1>1 DEF Record
  <1>5. QED
    BY <1>3, <1>4, Onward

\* An answer: the evaluation is over, the day's usage is that of today.
LEMMA RejectStep ==
    ASSUME IInv, NEW r \in Request, Reject(r),
           UNCHANGED halt \/ (halt' \in Halts /\ ~At(r, "halted")),
           UNCHANGED <<market, operator, book, excess, events>>
    PROVE  IInv'
  <1> USE DEF market
  <1>1. eval' = [eval EXCEPT ![r] = Idle]
    BY DEF Reject
  <1>2. \A q \in Request : eval'[q] = IF q = r THEN Idle ELSE eval[q]
    BY <1>1 DEF IInv, TypeOK
  <1>3. /\ spent' \in Nat /\ losses' \in Nat /\ newDay' \in BOOLEAN
        /\ today' \in SUBSET Position
    <2>1. Consume(0, {})
      BY DEF Reject, EnsureDailyUsage
    <2>2. QED
      BY <2>1, ConsumeType DEF IInv
  <1>4. halt' = halt \/ (halt' \in Halts /\ halt' # None)
    BY RiskBudgetAssumption
  <1>5. TypeOK'
    <2>1. eval' \in [Request -> Evaluation]
      BY <1>1 DEF IInv, TypeOK, Evaluation
    <2>2. halt' \in Halts \cup {None}
      BY <1>4 DEF IInv, TypeOK
    <2>3. QED
      BY <2>1, <2>2, <1>3 DEF IInv, TypeOK
  <1>6. EvaluationOK'
    BY <1>2 DEF IInv, EvaluationOK, Idle
  <1>7. ClearOK'
    BY <1>2, <1>4 DEF IInv, ClearOK, Idle
  <1>8. OperatorHaltHolds'
    BY <1>4 DEF IInv, OperatorHaltHolds
  <1>9. QED
    BY <1>5, <1>6, <1>7, <1>8 DEF IInv

\* Checks that only read and reject or go on.
LEMMA ChecksKeepIInv ==
    ASSUME IInv, NEW r \in Request, NEW pc \in PC, NEW ok, NEW next \in PC \ {"halted", "granted"},
           Check(r, pc, ok, next),
           ok => halt = None \/ pc # "halted",
           ok /\ next \in {"drawdown", "breached", "perTrade"} \cup Budgeted => eval[r].equity > 0,
           next \in Budgeted => pc \in Budgeted
    PROVE  IInv'
  <1>1. At(r, pc) /\ ~At(r, "idle")
    BY DEF Check, PC
  <1>2. CASE Goto(r, next) /\ UNCHANGED day /\ ok
    <2>1. UNCHANGED <<market, halts, day, book, excess, events>>
      BY <1>2 DEF Check
    <2>2. next \in Budgeted => eval[r].room <= PerTrade
      BY <1>1 DEF IInv, EvaluationOK
    <2>3. /\ eval' \in [Request -> Evaluation]
          /\ EvaluationOK' /\ ClearOK' /\ OperatorHaltHolds'
      BY <1>1, <1>2, <2>1, <2>2, OnwardGoto DEF market, halts
    <2>4. QED
      BY <2>1, <2>3 DEF IInv, TypeOK, market, halts, day
  <1>3. CASE Reject(r)
    BY <1>3, RejectStep DEF Check, halts
  <1>4. QED
    BY <1>2, <1>3 DEF Check

\* Checks of the risk keep part of the room.
LEMMA FitsKeepIInv ==
    ASSUME IInv, NEW r \in Request, NEW pc \in PC, NEW limit, NEW next \in Budgeted \ {"granted"},
           Fit(r, pc, limit, next), pc # "halted",
           pc \in {"perTrade"} \cup Budgeted,
           pc \notin Budgeted => limit \in Nat /\ limit <= PerTrade,
           UNCHANGED day \/ EnsureDailyUsage
    PROVE  IInv'
  <1>1. At(r, pc) /\ ~At(r, "idle") /\ ~At(r, "halted")
    BY DEF Fit, PC
  <1>2. eval[r] \in Record
    BY <1>1 DEF IInv, TypeOK, Evaluation, Idle, Record
  <1>3. PICK x \in 0 .. eval[r].room :
            /\ x > 0 => x <= limit
            /\ eval' = [eval EXCEPT ![r].pc = next, ![r].room = x]
    BY DEF Fit
  <1>4. x \in Nat /\ eval[r].room \in Nat /\ x <= eval[r].room /\ PerTrade \in Nat
    BY <1>2, RiskBudgetAssumption DEF Record
  <1>5. eval' = [eval EXCEPT ![r] = [eval[r] EXCEPT !.pc = next, !.room = x]]
    BY <1>3, <1>2 DEF Record, IInv, TypeOK
  <1>6. eval[r].equity > 0 /\ (pc \in Budgeted => eval[r].room <= PerTrade)
    BY <1>1 DEF IInv, EvaluationOK
  <1>7. x <= PerTrade
    <2>1. CASE pc \in Budgeted
      BY <2>1, <1>4, <1>6
    <2>2. CASE pc \notin Budgeted
      <3>1. limit \in Nat /\ limit <= PerTrade
        BY <2>2
      <3>2. QED
        BY <3>1, <1>3, <1>4
    <2>3. QED
      BY <2>1, <2>2
  <1>8. UNCHANGED <<market, halts, book, excess, events>>
    BY DEF Fit
  <1>9. /\ eval' \in [Request -> Evaluation]
        /\ EvaluationOK' /\ ClearOK' /\ OperatorHaltHolds'
    <2>1. next \in PC \ {"halted"} /\ next # "granted"
      BY DEF Budgeted, PC
    <2>2. UNCHANGED <<equity, halt, operator>>
      BY <1>8 DEF market, halts
    <2>3. QED
      BY <1>1, <1>4, <1>5, <1>6, <1>7, <2>1, <2>2, Onward
  <1>10. /\ spent' \in Nat /\ losses' \in Nat /\ newDay' \in BOOLEAN
         /\ today' \in SUBSET Position
    <2>1. CASE UNCHANGED day
      BY <2>1 DEF IInv, TypeOK, day
    <2>2. CASE EnsureDailyUsage
      BY <2>2, ConsumeType DEF EnsureDailyUsage, IInv
    <2>3. QED
      BY <2>1, <2>2
  <1>11. QED
    BY <1>8, <1>9, <1>10 DEF IInv, TypeOK, market, halts

\* Every stage of an evaluation keeps the invariant.
LEMMA EvaluateStep == ASSUME IInv, NEW r \in Request, Evaluate(r) PROVE IInv'
  <1>1. CASE EvaluateRequest(r)
    <2>1. CASE Reject(r)
      BY <1>1, <2>1, RejectStep DEF EvaluateRequest, halts
    <2>2. ASSUME NEW s \in Symbol, NEW a \in Amount, UNCHANGED day,
                 eval' = [eval EXCEPT ![r] = [pc |-> "halted", symbol |-> s,
                                              risk |-> RiskPct(a, equity),
                                              room |-> RiskPct(a, equity), equity |-> equity,
                                              clear |-> halt = None]]
          PROVE  IInv'
      <3> DEFINE e == [pc |-> "halted", symbol |-> s, risk |-> RiskPct(a, equity),
                       room |-> RiskPct(a, equity), equity |-> equity,
                       clear |-> halt = None]
      <3>1. RiskPct(a, equity) \in Nat /\ (equity > 0 => RiskPct(a, equity) > 0)
        BY RiskPctNat, RiskPctPositive DEF IInv
      <3>2. e \in Record
        BY <3>1 DEF Record, PC, IInv, TypeOK
      <3>3. UNCHANGED <<market, halts, day, book, excess, events>>
        BY <1>1, <2>2 DEF EvaluateRequest
      <3>4. /\ e.pc = "halted" /\ e.equity = equity /\ e.risk = RiskPct(a, equity)
            /\ e.clear = (halt = None)
        OBVIOUS
      <3>5. /\ eval' \in [Request -> Evaluation]
            /\ EvaluationOK' /\ ClearOK' /\ OperatorHaltHolds'
        <4>1. eval' = [eval EXCEPT ![r] = e]
          BY <2>2
        <4>2. /\ e \in [pc : PC, symbol : Symbol, risk : Nat, room : Nat, equity : Nat,
                        clear : BOOLEAN]
              /\ e.equity \in Equity \cup {0}
              /\ UNCHANGED <<equity, halt, operator>>
          BY <3>2, <3>3 DEF Record, IInv, market, halts
        <4> HIDE DEF e
        <4>3. QED
          BY <3>1, <3>4, <4>1, <4>2, EvalStep DEF Budgeted
      <3>6. QED
        BY <3>3, <3>5 DEF IInv, TypeOK, market, halts, day
    <2>3. QED
      BY <1>1, <2>1, <2>2 DEF EvaluateRequest
  <1>2. CASE CheckHalted(r)
    BY <1>2, ChecksKeepIInv DEF CheckHalted, PC, Budgeted
  <1>3. CASE CheckStale(r)
    <2>1. fresh /\ eval[r].equity >= MinEquity => eval[r].equity > 0
      <3>1. eval[r].equity \in Nat
        BY <1>3, RiskBudgetAssumption
           DEF CheckStale, Check, IInv, TypeOK, Evaluation, Idle
      <3>2. MinEquity \in Nat /\ MinEquity > 0
        BY RiskBudgetAssumption
      <3>3. QED
        BY <3>1, <3>2
    <2>2. QED
      BY <1>3, <2>1, ChecksKeepIInv DEF CheckStale, PC, Budgeted
  <1>4. CASE CheckDrawdown(r)
    <2>1. At(r, "drawdown") /\ UNCHANGED <<market, halts, day, book, excess, events>>
      BY <1>4 DEF CheckDrawdown
    <2>2. eval[r].equity > 0
      BY <2>1 DEF IInv, EvaluationOK
    <2>3. PICK next \in {"perTrade", "breached"} : Goto(r, next)
      BY <1>4 DEF CheckDrawdown
    <2>4. /\ eval' \in [Request -> Evaluation]
          /\ EvaluationOK' /\ ClearOK' /\ OperatorHaltHolds'
      BY <2>1, <2>2, <2>3, OnwardGoto DEF PC, Budgeted, market, halts
    <2>5. QED
      BY <2>1, <2>4 DEF IInv, TypeOK, market, halts, day
  <1>5. CASE HaltOnDrawdown(r)
    BY <1>5, RejectStep DEF HaltOnDrawdown, Halts
  <1>6. CASE CheckPerTrade(r)
    <2>1. PerTradeLimit \in Nat /\ PerTradeLimit <= PerTrade
      BY RiskBudgetAssumption DEF PerTradeLimit
    <2>2. QED
      BY <1>6, <2>1, FitsKeepIInv DEF CheckPerTrade, PC, Budgeted
  <1>7. CASE CheckDailyBudget(r)
    BY <1>7, FitsKeepIInv DEF CheckDailyBudget, PC, Budgeted
  <1>8. CASE CheckOpenBudget(r)
    BY <1>8, FitsKeepIInv DEF CheckOpenBudget, PC, Budgeted
  <1>9. CASE CheckPositionCount(r)
    <2>1. At(r, "count")
      BY <1>9 DEF CheckPositionCount, Check
    <2>2. eval[r].equity > 0
      BY <2>1 DEF IInv, EvaluationOK, Budgeted
    <2>3. QED
      BY <1>9, <2>2, ChecksKeepIInv DEF CheckPositionCount, PC, Budgeted
  <1>10. CASE CheckSymbol(r)
    <2>1. At(r, "symbol")
      BY <1>10 DEF CheckSymbol, Check
    <2>2. eval[r].equity > 0
      BY <2>1 DEF IInv, EvaluationOK, Budgeted
    <2>3. QED
      BY <1>10, <2>2, ChecksKeepIInv DEF CheckSymbol, PC, Budgeted
  <1>11. CASE CheckLosses(r)
    <2>1. At(r, "losses") /\ UNCHANGED <<market, halts, book, excess, events>>
      BY <1>11 DEF CheckLosses
    <2>2. CASE Worth(r) /\ Goto(r, "granted") /\ EnsureDailyUsage
      <3>1. /\ eval[r].equity > 0 /\ eval[r].room <= PerTrade
            /\ eval[r].equity > 0 => eval[r].risk > 0
        BY <2>1 DEF IInv, EvaluationOK, Budgeted
      <3>2. eval[r].room > 0
        BY <2>2, <3>1 DEF Worth
      <3>3. /\ eval' \in [Request -> Evaluation]
            /\ EvaluationOK' /\ ClearOK' /\ OperatorHaltHolds'
        BY <2>1, <2>2, <3>1, <3>2, OnwardGoto DEF PC, Budgeted, market, halts
      <3>4. /\ spent' \in Nat /\ losses' \in Nat /\ newDay' \in BOOLEAN
            /\ today' \in SUBSET Position
        BY <2>2, ConsumeType DEF EnsureDailyUsage, IInv
      <3>5. QED
        BY <2>1, <3>3, <3>4 DEF IInv, TypeOK, market, halts
    <2>3. CASE Reject(r)
      BY <2>1, <2>3, RejectStep DEF halts
    <2>4. QED
      BY <1>11, <2>2, <2>3 DEF CheckLosses
  <1>12. QED
    BY <1>1, <1>2, <1>3, <1>4, <1>5, <1>6, <1>7, <1>8, <1>9, <1>10, <1>11 DEF Evaluate

\* Positions come and go.
LEMMA PositionStep ==
    ASSUME IInv,
           \/ \E r \in Request : RegisterPosition(r) \/ Abandon(r)
           \/ \E p \in Position : ClosePosition(p) \/ PartialClose(p) \/ UpdateStopLoss(p)
    PROVE  IInv'
  <1>1. ASSUME NEW r \in Request, RegisterPosition(r) \/ Abandon(r) PROVE IInv'
    <2>1. eval' = [eval EXCEPT ![r] = Idle] /\ UNCHANGED <<market, halts>>
      BY <1>1 DEF RegisterPosition, Abandon
    <2>2. /\ eval' \in [Request -> Evaluation]
          /\ EvaluationOK' /\ ClearOK' /\ OperatorHaltHolds'
      BY <2>1, EvalStep DEF market, halts
    <2>3. CASE RegisterPosition(r)
      <3>1. At(r, "granted")
        BY <2>3 DEF RegisterPosition
      <3>2. eval[r] \in Record
        BY <3>1 DEF IInv, TypeOK, Evaluation, Idle, Record
      <3>3. PICK p \in Position \ OpenPositions, a \in Amount :
                /\ book' = [book EXCEPT ![p] = [symbol |-> eval[r].symbol,
                                                risk |-> RiskPct(a, equity)]]
                /\ Consume(RiskPct(a, equity), {p})
                /\ excess' = excess + AtLeast0(RiskPct(a, equity) - eval[r].room)
        BY <2>3 DEF RegisterPosition
      <3>4. RiskPct(a, equity) \in Nat
        BY RiskPctNat DEF IInv
      <3>5. /\ spent' \in Nat /\ losses' \in Nat /\ newDay' \in BOOLEAN
            /\ today' \in SUBSET Position
        BY <3>3, <3>4, ConsumeType DEF IInv
      <3>6. excess' \in Nat
        <4>1. eval[r].room \in Nat /\ excess \in Nat
          BY <3>2 DEF Record, IInv, TypeOK
        <4>2. QED
          BY <3>3, <3>4, <4>1
      <3>7. book' \in [Position -> {None} \cup [symbol : Symbol, risk : Nat]]
        <4>1. [symbol |-> eval[r].symbol, risk |-> RiskPct(a, equity)]
                \in [symbol : Symbol, risk : Nat]
          BY <3>2, <3>4 DEF Record
        <4>2. QED
          BY <3>3, <4>1 DEF IInv, TypeOK
      <3>8. UNCHANGED events
        BY <2>3 DEF RegisterPosition
      <3>9. QED
        BY <2>1, <2>2, <3>5, <3>6, <3>7, <3>8 DEF IInv, TypeOK, market, halts
    <2>4. CASE Abandon(r)
      BY <2>1, <2>2, <2>4 DEF Abandon, IInv, TypeOK, market, halts, day
    <2>5. QED
      BY <1>1, <2>3, <2>4
  <1>2. ASSUME NEW p \in Position, ClosePosition(p) \/ PartialClose(p) \/ UpdateStopLoss(p)
        PROVE  IInv'
    <2>1. UNCHANGED <<market, halts, eval>> /\ p \in OpenPositions
      BY <1>2 DEF ClosePosition, PartialClose, UpdateStopLoss
    <2>2. EvaluationOK' /\ ClearOK' /\ OperatorHaltHolds'
      BY <2>1 DEF IInv, EvaluationOK, ClearOK, OperatorHaltHolds, market, halts
    <2>3. book[p] \in [symbol : Symbol, risk : Nat]
      BY <2>1 DEF OpenPositions, IInv, TypeOK
    <2>4. CASE ClosePosition(p)
      <3>1. losses' \in Nat
        BY <2>4, RiskBudgetAssumption DEF ClosePosition, IInv, TypeOK
      <3>2. QED
        BY <2>1, <2>2, <2>4, <3>1 DEF ClosePosition, IInv, TypeOK, market, halts
    <2>5. CASE PartialClose(p)
      <3>1. PICK x \in Left : book' = [book EXCEPT ![p].risk = x]
        BY <2>5 DEF PartialClose
      <3>2. x \in Nat
        BY RiskBudgetAssumption
      <3>3. book' \in [Position -> {None} \cup [symbol : Symbol, risk : Nat]]
        BY <2>3, <3>1, <3>2 DEF IInv, TypeOK
      <3>4. events' \in Nat
        BY <2>5 DEF PartialClose, Event, IInv, TypeOK
      <3>5. QED
        BY <2>1, <2>2, <2>5, <3>3, <3>4 DEF PartialClose, IInv, TypeOK, market, halts, day
    <2>6. CASE UpdateStopLoss(p)
      <3>1. PICK a \in Amount \cup {0} :
                /\ book' = [book EXCEPT ![p].risk = RiskPct(a, equity)]
                /\ \/ Consume(AtLeast0(RiskPct(a, equity) - book[p].risk), {})
                   \/ UNCHANGED day
                /\ excess' = excess + AtLeast0(RiskPct(a, equity) - book[p].risk)
        BY <2>6 DEF UpdateStopLoss
      <3>2. RiskPct(a, equity) \in Nat /\ book[p].risk \in Nat
        BY <2>3, RiskPctNat DEF IInv
      <3>3. book' \in [Position -> {None} \cup [symbol : Symbol, risk : Nat]]
        BY <2>3, <3>1, <3>2 DEF IInv, TypeOK
      <3>4. AtLeast0(RiskPct(a, equity) - book[p].risk) \in Nat
        BY <3>2
      <3>5. excess' \in Nat
        BY <3>1, <3>4 DEF IInv, TypeOK
      <3>6. /\ spent' \in Nat /\ losses' \in Nat /\ newDay' \in BOOLEAN
            /\ today' \in SUBSET Position
        <4>1. CASE UNCHANGED day
          BY <4>1 DEF day, IInv, TypeOK
        <4>2. CASE Consume(AtLeast0(RiskPct(a, equity) - book[p].risk), {})
          BY <3>4, <4>2, ConsumeType DEF IInv
        <4>3. QED
          BY <3>1, <4>1, <4>2
      <3>7. events' \in Nat
        BY <2>6 DEF UpdateStopLoss, Event, IInv, TypeOK
      <3>8. QED
        BY <2>1, <2>2, <3>3, <3>5, <3>6, <3>7 DEF IInv, TypeOK, market, halts
    <2>7. QED
      BY <1>2, <2>4, <2>5, <2>6
  <1>3. QED
    BY <1>1, <1>2

\* A resumption clears every evaluation under way, and nothing else of it.
LEMMA ResumedFacts ==
    ASSUME TypeOK, Resumed(Request)
    PROVE  /\ eval' \in [Request -> Evaluation]
           /\ \A r \in Request :
                /\ eval'[r].pc = eval[r].pc
                /\ ~At(r, "idle") => /\ eval'[r].clear
                                     /\ eval'[r].equity = eval[r].equity
                                     /\ eval'[r].risk = eval[r].risk
                                     /\ eval'[r].room = eval[r].room
  <1>1. ASSUME NEW r \in Request
        PROVE  /\ eval'[r] \in Evaluation
               /\ eval'[r].pc = eval[r].pc
               /\ ~At(r, "idle") => /\ eval'[r].clear
                                    /\ eval'[r].equity = eval[r].equity
                                    /\ eval'[r].risk = eval[r].risk
                                    /\ eval'[r].room = eval[r].room
    <2>1. CASE eval[r] = Idle
      BY <2>1 DEF Resumed, Idle, Evaluation
    <2>2. CASE eval[r] # Idle
      <3>1. eval[r] \in Record /\ eval'[r] = [eval[r] EXCEPT !.clear = TRUE]
        BY <2>2 DEF TypeOK, Evaluation, Record, Resumed
      <3>2. eval'[r] \in Record
        BY <3>1 DEF Record
      <3>3. QED
        BY <3>1, <3>2 DEF Record, Evaluation
    <2>3. QED
      BY <2>1, <2>2
  <1>2. eval' = [r \in Request |-> eval'[r]]
    BY DEF Resumed
  <1>3. QED
    BY <1>1, <1>2

\* The account monitor, the operator and the clock.
LEMMA OutsideStep ==
    ASSUME IInv,
           \/ \E e \in Equity : UpdateEquity(e) \/ SetPeakEquity(e)
           \/ DateChanges \/ ResetDailyBudget \/ EquityAges \/ HaltTrading \/ ResumeTrading
    PROVE  IInv'
  <1> USE DEF IInv, TypeOK, Event, market, halts, day
  <1>1. ASSUME NEW e \in Equity, UpdateEquity(e) PROVE IInv'
    <2>1. e \in Nat /\ e > 0 /\ equity' = e /\ peak' \in Nat /\ fresh' = TRUE
      BY <1>1, RiskBudgetAssumption DEF UpdateEquity
    <2>2. /\ spent' \in Nat /\ losses' \in Nat /\ newDay' \in BOOLEAN
          /\ today' \in SUBSET Position
      BY <1>1, ConsumeType DEF UpdateEquity, EnsureDailyUsage
    <2>3. UNCHANGED <<operator, book, excess>> /\ events' \in Nat
      BY <1>1 DEF UpdateEquity
    <2>4. CASE UNCHANGED <<halt, eval>>
      BY <2>1, <2>2, <2>3, <2>4 DEF EvaluationOK, ClearOK, OperatorHaltHolds
    <2>5. CASE Recovered(e, peak') /\ halt' = None /\ Resumed(Request)
      <3>1. EvaluationOK' /\ ClearOK' /\ eval' \in [Request -> Evaluation]
        BY <2>1, <2>5, ResumedFacts DEF EvaluationOK, ClearOK
      <3>2. OperatorHaltHolds'
        BY <2>5 DEF Recovered, OperatorHaltHolds
      <3>3. QED
        BY <2>1, <2>2, <2>3, <2>5, <3>1, <3>2
    <2>6. QED
      BY <1>1, <2>4, <2>5 DEF UpdateEquity
  <1>2. ASSUME NEW e \in Equity, SetPeakEquity(e) PROVE IInv'
    BY <1>2, RiskBudgetAssumption DEF SetPeakEquity, EvaluationOK, ClearOK, OperatorHaltHolds
  <1>3. CASE DateChanges
    <2>1. EvaluationOK' /\ ClearOK' /\ OperatorHaltHolds'
      BY <1>3 DEF DateChanges, EvaluationOK, ClearOK, OperatorHaltHolds
    <2>2. QED
      BY <1>3, <2>1 DEF DateChanges
  <1>4. CASE ResetDailyBudget
    <2>1. EvaluationOK' /\ ClearOK' /\ OperatorHaltHolds'
      BY <1>4 DEF ResetDailyBudget, EvaluationOK, ClearOK, OperatorHaltHolds
    <2>2. /\ spent' = 0 /\ losses' = 0 /\ today' = {} /\ newDay' = FALSE /\ events' \in Nat
          /\ UNCHANGED <<market, halts, book, eval, excess>>
      BY <1>4 DEF ResetDailyBudget
    <2>3. QED
      BY <2>1, <2>2
  <1>5. CASE EquityAges
    <2>1. EvaluationOK' /\ ClearOK' /\ OperatorHaltHolds'
      BY <1>5 DEF EquityAges, EvaluationOK, ClearOK, OperatorHaltHolds
    <2>2. /\ fresh' = FALSE /\ events' \in Nat
          /\ UNCHANGED <<equity, peak, halts, day, book, eval, excess>>
      BY <1>5 DEF EquityAges
    <2>3. QED
      BY <2>1, <2>2
  <1>6. CASE HaltTrading
    BY <1>6, RiskBudgetAssumption
       DEF HaltTrading, Halts, EvaluationOK, ClearOK, OperatorHaltHolds
  <1>7. CASE ResumeTrading
    <2>1. EvaluationOK' /\ ClearOK' /\ eval' \in [Request -> Evaluation]
      BY <1>7, ResumedFacts DEF ResumeTrading, EvaluationOK, ClearOK
    <2>2. OperatorHaltHolds'
      BY <1>7 DEF ResumeTrading, OperatorHaltHolds
    <2>3. halt' = None /\ operator' = FALSE /\ UNCHANGED <<market, day, book, excess>>
      BY <1>7 DEF ResumeTrading
    <2>4. events' \in Nat
      BY <1>7 DEF ResumeTrading
    <2>5. QED
      BY <2>1, <2>2, <2>3, <2>4
  <1>8. QED
    BY <1>1, <1>2, <1>3, <1>4, <1>5, <1>6, <1>7

LEMMA StepIInv == IInv /\ [Next]_vars => IInv'
  <1> SUFFICES ASSUME IInv, [Next]_vars PROVE IInv'
    OBVIOUS
  <1>1. CASE UNCHANGED vars
    BY <1>1 DEF vars, market, halts, day, IInv, TypeOK, EvaluationOK, ClearOK, OperatorHaltHolds
  <1>2. QED
    BY <1>1, EvaluateStep, PositionStep, OutsideStep DEF Next

LEMMA Invariance == Spec => []IInv
  BY InitIInv, StepIInv, PTL DEF Spec

\* Every variable of the manager keeps its type.
THEOREM TypeCorrect == Spec => []TypeOK
  <1>1. IInv => TypeOK
    BY DEF IInv
  <1>2. QED
    BY <1>1, Invariance, PTL

\* A halt that lasts through an evaluation refuses its request.
THEOREM HaltRefusesRequests == Spec => []HaltRefuses
  <1>1. IInv => HaltRefuses
    BY DEF IInv, ClearOK, HaltRefuses
  <1>2. QED
    BY <1>1, Invariance, PTL

\* With manual resumption an operator's halt lasts until an operator ends it.
THEOREM OperatorHaltLasts == Spec => []OperatorHaltHolds
  <1>1. IInv => OperatorHaltHolds
    BY DEF IInv
  <1>2. QED
    BY <1>1, Invariance, PTL

-----------------------------------------------------------------------------------
(* The ledger                                                                      *)

GrantedMap == [r \in Request |-> Granted(r)]

USE DEF Ledger!ledgerVars

\* The book alone decides what the ledger holds.
LEMMA SameBook ==
    ASSUME UNCHANGED book
    PROVE  UNCHANGED <<OpenPositions, Held>>
  BY DEF OpenPositions, Held, RiskOf

\* Only the evaluations of r change: the grants of others do not.
LEMMA GrantOf ==
    ASSUME TypeOK, NEW r \in Request, NEW e, eval' = [eval EXCEPT ![r] = e]
    PROVE  GrantedMap' = [GrantedMap EXCEPT ![r] = IF e.pc = "granted" THEN e.room ELSE 0]
  BY DEF TypeOK, GrantedMap, Granted

\* An evaluation that neither was nor is granted anything is unknown to the ledger.
LEMMA NoGrant ==
    ASSUME TypeOK, NEW r \in Request, NEW e, eval' = [eval EXCEPT ![r] = e],
           ~At(r, "granted"), e.pc # "granted"
    PROVE  UNCHANGED GrantedMap
  BY DEF TypeOK, GrantedMap, Granted

\* The ledger after an answer of no consequence: at most a day began.
LEMMA LedgerQuiet ==
    ASSUME UNCHANGED <<OpenPositions, Held, GrantedMap>>, UNCHANGED spent \/ spent' = 0
    PROVE  [Ledger!LedgerNext]_<<OpenPositions, Held, spent, GrantedMap>>
  BY DEF Ledger!LedgerNext, Ledger!NewDay, Held, GrantedMap

\* A charge in the tracker is a charge in the ledger.
LEMMA ChargeOf ==
    ASSUME TypeOK, NEW x \in Nat, NEW S \in SUBSET Position, Consume(x, S)
    PROVE  Ledger!Charge(x)
  BY ConsumeType DEF Ledger!Charge

LEMMA EnsureCharges ==
    ASSUME TypeOK, EnsureDailyUsage PROVE spent' = spent \/ spent' = 0
  BY DEF EnsureDailyUsage, Consume, TypeOK

LedgerStep == [Ledger!LedgerNext]_<<OpenPositions, Held, spent, GrantedMap>>

\* The stages of an evaluation: the last one may grant, the others are unknown to the ledger.
LEMMA LedgerEvaluates == ASSUME IInv, NEW r \in Request, Evaluate(r) PROVE LedgerStep
  <1> USE DEF LedgerStep
  <1>1. TypeOK
    BY DEF IInv
  <1>2. UNCHANGED book
    BY DEF Evaluate, EvaluateRequest, CheckHalted, CheckStale, CheckDrawdown, HaltOnDrawdown,
           CheckPerTrade, CheckDailyBudget, CheckOpenBudget, CheckPositionCount, CheckSymbol,
           CheckLosses, Check, Fit
  <1>3. ~At(r, "granted")
    BY DEF Evaluate, EvaluateRequest, CheckHalted, CheckStale, CheckDrawdown, HaltOnDrawdown,
           CheckPerTrade, CheckDailyBudget, CheckOpenBudget, CheckPositionCount, CheckSymbol,
           CheckLosses, Check, Fit
  <1>4. UNCHANGED <<OpenPositions, Held>>
    BY <1>2, SameBook
  <1>5. CASE Reject(r)
    <2>1. UNCHANGED GrantedMap
      <3>1. eval' = [eval EXCEPT ![r] = Idle] /\ Idle.pc # "granted"
        BY <1>5 DEF Reject, Idle
      <3>2. QED
        BY <1>1, <1>3, <3>1, NoGrant
    <2>2. UNCHANGED spent \/ spent' = 0
      BY <1>1, <1>5, EnsureCharges DEF Reject
    <2>3. QED
      BY <1>4, <2>1, <2>2, LedgerQuiet
  <1>6. ASSUME NEW e, eval' = [eval EXCEPT ![r] = e], e.pc # "granted",
               UNCHANGED day \/ EnsureDailyUsage
        PROVE  LedgerStep
    <2>1. UNCHANGED GrantedMap
      BY <1>1, <1>3, <1>6, NoGrant
    <2>2. UNCHANGED spent \/ spent' = 0
      BY <1>1, <1>6, EnsureCharges DEF day
    <2>3. QED
      BY <1>4, <2>1, <2>2, LedgerQuiet
  <1>7. ASSUME NEW next \in PC \ {"granted"}, Goto(r, next), UNCHANGED day,
               ~At(r, "idle")
        PROVE  LedgerStep
    <2>1. eval[r] \in Record
      BY <1>1, <1>7 DEF TypeOK, Evaluation, Idle, Record
    <2>2. [eval[r] EXCEPT !.pc = next].pc = next
      BY <2>1 DEF Record
    <2>3. eval' = [eval EXCEPT ![r] = [eval[r] EXCEPT !.pc = next]]
      BY <1>7 DEF Goto
    <2>4. QED
      BY <1>6, <1>7, <2>2, <2>3
  <1>8. ASSUME NEW pc \in PC, NEW ok, NEW next \in PC \ {"granted"}, Check(r, pc, ok, next)
        PROVE  LedgerStep
    BY <1>5, <1>7, <1>8 DEF Check, PC
  <1>9. ASSUME NEW pc \in PC, NEW limit, NEW next \in PC \ {"granted"},
               Fit(r, pc, limit, next), UNCHANGED day \/ EnsureDailyUsage
        PROVE  LedgerStep
    <2>1. PICK x \in 0 .. eval[r].room : eval' = [eval EXCEPT ![r].pc = next, ![r].room = x]
      BY <1>9 DEF Fit
    <2>2. At(r, pc) /\ ~At(r, "idle")
      BY <1>9 DEF Fit, PC
    <2>3. eval[r] \in Record
      BY <1>1, <2>2 DEF TypeOK, Evaluation, Idle, Record
    <2>4. [eval[r] EXCEPT !.pc = next, !.room = x].pc = next
      BY <2>3 DEF Record
    <2>5. eval' = [eval EXCEPT ![r] = [eval[r] EXCEPT !.pc = next, !.room = x]]
      BY <1>1, <2>1, <2>3 DEF Record, TypeOK
    <2>6. QED
      BY <1>6, <1>9, <2>4, <2>5
  <1>10. CASE EvaluateRequest(r)
    <2>1. CASE Reject(r)
      BY <1>5, <2>1
    <2>2. ASSUME NEW s \in Symbol, NEW a \in Amount, UNCHANGED day,
                 eval' = [eval EXCEPT ![r] = [pc |-> "halted", symbol |-> s,
                                              risk |-> RiskPct(a, equity),
                                              room |-> RiskPct(a, equity), equity |-> equity,
                                              clear |-> halt = None]]
          PROVE  LedgerStep
      <3> DEFINE e == [pc |-> "halted", symbol |-> s, risk |-> RiskPct(a, equity),
                       room |-> RiskPct(a, equity), equity |-> equity,
                       clear |-> halt = None]
      <3>1. eval' = [eval EXCEPT ![r] = e] /\ e.pc # "granted"
        BY <2>2
      <3> HIDE DEF e
      <3>2. QED
        BY <1>6, <2>2, <3>1
    <2>3. QED
      BY <1>10, <2>1, <2>2 DEF EvaluateRequest
  <1>11. CASE CheckDrawdown(r)
    <2>1. PICK next \in {"perTrade", "breached"} : Goto(r, next)
      BY <1>11 DEF CheckDrawdown
    <2>2. next \in PC \ {"granted"} /\ UNCHANGED day /\ ~At(r, "idle")
      BY <1>11 DEF CheckDrawdown, PC
    <2>3. QED
      BY <1>7, <2>1, <2>2
  <1>12. CASE HaltOnDrawdown(r)
    BY <1>5, <1>12 DEF HaltOnDrawdown
  <1>13. CASE CheckLosses(r)
    <2>1. CASE Goto(r, "granted") /\ Worth(r) /\ EnsureDailyUsage
      <3>1. At(r, "losses")
        BY <1>13 DEF CheckLosses
      <3>2. eval[r] \in Record
        BY <1>1, <3>1 DEF TypeOK, Evaluation, Idle, Record
      <3>3. [eval[r] EXCEPT !.pc = "granted"].pc = "granted"
            /\ [eval[r] EXCEPT !.pc = "granted"].room = eval[r].room
        BY <3>2 DEF Record
      <3>4. GrantedMap' = [GrantedMap EXCEPT ![r] = eval[r].room]
        BY <1>1, <2>1, <3>3, GrantOf DEF Goto
      <3>5. eval[r].room \in 1 .. PerTrade
        <4>1. /\ eval[r].equity > 0 /\ eval[r].room <= PerTrade
              /\ eval[r].equity > 0 => eval[r].risk > 0
          BY <3>1 DEF IInv, EvaluationOK, Budgeted
        <4>2. eval[r].room > 0 /\ eval[r].room \in Nat
          BY <2>1, <3>2, <4>1 DEF Worth, Record
        <4>3. QED
          BY <4>1, <4>2, RiskBudgetAssumption
      <3>6. GrantedMap[r] = 0 /\ GrantedMap'[r] = eval[r].room
        BY <1>3, <3>4 DEF GrantedMap, Granted
      <3>7. Ledger!Charge(0)
        BY <1>1, <2>1, ChargeOf DEF EnsureDailyUsage
      <3>8. Ledger!Grant(r)
        BY <1>4, <3>4, <3>5, <3>6, <3>7 DEF Ledger!Grant, Held, GrantedMap
      <3>9. QED
        BY <3>8 DEF Ledger!LedgerNext
    <2>2. QED
      BY <1>5, <1>13, <2>1 DEF CheckLosses
  <1>14. QED
    BY <1>8, <1>9, <1>10, <1>11, <1>12, <1>13
       DEF Evaluate, CheckHalted, CheckStale, CheckPerTrade, CheckDailyBudget, CheckOpenBudget,
           CheckPositionCount, CheckSymbol, PC

\* A request uses its grant, or lets it go.
LEMMA LedgerRegisters ==
    ASSUME IInv, NEW r \in Request, RegisterPosition(r) \/ Abandon(r) PROVE LedgerStep
  <1> USE DEF LedgerStep
  <1>1. TypeOK /\ At(r, "granted")
    BY DEF IInv, RegisterPosition, Abandon
  <1>2. eval[r] \in Record
    BY <1>1 DEF TypeOK, Evaluation, Idle, Record
  <1>3. GrantedMap' = [GrantedMap EXCEPT ![r] = 0]
    <2>1. eval' = [eval EXCEPT ![r] = Idle] /\ Idle.pc # "granted"
      BY DEF RegisterPosition, Abandon, Idle
    <2>2. QED
      BY <1>1, <2>1, GrantOf
  <1>4. CASE Abandon(r)
    <2>1. UNCHANGED <<book, spent>>
      BY <1>4 DEF Abandon, day
    <2>2. UNCHANGED <<OpenPositions, Held>>
      BY <2>1, SameBook
    <2>3. Ledger!Lapse(r)
      BY <1>3, <2>1, <2>2 DEF Ledger!Lapse, Held, GrantedMap
    <2>4. QED
      BY <2>3 DEF Ledger!LedgerNext
  <1>5. CASE RegisterPosition(r)
    <2>1. PICK p \in Position \ OpenPositions, a \in Amount :
              /\ book' = [book EXCEPT ![p] = [symbol |-> eval[r].symbol,
                                              risk |-> RiskPct(a, equity)]]
              /\ Consume(RiskPct(a, equity), {p})
      BY <1>5 DEF RegisterPosition
    <2>2. eval[r].equity > 0 /\ eval[r].room > 0
      BY <1>1 DEF IInv, EvaluationOK, Budgeted
    <2>3. equity > 0 /\ equity \in Equity \cup {0}
      BY <1>1, <2>2 DEF IInv, EvaluationOK
    <2>4. RiskPct(a, equity) \in Nat /\ RiskPct(a, equity) > 0
      BY <2>3, RiskPctNat, RiskPctPositive
    <2> DEFINE x == RiskPct(a, equity)
    <2> HIDE DEF x
    <2>5. book' = [book EXCEPT ![p] = [symbol |-> eval[r].symbol, risk |-> x]]
          /\ x \in Nat /\ x > 0 /\ Consume(x, {p})
      BY <2>1, <2>4 DEF x
    <2>6. [symbol |-> eval[r].symbol, risk |-> x] # None
          /\ [symbol |-> eval[r].symbol, risk |-> x].risk = x
      BY <1>2, <2>5, RiskBudgetAssumption DEF Record
    <2>7. \A q \in Position : book'[q] = IF q = p THEN [symbol |-> eval[r].symbol, risk |-> x]
                                                  ELSE book[q]
      BY <1>1, <2>5 DEF TypeOK
    <2>8. OpenPositions' = OpenPositions \cup {p}
      BY <2>1, <2>6, <2>7 DEF OpenPositions
    <2>9. Held' = [Held EXCEPT ![p] = x] /\ Held'[p] = x
      <3>1. RiskOf(p)' = x
        BY <2>6, <2>7 DEF RiskOf
      <3>2. \A q \in Position \ {p} : RiskOf(q)' = RiskOf(q)
        BY <2>7 DEF RiskOf
      <3>3. QED
        BY <3>1, <3>2 DEF Held
    <2>10. Ledger!Charge(x)
      BY <1>1, <2>5, ChargeOf
    <2>11. GrantedMap[r] > 0
      BY <1>1, <2>2 DEF GrantedMap, Granted
    <2>12. Ledger!Take(r, p)
      BY <1>3, <2>1, <2>5, <2>8, <2>9, <2>10, <2>11
         DEF Ledger!Take, Ledger!Holds, Held, GrantedMap
    <2>13. QED
      BY <2>1, <2>12 DEF Ledger!LedgerNext
  <1>6. QED
    BY <1>4, <1>5

\* What an open position holds changes, or the position is closed.
LEMMA LedgerManages ==
    ASSUME IInv, NEW p \in Position, ClosePosition(p) \/ PartialClose(p) \/ UpdateStopLoss(p)
    PROVE  LedgerStep
  <1> USE DEF LedgerStep
  <1>1. TypeOK /\ p \in OpenPositions /\ UNCHANGED eval
    BY DEF IInv, ClosePosition, PartialClose, UpdateStopLoss
  <1>2. book[p] \in [symbol : Symbol, risk : Nat] /\ book[p] # None
    BY <1>1 DEF OpenPositions, TypeOK
  <1>3. UNCHANGED GrantedMap
    BY <1>1 DEF GrantedMap, Granted
  <1>4. CASE ClosePosition(p)
    <2>1. book' = [book EXCEPT ![p] = None] /\ UNCHANGED spent
      BY <1>4 DEF ClosePosition
    <2>2. \A q \in Position : book'[q] = IF q = p THEN None ELSE book[q]
      BY <1>1, <2>1 DEF TypeOK
    <2>3. OpenPositions' = OpenPositions \ {p}
      BY <2>2 DEF OpenPositions
    <2>4. Held' = [Held EXCEPT ![p] = 0]
      BY <2>2 DEF Held, RiskOf
    <2>5. Ledger!Close(p)
      BY <1>1, <1>3, <2>1, <2>3, <2>4 DEF Ledger!Close, Held, GrantedMap
    <2>6. QED
      BY <2>5 DEF Ledger!LedgerNext
  <1>5. ASSUME NEW x \in Nat, book' = [book EXCEPT ![p].risk = x]
        PROVE  /\ UNCHANGED OpenPositions
               /\ Held' = [Held EXCEPT ![p] = x]
               /\ Held'[p] = x /\ Held[p] = book[p].risk
    <2>1. [book[p] EXCEPT !.risk = x] # None /\ [book[p] EXCEPT !.risk = x].risk = x
      BY <1>2, RiskBudgetAssumption
    <2>2. \A q \in Position : book'[q] = IF q = p THEN [book[p] EXCEPT !.risk = x] ELSE book[q]
      BY <1>1, <1>5 DEF TypeOK
    <2>3. UNCHANGED OpenPositions
      BY <1>2, <2>1, <2>2 DEF OpenPositions
    <2>4. QED
      BY <1>2, <2>1, <2>2, <2>3 DEF Held, RiskOf
  <1>6. CASE PartialClose(p)
    <2>1. PICK x \in Left : x < book[p].risk /\ book' = [book EXCEPT ![p].risk = x]
      BY <1>6 DEF PartialClose
    <2>2. x \in Nat /\ UNCHANGED spent
      BY <1>6, RiskBudgetAssumption DEF PartialClose, day
    <2>3. /\ UNCHANGED OpenPositions
          /\ Held' = [Held EXCEPT ![p] = x]
          /\ Held'[p] = x /\ Held[p] = book[p].risk
      BY <1>5, <2>1, <2>2
    <2>4. Held'[p] <= Held[p]
      BY <1>2, <2>1, <2>2, <2>3
    <2>5. Ledger!Release(p)
      BY <1>1, <1>3, <2>2, <2>3, <2>4 DEF Ledger!Release, Ledger!Holds, Held, GrantedMap
    <2>6. QED
      BY <2>5 DEF Ledger!LedgerNext
  <1>7. CASE UpdateStopLoss(p)
    <2>1. PICK a \in Amount \cup {0} :
              /\ book' = [book EXCEPT ![p].risk = RiskPct(a, equity)]
              /\ IF AtLeast0(RiskPct(a, equity) - book[p].risk) > 0
                 THEN Consume(AtLeast0(RiskPct(a, equity) - book[p].risk), {})
                 ELSE UNCHANGED day
      BY <1>7 DEF UpdateStopLoss
    <2> DEFINE x == RiskPct(a, equity)
    <2>2. x \in Nat
      BY RiskPctNat DEF IInv
    <2> HIDE DEF x
    <2>3. /\ book' = [book EXCEPT ![p].risk = x]
          /\ x > book[p].risk => Consume(x - book[p].risk, {})
          /\ ~(x > book[p].risk) => UNCHANGED day
      BY <1>2, <2>1, <2>2 DEF x
    <2>4. CASE x > book[p].risk
      <3>1. Ledger!Charge(x - book[p].risk)
        <4>1. x - book[p].risk \in Nat
          BY <1>2, <2>2, <2>4
        <4>2. QED
          BY <1>1, <2>3, <2>4, <4>1, ChargeOf
      <3>2. Ledger!Raise(p)
        BY <1>1, <1>3, <1>5, <2>2, <2>3, <2>4, <3>1
           DEF Ledger!Raise, Ledger!Holds, Held, GrantedMap
      <3>3. QED
        BY <3>2 DEF Ledger!LedgerNext
    <2>5. CASE ~(x > book[p].risk)
      <3>1. UNCHANGED spent
        BY <2>3, <2>5 DEF day
      <3>2. x <= book[p].risk
        BY <1>2, <2>2, <2>5
      <3>3. Ledger!Release(p)
        BY <1>1, <1>3, <1>5, <2>2, <2>3, <3>1, <3>2
           DEF Ledger!Release, Ledger!Holds, Held, GrantedMap
      <3>4. QED
        BY <3>3 DEF Ledger!LedgerNext
    <2>6. QED
      BY <2>4, <2>5
  <1>8. QED
    BY <1>4, <1>6, <1>7

\* Updates, halts and dates: the ledger sees a new day at most.
LEMMA LedgerOutside ==
    ASSUME IInv,
           \/ \E e \in Equity : UpdateEquity(e) \/ SetPeakEquity(e)
           \/ DateChanges \/ ResetDailyBudget \/ EquityAges \/ HaltTrading \/ ResumeTrading
           \/ UNCHANGED vars
    PROVE  LedgerStep
  <1> USE DEF LedgerStep
  <1>1. TypeOK
    BY DEF IInv
  <1>2. UNCHANGED book
    BY DEF UpdateEquity, SetPeakEquity, DateChanges, ResetDailyBudget, EquityAges, HaltTrading,
           ResumeTrading, vars
  <1>3. UNCHANGED spent \/ spent' = 0
    <2>1. CASE \E e \in Equity : UpdateEquity(e)
      BY <1>1, <2>1, EnsureCharges DEF UpdateEquity
    <2>2. QED
      BY <2>1 DEF SetPeakEquity, DateChanges, ResetDailyBudget, EquityAges, HaltTrading,
                  ResumeTrading, vars, day
  <1>4. UNCHANGED eval \/ Resumed(Request)
    BY DEF UpdateEquity, SetPeakEquity, DateChanges, ResetDailyBudget, EquityAges, HaltTrading,
           ResumeTrading, vars
  <1>5. UNCHANGED GrantedMap
    <2>1. CASE UNCHANGED eval
      BY <2>1 DEF GrantedMap, Granted
    <2>2. CASE Resumed(Request)
      <3>1. \A r \in Request : Granted(r)' = Granted(r)
        BY <1>1, <2>2, ResumedFacts DEF Granted
      <3>2. QED
        BY <3>1 DEF GrantedMap
    <2>3. QED
      BY <1>4, <2>1, <2>2
  <1>6. UNCHANGED <<OpenPositions, Held>>
    BY <1>2, SameBook
  <1>7. QED
    BY <1>3, <1>5, <1>6, LedgerQuiet

\* The manager implements the ledger: every grant is within the per-trade limit, every
\* position is taken on a grant, and every risk held was charged to its day.
THEOREM KeepsLedger == Spec => LedgerSpec
  <1>1. Init => Ledger!LedgerInit
    BY DEF Init, Ledger!LedgerInit, OpenPositions, Held, RiskOf, Granted, Idle
  <1>2. IInv /\ [Next]_vars => LedgerStep
    BY LedgerEvaluates, LedgerRegisters, LedgerManages, LedgerOutside DEF Next
  <1>3. IInv /\ [Next]_vars => [Ledger!LedgerNext]_(Ledger!ledgerVars)
    BY <1>2 DEF LedgerStep, Held, GrantedMap
  <1>4. QED
    BY <1>1, <1>3, Invariance, PTL DEF Spec, LedgerSpec, Ledger!LedgerSpec
-----------------------------------------------------------------------------------
(* What the day covers                                                             *)

\* Positions registered today are open still: a close takes them off the day.
CoverInv ==
    /\ today \subseteq OpenPositions
    /\ TodayCovered

LEMMA HeldNat ==
    ASSUME TypeOK PROVE \A p \in Position : Held[p] \in Nat
  BY DEF TypeOK, Held, RiskOf

LEMMA TodayFinite == ASSUME TypeOK PROVE IsFiniteSet(today)
  BY FS_Subset, RiskBudgetAssumption DEF TypeOK

\* A step that leaves the book alone, and the day's usage too or begins it anew.
DayAlone ==
    /\ UNCHANGED book
    /\ UNCHANGED <<spent, today>> \/ (spent' = 0 /\ today' = {})

LEMMA EnsureDayAlone ==
    ASSUME TypeOK, UNCHANGED book, EnsureDailyUsage \/ UNCHANGED day PROVE DayAlone
  BY DEF TypeOK, EnsureDailyUsage, Consume, DayAlone, day

LEMMA DayAloneCovers == ASSUME TypeOK, CoverInv, DayAlone PROVE CoverInv'
  <1>1. UNCHANGED <<OpenPositions, Held>>
    BY SameBook DEF DayAlone
  <1>2. CASE UNCHANGED <<spent, today>>
    BY <1>1, <1>2 DEF CoverInv, TodayCovered
  <1>3. CASE spent' = 0 /\ today' = {}
    <2>1. SumFunctionOnSet(Held', {}) = 0
      BY SumOfNone
    <2>2. QED
      BY <1>3, <2>1 DEF CoverInv, TodayCovered
  <1>4. QED
    BY <1>2, <1>3 DEF DayAlone

\* An evaluation leaves the book alone, and so does all that comes from outside.
LEMMA EvaluateDayAlone ==
    ASSUME TypeOK, NEW r \in Request, Evaluate(r) PROVE DayAlone
  <1>1. UNCHANGED book
    BY DEF Evaluate, EvaluateRequest, CheckHalted, CheckStale, CheckDrawdown, HaltOnDrawdown,
           CheckPerTrade, CheckDailyBudget, CheckOpenBudget, CheckPositionCount, CheckSymbol,
           CheckLosses, Check, Fit
  <1>2. EnsureDailyUsage \/ UNCHANGED day
    BY DEF Evaluate, EvaluateRequest, CheckHalted, CheckStale, CheckDrawdown, HaltOnDrawdown,
           CheckPerTrade, CheckDailyBudget, CheckOpenBudget, CheckPositionCount, CheckSymbol,
           CheckLosses, Check, Reject
  <1>3. QED
    BY <1>1, <1>2, EnsureDayAlone

Outside ==
    \/ \E e \in Equity : UpdateEquity(e) \/ SetPeakEquity(e)
    \/ DateChanges \/ ResetDailyBudget \/ EquityAges \/ HaltTrading \/ ResumeTrading
    \/ UNCHANGED vars

LEMMA OutsideDayAlone == ASSUME TypeOK, Outside PROVE DayAlone
  <1>1. UNCHANGED book
    BY DEF Outside, UpdateEquity, SetPeakEquity, DateChanges, ResetDailyBudget, EquityAges,
           HaltTrading, ResumeTrading, vars
  <1>2. CASE \E e \in Equity : UpdateEquity(e)
    BY <1>1, <1>2, EnsureDayAlone DEF UpdateEquity
  <1>3. CASE ~ \E e \in Equity : UpdateEquity(e)
    BY <1>1, <1>3 DEF DayAlone, Outside, SetPeakEquity, DateChanges, ResetDailyBudget, EquityAges,
                      HaltTrading, ResumeTrading, vars, day
  <1>4. QED
    BY <1>2, <1>3

\* The book after the risk of one position changed.
LEMMA HeldOfChanged ==
    ASSUME TypeOK, TypeOK', NEW p \in Position, NEW b, book' = [book EXCEPT ![p] = b]
    PROVE  /\ \A q \in Position \ {p} : Held'[q] = Held[q]
           /\ Held'[p] = IF b = None THEN 0 ELSE b.risk
           /\ OpenPositions' = IF b = None THEN OpenPositions \ {p} ELSE OpenPositions \cup {p}
           /\ \A q \in Position : Held[q] \in Nat /\ Held'[q] \in Nat
  <1>1. \A q \in Position : book'[q] = IF q = p THEN b ELSE book[q]
    BY DEF TypeOK
  <1>2. \A q \in Position : Held'[q] = IF book'[q] = None THEN 0 ELSE book'[q].risk
    BY DEF Held, RiskOf
  <1>3. \A q \in Position : Held[q] = IF book[q] = None THEN 0 ELSE book[q].risk
    BY DEF Held, RiskOf
  <1>4. \A q \in Position : Held[q] \in Nat
    BY HeldNat
  <1>5. \A q \in Position : Held'[q] \in Nat
    BY <1>2 DEF TypeOK
  <1>6. OpenPositions' = IF b = None THEN OpenPositions \ {p} ELSE OpenPositions \cup {p}
    BY <1>1 DEF OpenPositions
  <1>7. QED
    BY <1>1, <1>2, <1>3, <1>4, <1>5, <1>6

\* The sum over the positions of the day.
LEMMA TodaySum == ASSUME TypeOK PROVE SumFunctionOnSet(Held, today) \in Int
  <1>1. \A p \in today : Held[p] \in Int
    BY HeldNat DEF TypeOK
  <1>2. QED
    BY <1>1, TodayFinite, SumInt

LEMMA RegisterCovers ==
    ASSUME IInv, TypeOK', CoverInv, NEW r \in Request, RegisterPosition(r) PROVE CoverInv'
  <1>1. PICK p \in Position \ OpenPositions, a \in Amount :
            /\ book' = [book EXCEPT ![p] = [symbol |-> eval[r].symbol,
                                            risk |-> RiskPct(a, equity)]]
            /\ Consume(RiskPct(a, equity), {p})
    BY DEF RegisterPosition
  <1> DEFINE x == RiskPct(a, equity)
             b == [symbol |-> eval[r].symbol, risk |-> x]
  <1>2. x \in Nat
    BY RiskPctNat DEF IInv
  <1>3. b # None /\ b.risk = x
    <2>1. At(r, "granted")
      BY DEF RegisterPosition
    <2>2. eval[r].symbol \in Symbol
      BY <2>1 DEF IInv, TypeOK, Evaluation, Idle
    <2>3. QED
      BY <1>2, <2>2, RiskBudgetAssumption
  <1>4. book' = [book EXCEPT ![p] = b] /\ Consume(x, {p})
    BY <1>1
  <1> HIDE DEF x, b
  <1>5. /\ \A q \in Position \ {p} : Held'[q] = Held[q]
        /\ Held'[p] = x
        /\ OpenPositions' = OpenPositions \cup {p}
    BY <1>3, <1>4, HeldOfChanged DEF IInv
  <1>6. p \notin today
    BY <1>1 DEF CoverInv
  <1>7. today' \subseteq today \cup {p} /\ p \in today'
    BY <1>4 DEF Consume, IInv, TypeOK
  <1>8. \A S \in SUBSET today :
          SumFunctionOnSet(Held', S \cup {p}) = x + SumFunctionOnSet(Held, S)
    <2> SUFFICES ASSUME NEW S \in SUBSET today
                 PROVE  SumFunctionOnSet(Held', S \cup {p}) = x + SumFunctionOnSet(Held, S)
      OBVIOUS
    <2>1. IsFiniteSet(S) /\ IsFiniteSet(S \cup {p})
      BY TodayFinite, FS_Subset, FS_AddElement DEF IInv
    <2>2. \A q \in S \cup {p} : Held'[q] \in Int
      BY <1>2, <1>5, <1>6, HeldNat DEF IInv, TypeOK
    <2>3. (S \cup {p}) \ {p} = S
      BY <1>6
    <2>4. SumFunctionOnSet(Held', S \cup {p}) = x + SumFunctionOnSet(Held', S)
      BY <1>5, <2>1, <2>2, <2>3, SumTakeOut
    <2>5. \A q \in S : Held'[q] = Held[q]
      BY <1>5, <1>6 DEF IInv, TypeOK
    <2>6. SumFunctionOnSet(Held', S) = SumFunctionOnSet(Held, S)
      BY <2>1, <2>5, SumsAgree
    <2>7. QED
      BY <2>4, <2>6
  <1>9. CASE newDay
    <2>1. today' = {p} /\ spent' = x
      BY <1>4, <1>9 DEF Consume
    <2>2. SumFunctionOnSet(Held', {p}) = x + SumFunctionOnSet(Held, {})
      <3>1. {} \in SUBSET today /\ {} \cup {p} = {p}
        OBVIOUS
      <3>2. QED
        BY <1>8, <3>1
    <2>3. SumFunctionOnSet(Held, {}) = 0
      BY SumOfNone
    <2>4. TodayCovered'
      BY <1>2, <2>1, <2>2, <2>3 DEF TodayCovered
    <2>5. QED
      BY <1>5, <2>1, <2>4 DEF CoverInv
  <1>10. CASE ~newDay
    <2>1. today' = today \cup {p} /\ spent' = spent + x
      BY <1>4, <1>10 DEF Consume, IInv, TypeOK
    <2>2. SumFunctionOnSet(Held', today \cup {p}) = x + SumFunctionOnSet(Held, today)
      BY <1>8
    <2>3. SumFunctionOnSet(Held, today) <= spent /\ spent \in Nat
          /\ SumFunctionOnSet(Held, today) \in Int
      BY TodaySum DEF CoverInv, TodayCovered, IInv, TypeOK
    <2>4. TodayCovered'
      BY <1>2, <2>1, <2>2, <2>3 DEF TodayCovered
    <2>5. QED
      BY <1>5, <2>1, <2>4 DEF CoverInv
  <1>11. QED
    BY <1>9, <1>10 DEF IInv, TypeOK

LEMMA CloseCovers ==
    ASSUME TypeOK, TypeOK', CoverInv, NEW p \in Position, ClosePosition(p) PROVE CoverInv'
  <1>1. /\ book' = [book EXCEPT ![p] = None] /\ UNCHANGED spent /\ today' = today \ {p}
    BY DEF ClosePosition
  <1>2. /\ \A q \in Position \ {p} : Held'[q] = Held[q]
        /\ OpenPositions' = OpenPositions \ {p}
    BY <1>1, HeldOfChanged
  <1>3. IsFiniteSet(today \ {p})
    BY TodayFinite, FS_RemoveElement
  <1>4. \A q \in today \ {p} : Held'[q] = Held[q]
    BY <1>2 DEF TypeOK
  <1>5. SumFunctionOnSet(Held', today \ {p}) = SumFunctionOnSet(Held, today \ {p})
    BY <1>3, <1>4, SumsAgree
  <1>6. SumFunctionOnSet(Held, today \ {p}) <= SumFunctionOnSet(Held, today)
    <2>1. CASE p \notin today
      <3>1. today \ {p} = today
        BY <2>1
      <3>2. QED
        BY <3>1, TodaySum
    <2>2. CASE p \in today
      <3>1. \A q \in today : Held[q] \in Int
        BY HeldNat DEF TypeOK
      <3>2. SumFunctionOnSet(Held, today) = Held[p] + SumFunctionOnSet(Held, today \ {p})
        BY <2>2, <3>1, TodayFinite, SumTakeOut
      <3>3. SumFunctionOnSet(Held, today \ {p}) \in Int
        BY <1>3, <3>1, SumInt
      <3>4. Held[p] \in Nat
        BY HeldNat
      <3>5. QED
        BY <3>2, <3>3, <3>4
    <2>3. QED
      BY <2>1, <2>2
  <1>7. SumFunctionOnSet(Held, today) <= spent /\ spent \in Nat
        /\ SumFunctionOnSet(Held, today) \in Int /\ SumFunctionOnSet(Held, today \ {p}) \in Int
    <2>1. \A q \in today \ {p} : Held[q] \in Int
      BY HeldNat DEF TypeOK
    <2>2. QED
      BY <1>3, <2>1, TodaySum, SumInt DEF CoverInv, TodayCovered, TypeOK
  <1>8. TodayCovered'
    BY <1>1, <1>5, <1>6, <1>7 DEF TodayCovered
  <1>9. QED
    BY <1>1, <1>2, <1>8 DEF CoverInv

\* An open position holds something else than before, and the difference is charged when
\* it is more.
LEMMA ChangeCovers ==
    ASSUME TypeOK, TypeOK', CoverInv, NEW p \in OpenPositions, NEW x \in Nat,
           book' = [book EXCEPT ![p].risk = x],
           \/ x <= book[p].risk /\ UNCHANGED day
           \/ x > book[p].risk /\ Consume(x - book[p].risk, {})
    PROVE  CoverInv'
  <1>1. /\ p \in Position /\ book[p] # None /\ book[p] \in [symbol : Symbol, risk : Nat]
        /\ Held[p] = book[p].risk /\ Held[p] \in Nat
    BY HeldNat DEF OpenPositions, TypeOK, Held, RiskOf
  <1> DEFINE b == [book[p] EXCEPT !.risk = x]
  <1>2. b # None /\ b.risk = x
    BY <1>1, RiskBudgetAssumption
  <1>3. book' = [book EXCEPT ![p] = b]
    BY <1>1 DEF TypeOK
  <1> HIDE DEF b
  <1>4. /\ \A q \in Position \ {p} : Held'[q] = Held[q]
        /\ Held'[p] = x
        /\ OpenPositions' = OpenPositions
        /\ \A q \in Position : Held[q] \in Nat /\ Held'[q] \in Nat
    <2>1. /\ \A q \in Position \ {p} : Held'[q] = Held[q]
          /\ Held'[p] = IF b = None THEN 0 ELSE b.risk
          /\ OpenPositions' = IF b = None THEN OpenPositions \ {p} ELSE OpenPositions \cup {p}
          /\ \A q \in Position : Held[q] \in Nat /\ Held'[q] \in Nat
      BY <1>1, <1>3, HeldOfChanged
    <2>2. OpenPositions \cup {p} = OpenPositions
      OBVIOUS
    <2>3. QED
      BY <1>2, <2>1, <2>2
  <1>5. SumFunctionOnSet(Held, today) <= spent /\ spent \in Nat
        /\ SumFunctionOnSet(Held, today) \in Int
    BY TodaySum DEF CoverInv, TodayCovered, TypeOK
  <1>6. CASE spent' = x - Held[p] /\ today' = {} /\ x > Held[p]
    <2>1. SumFunctionOnSet(Held', {}) = 0
      BY SumOfNone
    <2>2. QED
      BY <1>1, <1>6, <2>1 DEF CoverInv, TodayCovered
  <1>7. CASE /\ today' = today /\ spent' \in Int /\ spent' >= spent
             /\ spent' >= spent + (x - Held[p])
    <2>1. CASE p \in today
      <3>1. SumFunctionOnSet(Held', today) = SumFunctionOnSet(Held, today) + x - Held[p]
        <4>1. \A q \in today : Held[q] \in Nat /\ Held'[q] \in Nat
          BY <1>4 DEF TypeOK
        <4>2. \A q \in today \ {p} : Held[q] = Held'[q]
          BY <1>4 DEF TypeOK
        <4>3. SumFunctionOnSet(Held', today)
                = SumFunctionOnSet(Held, today) + Held'[p] - Held[p]
          BY <2>1, <4>1, <4>2, TodayFinite, SumOfChanged
        <4>4. QED
          BY <1>4, <4>3
      <3>2. TodayCovered'
        BY <1>1, <1>5, <1>7, <3>1 DEF TodayCovered
      <3>3. QED
        BY <1>4, <1>7, <3>2 DEF CoverInv
    <2>2. CASE p \notin today
      <3>1. \A q \in today : Held'[q] = Held[q]
        BY <1>4, <2>2 DEF TypeOK
      <3>2. SumFunctionOnSet(Held', today) = SumFunctionOnSet(Held, today)
        BY <3>1, TodayFinite, SumsAgree
      <3>3. TodayCovered'
        BY <1>5, <1>7, <3>2 DEF TodayCovered
      <3>4. QED
        BY <1>4, <1>7, <3>3 DEF CoverInv
    <2>3. QED
      BY <2>1, <2>2
  <1>8. CASE x <= book[p].risk /\ UNCHANGED day
    <2>1. today' = today /\ spent' = spent /\ x <= Held[p]
      BY <1>1, <1>8 DEF day
    <2>2. QED
      BY <1>1, <1>5, <1>7, <2>1
  <1>9. CASE x > book[p].risk /\ Consume(x - book[p].risk, {})
    <2>1. newDay => spent' = x - Held[p] /\ today' = {}
      BY <1>1, <1>9 DEF Consume
    <2>2. ~newDay => spent' = spent + (x - Held[p]) /\ today' = today
      BY <1>1, <1>9 DEF Consume
    <2>3. x > Held[p] /\ x - Held[p] \in Nat
      BY <1>1, <1>9
    <2>4. CASE newDay
      BY <1>6, <2>1, <2>3, <2>4
    <2>5. CASE ~newDay
      BY <1>5, <1>7, <2>2, <2>3, <2>5
    <2>6. QED
      BY <2>4, <2>5
  <1>10. QED
    BY <1>8, <1>9

LEMMA PartialCloseCovers ==
    ASSUME TypeOK, TypeOK', CoverInv, NEW p \in Position, PartialClose(p) PROVE CoverInv'
  <1>1. PICK x \in Left : x < book[p].risk /\ book' = [book EXCEPT ![p].risk = x]
    BY DEF PartialClose
  <1>2. x \in Nat /\ p \in OpenPositions /\ UNCHANGED day
    BY RiskBudgetAssumption DEF PartialClose
  <1>3. book[p].risk \in Nat /\ x <= book[p].risk
    BY <1>1, <1>2 DEF OpenPositions, TypeOK
  <1>4. QED
    BY <1>1, <1>2, <1>3, ChangeCovers

\* A stop that moves: what the position risks now, and what more it is charged.
LEMMA StopFacts ==
    ASSUME IInv, NEW p \in Position, UpdateStopLoss(p)
    PROVE  /\ p \in OpenPositions /\ book[p].risk \in Nat
           /\ \E x \in Nat :
                /\ book' = [book EXCEPT ![p].risk = x]
                /\ \/ x <= book[p].risk /\ UNCHANGED day
                   \/ x > book[p].risk /\ Consume(x - book[p].risk, {})
                /\ excess' = excess + AtLeast0(x - book[p].risk)
  <1>1. p \in OpenPositions
    BY DEF UpdateStopLoss
  <1>2. book[p].risk \in Nat
    BY <1>1 DEF OpenPositions, IInv, TypeOK
  <1>3. PICK a \in Amount \cup {0} :
            /\ book' = [book EXCEPT ![p].risk = RiskPct(a, equity)]
            /\ IF AtLeast0(RiskPct(a, equity) - book[p].risk) > 0
               THEN Consume(AtLeast0(RiskPct(a, equity) - book[p].risk), {})
               ELSE UNCHANGED day
            /\ excess' = excess + AtLeast0(RiskPct(a, equity) - book[p].risk)
    BY DEF UpdateStopLoss
  <1> DEFINE x == RiskPct(a, equity)
  <1>4. x \in Nat
    BY RiskPctNat DEF IInv
  <1> HIDE DEF x
  <1>5. /\ book' = [book EXCEPT ![p].risk = x]
        /\ IF AtLeast0(x - book[p].risk) > 0
           THEN Consume(AtLeast0(x - book[p].risk), {}) ELSE UNCHANGED day
        /\ excess' = excess + AtLeast0(x - book[p].risk)
    BY <1>3 DEF x
  <1>6. CASE x > book[p].risk
    <2>1. AtLeast0(x - book[p].risk) = x - book[p].risk /\ x - book[p].risk > 0
      BY <1>2, <1>4, <1>6
    <2>2. QED
      BY <1>1, <1>2, <1>4, <1>5, <1>6, <2>1
  <1>7. CASE ~(x > book[p].risk)
    <2>1. x <= book[p].risk /\ ~(AtLeast0(x - book[p].risk) > 0)
      BY <1>2, <1>4, <1>7
    <2>2. QED
      BY <1>1, <1>2, <1>4, <1>5, <2>1
  <1>8. QED
    BY <1>6, <1>7

LEMMA StepCovers == IInv /\ IInv' /\ CoverInv /\ [Next]_vars => CoverInv'
  <1> SUFFICES ASSUME IInv, IInv', CoverInv, [Next]_vars PROVE CoverInv'
    OBVIOUS
  <1>1. TypeOK /\ TypeOK'
    BY DEF IInv
  <1>2. ASSUME NEW r \in Request, Evaluate(r) PROVE CoverInv'
    BY <1>1, <1>2, EvaluateDayAlone, DayAloneCovers
  <1>3. ASSUME NEW r \in Request, RegisterPosition(r) PROVE CoverInv'
    BY <1>1, <1>3, RegisterCovers
  <1>4. ASSUME NEW r \in Request, Abandon(r) PROVE CoverInv'
    <2>1. DayAlone
      BY <1>4 DEF Abandon, DayAlone, day
    <2>2. QED
      BY <1>1, <2>1, DayAloneCovers
  <1>5. ASSUME NEW p \in Position, ClosePosition(p) \/ PartialClose(p) PROVE CoverInv'
    BY <1>1, <1>5, CloseCovers, PartialCloseCovers
  <1>6. ASSUME NEW p \in Position, UpdateStopLoss(p) PROVE CoverInv'
    BY <1>1, <1>6, StopFacts, ChangeCovers
  <1>7. CASE Outside
    BY <1>1, <1>7, OutsideDayAlone, DayAloneCovers
  <1>8. QED
    BY <1>2, <1>3, <1>4, <1>5, <1>6, <1>7 DEF Next, Outside

LEMMA InitCovers == Init => CoverInv
  <1> SUFFICES ASSUME Init PROVE CoverInv
    OBVIOUS
  <1>1. today = {} /\ spent = 0
    BY DEF Init
  <1>2. SumFunctionOnSet(Held, {}) = 0
    BY SumOfNone
  <1>3. QED
    BY <1>1, <1>2 DEF CoverInv, TodayCovered

\* The risk the positions of a day hold was charged to that day, for any number of
\* positions and whatever happened to them since (tracker.py:619).
THEOREM DayCoversPositions == Spec => []TodayCovered
  <1>1. CoverInv => TodayCovered
    BY DEF CoverInv
  <1>2. QED
    BY <1>1, Invariance, InitCovers, StepCovers, PTL DEF Spec

-----------------------------------------------------------------------------------
(* What overlapping requests may take together                                     *)

\* what an evaluation in the state e, past the check that S follows, may still take
ClaimOf(S, e) == IF e.pc \in S THEN e.room ELSE 0

Claimed(S) == SumFunctionOnSet(Claims(S), Request)

Checks == {PastOpen, PastDaily}

LEMMA ClaimOfNat == ASSUME NEW S \in Checks, NEW e \in Evaluation PROVE ClaimOf(S, e) \in Nat
  BY DEF Evaluation, Idle, ClaimOf, Checks, PastOpen, PastDaily

LEMMA ClaimsFacts ==
    ASSUME IInv, NEW S \in Checks
    PROVE  \A r \in Request :
             /\ Claims(S)[r] = ClaimOf(S, eval[r])
             /\ Claims(S)[r] \in Nat /\ Claims(S)[r] <= PerTrade
  <1> SUFFICES ASSUME NEW r \in Request
               PROVE  /\ Claims(S)[r] = ClaimOf(S, eval[r])
                      /\ Claims(S)[r] \in Nat /\ Claims(S)[r] <= PerTrade
    OBVIOUS
  <1>1. Claims(S)[r] = ClaimOf(S, eval[r])
    BY DEF Claims, ClaimOf
  <1>2. CASE eval[r].pc \in S
    <2>1. eval[r].room \in Nat
      BY <1>2 DEF IInv, TypeOK, Evaluation, Idle, Checks, PastOpen, PastDaily
    <2>2. eval[r].room <= PerTrade
      BY <1>2 DEF IInv, EvaluationOK, Checks, PastOpen, PastDaily, Budgeted
    <2>3. QED
      BY <1>1, <1>2, <2>1, <2>2 DEF ClaimOf
  <1>3. CASE eval[r].pc \notin S
    BY <1>1, <1>3, RiskBudgetAssumption DEF ClaimOf
  <1>4. QED
    BY <1>2, <1>3

\* The sums and the bounds are numbers.
LEMMA OverlapNumbers ==
    ASSUME IInv
    PROVE  /\ OpenRisk \in Int /\ Claimed(PastOpen) \in Int /\ Claimed(PastDaily) \in Int
           /\ spent \in Nat /\ excess \in Nat /\ Open \in Nat /\ Daily \in Nat
           /\ (Cardinality(Request) - 1) * PerTrade \in Int
  <1>1. \A p \in Position : Held[p] \in Int
    BY HeldNat DEF IInv
  <1>2. \A S \in Checks : \A r \in Request : Claims(S)[r] \in Int
    BY ClaimsFacts
  <1>3. OpenRisk \in Int
    BY <1>1, SumInt, RiskBudgetAssumption DEF OpenRisk
  <1>4. \A S \in Checks : Claimed(S) \in Int
    BY <1>2, SumInt, RiskBudgetAssumption DEF Claimed
  <1>5. Cardinality(Request) - 1 \in Int /\ PerTrade \in Int /\ Open \in Nat /\ Daily \in Nat
    BY FS_CardinalityType, RiskBudgetAssumption
  <1>6. (Cardinality(Request) - 1) * PerTrade \in Int
    BY <1>5
  <1>7. QED
    BY <1>3, <1>4, <1>5, <1>6 DEF IInv, TypeOK, Checks

\* What the others claim is at most one per-trade limit each.
LEMMA OthersClaim ==
    ASSUME IInv, NEW S \in Checks, NEW r \in Request
    PROVE  \E others \in Nat : /\ Claimed(S) = Claims(S)[r] + others
                               /\ others <= (Cardinality(Request) - 1) * PerTrade
  <1> DEFINE others == SumFunctionOnSet(Claims(S), Request \ {r})
  <1>1. \A q \in Request : Claims(S)[q] \in Int
    BY ClaimsFacts
  <1>2. IsFiniteSet(Request \ {r}) /\ Cardinality(Request \ {r}) = Cardinality(Request) - 1
    BY FS_RemoveElement, RiskBudgetAssumption
  <1>3. /\ PerTrade \in Nat
        /\ \A q \in Request \ {r} : Claims(S)[q] \in Nat /\ Claims(S)[q] <= PerTrade
    BY ClaimsFacts, RiskBudgetAssumption
  <1>4. others \in Nat /\ others <= Cardinality(Request \ {r}) * PerTrade
    BY <1>2, <1>3, SumAtMost
  <1>5. Claimed(S) = Claims(S)[r] + others
    BY <1>1, SumTakeOut, RiskBudgetAssumption DEF Claimed
  <1> HIDE DEF others
  <1>6. QED
    BY <1>2, <1>4, <1>5

\* A step changes the claim of r alone.
LEMMA ClaimsOfChanged ==
    ASSUME IInv, IInv', NEW S \in Checks, NEW r \in Request, NEW e, eval' = [eval EXCEPT ![r] = e]
    PROVE  Claimed(S)' = Claimed(S) + ClaimOf(S, e) - Claims(S)[r] /\ ClaimOf(S, e) \in Nat
  <1>1. \A q \in Request : eval'[q] = IF q = r THEN e ELSE eval[q]
    BY DEF IInv, TypeOK
  <1>2. \A q \in Request : Claims(S)'[q] = ClaimOf(S, eval'[q])
    BY DEF Claims, ClaimOf
  <1>3. \A q \in Request : Claims(S)[q] \in Nat /\ Claims(S)[q] = ClaimOf(S, eval[q])
    BY ClaimsFacts
  <1>4. \A q \in Request : Claims(S)'[q] \in Nat
    <2>1. \A q \in Request : eval'[q] \in Evaluation
      BY DEF IInv, TypeOK
    <2>2. QED
      BY <1>2, <2>1, ClaimOfNat
  <1>5. Claims(S)'[r] = ClaimOf(S, e) /\ \A q \in Request \ {r} : Claims(S)'[q] = Claims(S)[q]
    BY <1>1, <1>2, <1>3
  <1>6. Claimed(S)' = Claimed(S) + Claims(S)'[r] - Claims(S)[r]
    <2> DEFINE was == Claims(S)
               is == Claims(S)'
    <2>1. \A q \in Request : was[q] \in Nat /\ is[q] \in Nat
      BY <1>3, <1>4
    <2>2. \A q \in Request \ {r} : was[q] = is[q]
      BY <1>5
    <2> HIDE DEF was, is
    <2>3. SumFunctionOnSet(is, Request) = SumFunctionOnSet(was, Request) + is[r] - was[r]
      BY <2>1, <2>2, SumOfChanged, RiskBudgetAssumption
    <2>4. QED
      BY <2>3 DEF Claimed, was, is
  <1>7. QED
    BY <1>4, <1>5, <1>6

\* The evaluation of r goes on, or ends, and claims no more than it did.
Shrinks(S, r) ==
    \E e : eval' = [eval EXCEPT ![r] = e] /\ ClaimOf(S, e) <= Claims(S)[r]

LEMMA RejectShrinks ==
    ASSUME IInv, NEW S \in Checks, NEW r \in Request, eval' = [eval EXCEPT ![r] = Idle]
    PROVE  Shrinks(S, r)
  <1>1. ClaimOf(S, Idle) = 0
    BY DEF ClaimOf, Checks, PastOpen, PastDaily, Idle
  <1>2. ClaimOf(S, Idle) <= Claims(S)[r]
    BY <1>1, ClaimsFacts
  <1>3. QED
    BY <1>2 DEF Shrinks

\* To go on without a new room adds no claim, but at the check that S follows.
LEMMA GotoShrinks ==
    ASSUME IInv, NEW S \in Checks, NEW r \in Request, NEW next \in PC, Goto(r, next),
           ~At(r, "idle"), next \in S => eval[r].pc \in S
    PROVE  Shrinks(S, r)
  <1> DEFINE e == [eval[r] EXCEPT !.pc = next]
  <1>1. eval[r] \in Record
    BY DEF IInv, TypeOK, Evaluation, Idle, Record
  <1>2. e.pc = next /\ e.room = eval[r].room
    BY <1>1 DEF Record
  <1>3. eval' = [eval EXCEPT ![r] = e]
    BY DEF Goto
  <1> HIDE DEF e
  <1>4. Claims(S)[r] = ClaimOf(S, eval[r]) /\ Claims(S)[r] \in Nat
    BY ClaimsFacts
  <1>5. ClaimOf(S, e) <= Claims(S)[r]
    BY <1>2, <1>4 DEF ClaimOf
  <1>6. QED
    BY <1>3, <1>5 DEF Shrinks

LEMMA CheckShrinks ==
    ASSUME IInv, NEW S \in Checks, NEW r \in Request, NEW pc \in PC, NEW ok,
           NEW next \in PC, Check(r, pc, ok, next), next \in S => pc \in S
    PROVE  Shrinks(S, r)
  <1>1. At(r, pc) /\ ~At(r, "idle")
    BY DEF Check, PC
  <1>2. CASE Reject(r)
    BY <1>2, RejectShrinks DEF Reject
  <1>3. CASE Goto(r, next)
    BY <1>1, <1>3, GotoShrinks
  <1>4. QED
    BY <1>2, <1>3 DEF Check

\* What a check of the risk leaves to the request.
LEMMA FitFacts ==
    ASSUME IInv, NEW r \in Request, NEW pc \in PC, NEW limit, NEW next \in PC,
           Fit(r, pc, limit, next)
    PROVE  \E e, x : /\ eval' = [eval EXCEPT ![r] = e]
                     /\ x \in Nat /\ x <= eval[r].room /\ (x > 0 => x <= limit)
                     /\ e.pc = next /\ e.room = x
  <1>1. PICK x \in 0 .. eval[r].room :
            /\ x > 0 => x <= limit
            /\ eval' = [eval EXCEPT ![r].pc = next, ![r].room = x]
    BY DEF Fit
  <1>2. eval[r] \in Record
    BY DEF Fit, PC, IInv, TypeOK, Evaluation, Idle, Record
  <1> DEFINE e == [eval[r] EXCEPT !.pc = next, !.room = x]
  <1>3. eval' = [eval EXCEPT ![r] = e]
    BY <1>1, <1>2 DEF Record, IInv, TypeOK
  <1>4. e.pc = next /\ e.room = x
    BY <1>2 DEF Record
  <1>5. x \in Nat /\ x <= eval[r].room
    BY <1>2 DEF Record
  <1> HIDE DEF e
  <1>6. QED
    BY <1>1, <1>3, <1>4, <1>5

\* A check of the risk leaves no more room than there was.
LEMMA FitShrinks ==
    ASSUME IInv, NEW S \in Checks, NEW r \in Request, NEW pc \in PC, NEW limit, NEW next \in PC,
           Fit(r, pc, limit, next), next \in S => pc \in S
    PROVE  Shrinks(S, r)
  <1>1. PICK e, x : /\ eval' = [eval EXCEPT ![r] = e]
                    /\ x \in Nat /\ x <= eval[r].room
                    /\ e.pc = next /\ e.room = x
    BY FitFacts
  <1>2. eval[r].pc = pc
    BY DEF Fit, At
  <1>3. Claims(S)[r] = ClaimOf(S, eval[r]) /\ Claims(S)[r] \in Nat
    BY ClaimsFacts
  <1>4. ClaimOf(S, e) <= Claims(S)[r]
    BY <1>1, <1>2, <1>3 DEF ClaimOf
  <1>5. QED
    BY <1>1, <1>4 DEF Shrinks

\* the check that S follows
Takes(S, r) == \/ S = PastOpen /\ CheckOpenBudget(r)
               \/ S = PastDaily /\ CheckDailyBudget(r)

\* No other step of an evaluation adds to what requests past that check may take.
LEMMA EvaluateShrinks ==
    ASSUME IInv, NEW S \in Checks, NEW r \in Request, Evaluate(r), ~Takes(S, r)
    PROVE  Shrinks(S, r)
  <1>1. CASE EvaluateRequest(r)
    <2>1. CASE Reject(r)
      BY <2>1, RejectShrinks DEF Reject
    <2>2. CASE \E s \in Symbol, a \in Amount :
                 eval' = [eval EXCEPT ![r] = [pc |-> "halted", symbol |-> s,
                                              risk |-> RiskPct(a, equity),
                                              room |-> RiskPct(a, equity), equity |-> equity,
                                              clear |-> halt = None]]
      <3>1. PICK s \in Symbol, a \in Amount :
                eval' = [eval EXCEPT ![r] = [pc |-> "halted", symbol |-> s,
                                             risk |-> RiskPct(a, equity),
                                             room |-> RiskPct(a, equity), equity |-> equity,
                                             clear |-> halt = None]]
        BY <2>2
      <3> DEFINE e == [pc |-> "halted", symbol |-> s, risk |-> RiskPct(a, equity),
                       room |-> RiskPct(a, equity), equity |-> equity, clear |-> halt = None]
      <3>2. eval' = [eval EXCEPT ![r] = e] /\ e.pc = "halted"
        BY <3>1
      <3> HIDE DEF e
      <3>3. ClaimOf(S, e) = 0 /\ Claims(S)[r] \in Nat
        BY <3>2, ClaimsFacts DEF ClaimOf, Checks, PastOpen, PastDaily
      <3>4. ClaimOf(S, e) <= Claims(S)[r]
        BY <3>3
      <3>5. QED
        BY <3>2, <3>4 DEF Shrinks
    <2>3. QED
      BY <1>1, <2>1, <2>2 DEF EvaluateRequest
  <1>2. CASE CheckHalted(r)
    BY <1>2, CheckShrinks DEF CheckHalted, PC, Checks, PastOpen, PastDaily
  <1>3. CASE CheckStale(r)
    BY <1>3, CheckShrinks DEF CheckStale, PC, Checks, PastOpen, PastDaily
  <1>4. CASE CheckDrawdown(r)
    <2>1. PICK next \in {"breached", "perTrade"} : Goto(r, next)
      BY <1>4 DEF CheckDrawdown
    <2>2. ~At(r, "idle") /\ next \in PC \ S
      BY <1>4 DEF CheckDrawdown, PC, Checks, PastOpen, PastDaily
    <2>3. QED
      BY <2>1, <2>2, GotoShrinks
  <1>5. CASE HaltOnDrawdown(r)
    BY <1>5, RejectShrinks DEF HaltOnDrawdown, Reject
  <1>6. CASE CheckPerTrade(r)
    BY <1>6, FitShrinks DEF CheckPerTrade, PC, Checks, PastOpen, PastDaily
  <1>7. CASE CheckDailyBudget(r)
    <2>1. S = PastOpen
      BY <1>7 DEF Takes, Checks
    <2>2. "daily" \in PC /\ "open" \in PC /\ "open" \notin S
      BY <2>1 DEF PC, PastOpen
    <2>3. Fit(r, "daily", Daily - spent', "open")
      BY <1>7 DEF CheckDailyBudget
    <2>4. QED
      BY <2>2, <2>3, FitShrinks
  <1>8. CASE CheckOpenBudget(r)
    <2>1. S = PastDaily
      BY <1>8 DEF Takes, Checks
    <2>2. "open" \in PC /\ "count" \in PC /\ "open" \in S
      BY <2>1 DEF PC, PastDaily
    <2>3. Fit(r, "open", Open - OpenRisk, "count")
      BY <1>8 DEF CheckOpenBudget
    <2>4. QED
      BY <2>2, <2>3, FitShrinks
  <1>9. CASE CheckPositionCount(r)
    BY <1>9, CheckShrinks DEF CheckPositionCount, PC, Checks, PastOpen, PastDaily
  <1>10. CASE CheckSymbol(r)
    BY <1>10, CheckShrinks DEF CheckSymbol, PC, Checks, PastOpen, PastDaily
  <1>11. CASE CheckLosses(r)
    <2>1. At(r, "losses")
      BY <1>11 DEF CheckLosses
    <2>2. CASE Reject(r)
      BY <2>2, RejectShrinks DEF Reject
    <2>3. CASE Goto(r, "granted")
      <3>1. "granted" \in PC /\ ~At(r, "idle") /\ eval[r].pc \in S
        BY <2>1 DEF PC, Checks, PastOpen, PastDaily, At
      <3>2. QED
        BY <2>3, <3>1, GotoShrinks
    <2>4. QED
      BY <1>11, <2>2, <2>3 DEF CheckLosses
  <1>12. QED
    BY <1>1, <1>2, <1>3, <1>4, <1>5, <1>6, <1>7, <1>8, <1>9, <1>10, <1>11 DEF Evaluate

LEMMA EvaluateKeeps ==
    ASSUME IInv, NEW r \in Request, Evaluate(r)
    PROVE  /\ OpenRisk' = OpenRisk /\ excess' = excess
           /\ spent' \in Nat /\ spent' <= spent
  <1>1. excess' = excess
    BY DEF Evaluate, EvaluateRequest, CheckHalted, CheckStale, CheckDrawdown, HaltOnDrawdown,
           CheckPerTrade, CheckDailyBudget, CheckOpenBudget, CheckPositionCount, CheckSymbol,
           CheckLosses, Check, Fit
  <1>2. DayAlone
    BY EvaluateDayAlone DEF IInv
  <1>3. QED
    BY <1>1, <1>2, SameBook DEF DayAlone, OpenRisk, IInv, TypeOK

\* What is used of a budget and what is claimed from it change, by no more than the excess.
\* For the open budget, at the position p whose risk changes.
LEMMA OpenChange ==
    ASSUME IInv, IInv', OpenOverlap, NEW p \in Position, NEW b, book' = [book EXCEPT ![p] = b],
           NEW less \in Nat, NEW more \in Nat,
           Claimed(PastOpen)' = Claimed(PastOpen) - less,
           excess' = excess + more,
           Held'[p] <= Held[p] + less + more
    PROVE  OpenOverlap'
  <1>1. /\ \A q \in Position \ {p} : Held'[q] = Held[q]
        /\ \A q \in Position : Held[q] \in Nat /\ Held'[q] \in Nat
    BY HeldOfChanged DEF IInv
  <1>2. OpenRisk' = OpenRisk + Held'[p] - Held[p]
    <2>1. SumFunctionOnSet(Held', Position)
            = SumFunctionOnSet(Held, Position) + Held'[p] - Held[p]
      <3>1. \A q \in Position : Held[q] \in Nat /\ Held'[q] \in Nat
        BY <1>1
      <3>2. \A q \in Position \ {p} : Held[q] = Held'[q]
        BY <1>1
      <3>3. QED
        BY <3>1, <3>2, SumOfChanged, RiskBudgetAssumption
    <2>2. QED
      BY <2>1 DEF OpenRisk
  <1> DEFINE limit == (Cardinality(Request) - 1) * PerTrade
  <1>3. /\ OpenRisk \in Int /\ Claimed(PastOpen) \in Int /\ excess \in Int
        /\ Open \in Int /\ limit \in Int /\ Held[p] \in Int /\ Held'[p] \in Int
    BY <1>1, OverlapNumbers
  <1>4. OpenRisk + Claimed(PastOpen) <= Open + (limit + excess)
    BY DEF OpenOverlap, Overlap, Claimed
  <1> HIDE DEF limit
  <1>5. OpenRisk' + Claimed(PastOpen)' <= Open + (limit + excess')
    BY <1>2, <1>3, <1>4
  <1>6. QED
    BY <1>5 DEF OpenOverlap, Overlap, Claimed, limit

\* For the day's budget, which a new day leaves smaller.
LEMMA DailyChange ==
    ASSUME IInv, IInv', DailyOverlap, NEW less \in Nat, NEW more \in Nat,
           Claimed(PastDaily)' <= Claimed(PastDaily) - less,
           excess' = excess + more, spent' <= spent + less + more
    PROVE  DailyOverlap'
  <1> DEFINE limit == (Cardinality(Request) - 1) * PerTrade
  <1>1. /\ spent \in Int /\ Claimed(PastDaily) \in Int /\ excess \in Int
        /\ Daily \in Int /\ limit \in Int
    BY OverlapNumbers
  <1>2. spent' \in Int /\ Claimed(PastDaily)' \in Int
    <2>1. \A r \in Request : eval'[r] \in Evaluation /\ spent' \in Int
      BY DEF IInv, TypeOK
    <2>2. PastDaily \in Checks
      BY DEF Checks
    <2>3. \A r \in Request : Claims(PastDaily)'[r] = ClaimOf(PastDaily, eval'[r])
      BY DEF Claims, ClaimOf
    <2>4. \A r \in Request : Claims(PastDaily)'[r] \in Int
      BY <2>1, <2>2, <2>3, ClaimOfNat
    <2>5. SumFunctionOnSet(Claims(PastDaily)', Request) \in Int
      BY <2>4, SumInt, RiskBudgetAssumption
    <2>6. spent' \in Int
      BY DEF IInv, TypeOK
    <2>7. QED
      BY <2>5, <2>6 DEF Claimed
  <1>3. spent + Claimed(PastDaily) <= Daily + (limit + excess)
    BY DEF DailyOverlap, Overlap, Claimed
  <1> HIDE DEF limit
  <1>4. spent' + Claimed(PastDaily)' <= Daily + (limit + excess')
    BY <1>1, <1>2, <1>3
  <1>5. QED
    BY <1>4 DEF DailyOverlap, Overlap, Claimed, limit

\* An evaluation that claims no more keeps both bounds.
LEMMA ShrinksOverlaps ==
    ASSUME IInv, IInv', OverlapBound, NEW r \in Request,
           UNCHANGED <<OpenRisk, excess>>, spent' \in Nat, spent' <= spent
    PROVE  /\ Shrinks(PastOpen, r) => OpenOverlap'
           /\ Shrinks(PastDaily, r) => DailyOverlap'
  <1>1. /\ OpenRisk \in Int /\ Claimed(PastOpen) \in Int /\ Claimed(PastDaily) \in Int
        /\ spent \in Nat /\ excess \in Nat /\ Open \in Nat /\ Daily \in Nat
    BY OverlapNumbers
  <1>2. ASSUME NEW S \in Checks, Shrinks(S, r)
        PROVE  Claimed(S)' \in Int /\ Claimed(S)' <= Claimed(S)
    <2>1. PICK e : eval' = [eval EXCEPT ![r] = e] /\ ClaimOf(S, e) <= Claims(S)[r]
      BY <1>2 DEF Shrinks
    <2>2. Claimed(S)' = Claimed(S) + ClaimOf(S, e) - Claims(S)[r] /\ ClaimOf(S, e) \in Nat
      BY <2>1, ClaimsOfChanged
    <2>3. Claimed(S) \in Int /\ Claims(S)[r] \in Nat
      BY <1>1, ClaimsFacts DEF Checks
    <2>4. QED
      BY <2>1, <2>2, <2>3
  <1>3. ASSUME Shrinks(PastOpen, r) PROVE OpenOverlap'
    <2>1. Claimed(PastOpen)' \in Int /\ Claimed(PastOpen)' <= Claimed(PastOpen)
      BY <1>2, <1>3 DEF Checks
    <2> DEFINE limit == (Cardinality(Request) - 1) * PerTrade
    <2>2. limit \in Int
      BY OverlapNumbers
    <2>3. OpenRisk + Claimed(PastOpen) <= Open + (limit + excess)
      BY DEF OverlapBound, OpenOverlap, Overlap, Claimed
    <2> HIDE DEF limit
    <2>4. OpenRisk' + Claimed(PastOpen)' <= Open + (limit + excess')
      BY <1>1, <2>1, <2>2, <2>3
    <2>5. QED
      BY <2>4 DEF OpenOverlap, Overlap, Claimed, limit
  <1>4. ASSUME Shrinks(PastDaily, r) PROVE DailyOverlap'
    <2>1. Claimed(PastDaily)' <= Claimed(PastDaily) - 0
      BY <1>1, <1>2, <1>4 DEF Checks
    <2>2. excess' = excess + 0 /\ spent' <= spent + 0 + 0
      BY <1>1
    <2>3. QED
      BY <2>1, <2>2, DailyChange DEF OverlapBound
  <1>5. QED
    BY <1>3, <1>4

\* The check of a budget: what is used leaves room for the claim, and each of the others
\* claims one per-trade limit at most.
LEMMA TakeFits ==
    ASSUME IInv, IInv', NEW S \in Checks, NEW r \in Request, NEW pc \in PC \ S,
           NEW next \in S, NEW limit \in Int, Fit(r, pc, limit, next)
    PROVE  \/ Shrinks(S, r)
           \/ /\ Claimed(S)' \in Int
              /\ Claimed(S)' <= limit + (Cardinality(Request) - 1) * PerTrade
  <1>1. next \in PC
    BY DEF Checks, PastOpen, PastDaily, PC
  <1>2. PICK e, x : /\ eval' = [eval EXCEPT ![r] = e]
                    /\ x \in Nat /\ (x > 0 => x <= limit)
                    /\ e.pc = next /\ e.room = x
    BY <1>1, FitFacts
  <1>3. ClaimOf(S, e) = x /\ Claims(S)[r] = 0
    <2>1. eval[r].pc = pc
      BY DEF Fit, At
    <2>2. QED
      BY <1>2, <2>1, ClaimsFacts DEF ClaimOf
  <1>4. CASE x = 0
    <2>1. ClaimOf(S, e) <= Claims(S)[r]
      BY <1>3, <1>4
    <2>2. QED
      BY <1>2, <2>1 DEF Shrinks
  <1>5. CASE x > 0
    <2> DEFINE most == (Cardinality(Request) - 1) * PerTrade
    <2>1. PICK others \in Nat : Claimed(S) = Claims(S)[r] + others /\ others <= most
      BY OthersClaim
    <2>2. Claimed(S)' = Claimed(S) + ClaimOf(S, e) - Claims(S)[r]
      BY <1>2, ClaimsOfChanged
    <2>3. most \in Int
      BY OverlapNumbers
    <2> HIDE DEF most
    <2>4. Claimed(S)' = others + x
      BY <1>2, <1>3, <2>1, <2>2
    <2>5. Claimed(S)' \in Int /\ Claimed(S)' <= limit + most
      BY <1>2, <1>5, <2>1, <2>3, <2>4
    <2>6. QED
      BY <2>5 DEF most
  <1>6. QED
    BY <1>2, <1>4, <1>5

LEMMA EvaluateOverlaps ==
    ASSUME IInv, IInv', OverlapBound, NEW r \in Request, Evaluate(r) PROVE OverlapBound'
  <1>1. OpenRisk' = OpenRisk /\ excess' = excess /\ spent' \in Nat /\ spent' <= spent
    BY EvaluateKeeps
  <1>2. PastOpen \in Checks /\ PastDaily \in Checks
    BY DEF Checks
  <1> DEFINE most == (Cardinality(Request) - 1) * PerTrade
  <1>3. /\ most \in Int /\ OpenRisk \in Int /\ excess \in Nat /\ Open \in Nat /\ Daily \in Nat
    BY OverlapNumbers
  <1>4. OpenOverlap'
    <2>1. CASE Shrinks(PastOpen, r)
      BY <1>1, <2>1, ShrinksOverlaps
    <2>2. CASE ~Shrinks(PastOpen, r)
      <3>1. Takes(PastOpen, r)
        BY <1>2, <2>2, EvaluateShrinks
      <3>2. Fit(r, "open", Open - OpenRisk, "count")
        BY <3>1 DEF Takes, CheckOpenBudget, PastOpen, PastDaily
      <3>3. "open" \in PC \ PastOpen /\ "count" \in PastOpen
        BY DEF PC, PastOpen
      <3>4. Open - OpenRisk \in Int
        BY <1>3
      <3>5. /\ Claimed(PastOpen)' \in Int
            /\ Claimed(PastOpen)' <= (Open - OpenRisk) + most
        BY <1>2, <2>2, <3>2, <3>3, <3>4, TakeFits
      <3> HIDE DEF most
      <3>6. OpenRisk' + Claimed(PastOpen)' <= Open + (most + excess')
        BY <1>1, <1>3, <3>5
      <3>7. QED
        BY <3>6 DEF OpenOverlap, Overlap, Claimed, most
    <2>3. QED
      BY <2>1, <2>2
  <1>5. DailyOverlap'
    <2>1. CASE Shrinks(PastDaily, r)
      BY <1>1, <2>1, ShrinksOverlaps
    <2>2. CASE ~Shrinks(PastDaily, r)
      <3>1. Takes(PastDaily, r)
        BY <1>2, <2>2, EvaluateShrinks
      <3>2. Fit(r, "daily", Daily - spent', "open")
        BY <3>1 DEF Takes, CheckDailyBudget, PastOpen, PastDaily
      <3>3. "daily" \in PC \ PastDaily /\ "open" \in PastDaily
        BY DEF PC, PastOpen, PastDaily
      <3>4. Daily - spent' \in Int
        BY <1>1, <1>3
      <3>5. /\ Claimed(PastDaily)' \in Int
            /\ Claimed(PastDaily)' <= (Daily - spent') + most
        BY <1>2, <2>2, <3>2, <3>3, <3>4, TakeFits
      <3> HIDE DEF most
      <3>6. spent' + Claimed(PastDaily)' <= Daily + (most + excess')
        BY <1>1, <1>3, <3>5
      <3>7. QED
        BY <3>6 DEF DailyOverlap, Overlap, Claimed, most
    <2>3. QED
      BY <2>1, <2>2
  <1>6. QED
    BY <1>4, <1>5 DEF OverlapBound

LEMMA RegisterOverlaps ==
    ASSUME IInv, IInv', OverlapBound, NEW r \in Request, RegisterPosition(r) PROVE OverlapBound'
  <1>1. PICK p \in Position \ OpenPositions, a \in Amount :
            /\ book' = [book EXCEPT ![p] = [symbol |-> eval[r].symbol,
                                            risk |-> RiskPct(a, equity)]]
            /\ Consume(RiskPct(a, equity), {p})
            /\ excess' = excess + AtLeast0(RiskPct(a, equity) - eval[r].room)
    BY DEF RegisterPosition
  <1> DEFINE x == RiskPct(a, equity)
             b == [symbol |-> eval[r].symbol, risk |-> x]
             room == eval[r].room
             more == AtLeast0(x - room)
  <1>2. x \in Nat
    BY RiskPctNat DEF IInv
  <1>3. At(r, "granted") /\ eval' = [eval EXCEPT ![r] = Idle]
    BY DEF RegisterPosition
  <1>4. \A S \in Checks : Claims(S)[r] = room /\ room \in Nat /\ ClaimOf(S, Idle) = 0
    <2>1. \A S \in Checks : eval[r].pc \in S /\ Idle.pc \notin S
      BY <1>3 DEF At, Checks, PastOpen, PastDaily, Idle
    <2>2. QED
      BY <2>1, ClaimsFacts DEF ClaimOf
  <1>5. PastOpen \in Checks /\ PastDaily \in Checks
    BY DEF Checks
  <1>6. \A S \in Checks : Claimed(S)' = Claimed(S) - room
    <2> SUFFICES ASSUME NEW S \in Checks PROVE Claimed(S)' = Claimed(S) - room
      OBVIOUS
    <2>1. Claimed(S)' = Claimed(S) + ClaimOf(S, Idle) - Claims(S)[r]
      BY <1>3, ClaimsOfChanged
    <2>2. Claimed(S) \in Int
      BY OverlapNumbers DEF Checks
    <2>3. QED
      BY <1>4, <2>1, <2>2
  <1>7. b.risk = x /\ book' = [book EXCEPT ![p] = b] /\ excess' = excess + more
    BY <1>1
  <1>8. more \in Nat /\ x <= room + more /\ room \in Nat
    BY <1>2, <1>4, <1>5
  <1>9. spent' \in {spent + x, x} /\ spent \in Nat
    <2>1. {p} \in SUBSET Position
      OBVIOUS
    <2>2. QED
      BY <1>1, <1>2, <2>1, ConsumeType DEF IInv, TypeOK
  <1> HIDE DEF x, b, room, more
  <1>10. Held[p] = 0 /\ Held'[p] <= x
    <2>1. Held[p] = 0
      BY <1>1 DEF Held, RiskOf, OpenPositions
    <2>2. Held'[p] = IF b = None THEN 0 ELSE b.risk
      BY <1>7, HeldOfChanged DEF IInv
    <2>3. QED
      BY <1>2, <1>7, <2>1, <2>2
  <1>11. Held'[p] \in Int
    <2>1. \A q \in Position : Held[q] \in Nat /\ Held'[q] \in Nat
      BY <1>7, HeldOfChanged DEF IInv
    <2>2. QED
      BY <2>1
  <1>12. Held'[p] <= Held[p] + room + more
    BY <1>2, <1>8, <1>10, <1>11
  <1>13. OpenOverlap'
    BY <1>5, <1>6, <1>7, <1>8, <1>12, OpenChange DEF OverlapBound
  <1>14. spent' <= spent + room + more
    BY <1>2, <1>8, <1>9
  <1>15. DailyOverlap'
    <2>1. Claimed(PastDaily)' = Claimed(PastDaily) - room
      BY <1>5, <1>6
    <2>2. Claimed(PastDaily) \in Int
      BY OverlapNumbers
    <2>3. Claimed(PastDaily)' <= Claimed(PastDaily) - room
      BY <1>8, <2>1, <2>2
    <2>4. QED
      BY <1>7, <1>8, <1>14, <2>3, DailyChange DEF OverlapBound
  <1>16. QED
    BY <1>13, <1>15 DEF OverlapBound

\* Closes and stops leave the evaluations alone.
LEMMA ManageOverlaps ==
    ASSUME IInv, IInv', OverlapBound, NEW p \in Position, NEW x \in Nat, NEW more \in Nat, NEW b,
           book' = [book EXCEPT ![p] = b], b = None \/ b.risk = x, UNCHANGED eval,
           excess' = excess + more, x <= Held[p] + more, spent' <= spent + more
    PROVE  OverlapBound'
  <1>1. Claimed(PastOpen)' = Claimed(PastOpen) /\ Claimed(PastDaily)' = Claimed(PastDaily)
    BY DEF Claimed, Claims
  <1>2. /\ Claimed(PastOpen)' = Claimed(PastOpen) - 0
        /\ Claimed(PastDaily)' <= Claimed(PastDaily) - 0
        /\ spent \in Nat
    BY <1>1, OverlapNumbers
  <1>3. Held'[p] = (IF b = None THEN 0 ELSE b.risk) /\ Held[p] \in Nat
    BY HeldOfChanged DEF IInv
  <1>4. Held'[p] <= Held[p] + 0 + more /\ spent' <= spent + 0 + more
    BY <1>2, <1>3
  <1>5. OpenOverlap'
    BY <1>2, <1>4, OpenChange DEF OverlapBound
  <1>6. DailyOverlap'
    BY <1>2, <1>4, DailyChange DEF OverlapBound
  <1>7. QED
    BY <1>5, <1>6 DEF OverlapBound

LEMMA PositionOverlaps ==
    ASSUME IInv, IInv', OverlapBound, NEW p \in Position,
           ClosePosition(p) \/ PartialClose(p) \/ UpdateStopLoss(p)
    PROVE  OverlapBound'
  <1>1. p \in OpenPositions /\ UNCHANGED eval
    BY DEF ClosePosition, PartialClose, UpdateStopLoss
  <1>2. /\ Held[p] = book[p].risk /\ Held[p] \in Nat
        /\ book[p] \in [symbol : Symbol, risk : Nat]
    BY <1>1, HeldNat DEF OpenPositions, IInv, TypeOK, Held, RiskOf
  <1>3. excess + 0 = excess /\ spent <= spent + 0
    BY DEF IInv, TypeOK
  <1>4. CASE ClosePosition(p)
    <2>1. /\ book' = [book EXCEPT ![p] = None] /\ excess' = excess + 0
          /\ spent' <= spent + 0
      BY <1>3, <1>4 DEF ClosePosition
    <2>2. 0 <= Held[p] + 0
      BY <1>2
    <2>3. QED
      BY <1>1, <2>1, <2>2, ManageOverlaps
  <1>5. ASSUME NEW x \in Nat, book' = [book EXCEPT ![p].risk = x], NEW more \in Nat,
               excess' = excess + more, x <= Held[p] + more, spent' <= spent + more
        PROVE  OverlapBound'
    <2> DEFINE b == [book[p] EXCEPT !.risk = x]
    <2>1. b.risk = x /\ book' = [book EXCEPT ![p] = b]
      BY <1>2, <1>5
    <2> HIDE DEF b
    <2>2. QED
      BY <1>1, <1>5, <2>1, ManageOverlaps
  <1>6. CASE PartialClose(p)
    <2>1. PICK x \in Left : x < book[p].risk /\ book' = [book EXCEPT ![p].risk = x]
      BY <1>6 DEF PartialClose
    <2>2. x \in Nat /\ excess' = excess + 0 /\ spent' <= spent + 0
      BY <1>3, <1>6, RiskBudgetAssumption DEF PartialClose, day
    <2>3. x <= Held[p] + 0
      BY <1>2, <2>1, <2>2
    <2>4. QED
      BY <1>5, <2>1, <2>2, <2>3
  <1>7. CASE UpdateStopLoss(p)
    <2>1. PICK x \in Nat : /\ book' = [book EXCEPT ![p].risk = x]
                           /\ \/ x <= book[p].risk /\ UNCHANGED day
                              \/ x > book[p].risk /\ Consume(x - book[p].risk, {})
                           /\ excess' = excess + AtLeast0(x - book[p].risk)
      BY <1>7, StopFacts
    <2> DEFINE more == AtLeast0(x - book[p].risk)
    <2>2. more \in Nat /\ x <= Held[p] + more
      BY <1>2
    <2>3. spent' <= spent + more
      <3>1. CASE x <= book[p].risk /\ UNCHANGED day
        BY <2>2, <3>1 DEF day, IInv, TypeOK
      <3>2. CASE x > book[p].risk /\ Consume(x - book[p].risk, {})
        <4>1. more = x - book[p].risk
          BY <1>2, <3>2
        <4>2. {} \in SUBSET Position
          OBVIOUS
        <4>3. spent' \in {spent + more, more}
          BY <2>2, <3>2, <4>1, <4>2, ConsumeType DEF IInv
        <4> HIDE DEF more
        <4>4. QED
          BY <2>2, <4>3 DEF IInv, TypeOK
      <3>3. QED
        BY <2>1, <3>1, <3>2
    <2>4. QED
      BY <1>5, <2>1, <2>2, <2>3
  <1>8. QED
    BY <1>4, <1>6, <1>7

LEMMA OutsideOverlaps ==
    ASSUME IInv, IInv', OverlapBound, Outside PROVE OverlapBound'
  <1>1. UNCHANGED <<book, excess>>
    BY DEF Outside, UpdateEquity, SetPeakEquity, DateChanges, ResetDailyBudget, EquityAges,
           HaltTrading, ResumeTrading, vars
  <1>2. UNCHANGED eval \/ Resumed(Request)
    BY DEF Outside, UpdateEquity, SetPeakEquity, DateChanges, ResetDailyBudget, EquityAges,
           HaltTrading, ResumeTrading, vars
  <1>3. Claims(PastOpen)' = Claims(PastOpen) /\ Claims(PastDaily)' = Claims(PastDaily)
    <2>1. CASE UNCHANGED eval
      BY <2>1 DEF Claims
    <2>2. CASE Resumed(Request)
      <3>1. \A r \in Request : \A S \in Checks : ClaimOf(S, eval'[r]) = ClaimOf(S, eval[r])
        BY <2>2, ResumedFacts DEF ClaimOf, IInv, Checks, PastOpen, PastDaily
      <3>2. QED
        BY <3>1 DEF Claims, ClaimOf, Checks
    <2>3. QED
      BY <1>2, <2>1, <2>2
  <1>4. OpenRisk' = OpenRisk
    BY <1>1, SameBook DEF OpenRisk
  <1>5. OpenOverlap'
    BY <1>1, <1>3, <1>4 DEF OverlapBound, OpenOverlap, Overlap
  <1>6. DailyOverlap'
    <2>1. DayAlone
      BY OutsideDayAlone DEF IInv
    <2>2. spent' <= spent + 0 + 0
      BY <2>1 DEF DayAlone, IInv, TypeOK
    <2>3. Claimed(PastDaily)' <= Claimed(PastDaily) - 0 /\ excess' = excess + 0
      BY <1>1, <1>3, OverlapNumbers DEF Claimed
    <2>4. QED
      BY <2>2, <2>3, DailyChange DEF OverlapBound
  <1>7. QED
    BY <1>5, <1>6 DEF OverlapBound

LEMMA StepOverlaps == IInv /\ IInv' /\ OverlapBound /\ [Next]_vars => OverlapBound'
  <1> SUFFICES ASSUME IInv, IInv', OverlapBound, [Next]_vars PROVE OverlapBound'
    OBVIOUS
  <1>1. ASSUME NEW r \in Request, Abandon(r) PROVE OverlapBound'
    <2>1. Shrinks(PastOpen, r) /\ Shrinks(PastDaily, r)
      BY <1>1, RejectShrinks DEF Abandon, Checks
    <2>2. OpenRisk' = OpenRisk /\ excess' = excess /\ spent' \in Nat /\ spent' <= spent
      BY <1>1, SameBook DEF Abandon, OpenRisk, day, IInv, TypeOK
    <2>3. QED
      BY <2>1, <2>2, ShrinksOverlaps DEF OverlapBound
  <1>2. QED
    BY <1>1, EvaluateOverlaps, RegisterOverlaps, PositionOverlaps, OutsideOverlaps
       DEF Next, Outside

LEMMA InitOverlaps == Init => OverlapBound
  <1> SUFFICES ASSUME Init PROVE OverlapBound
    OBVIOUS
  <1>1. IInv
    BY InitIInv
  <1>2. \A p \in Position : Held[p] \in Nat /\ Held[p] <= 0
    BY DEF Init, Held, RiskOf
  <1>3. \A S \in Checks : \A r \in Request : Claims(S)[r] \in Nat /\ Claims(S)[r] <= 0
    BY DEF Init, Claims, Idle, Checks, PastOpen, PastDaily
  <1>4. Cardinality(Position) \in Nat /\ Cardinality(Request) \in Nat /\ Cardinality(Request) # 0
    BY FS_CardinalityType, FS_EmptySet, RiskBudgetAssumption
  <1>5. OpenRisk \in Nat /\ OpenRisk <= Cardinality(Position) * 0
    BY <1>2, SumAtMost, RiskBudgetAssumption DEF OpenRisk
  <1>6. \A S \in Checks : Claimed(S) = 0
    <2> SUFFICES ASSUME NEW S \in Checks PROVE Claimed(S) = 0
      OBVIOUS
    <2>1. Claimed(S) \in Nat /\ Claimed(S) <= Cardinality(Request) * 0
      BY <1>3, SumAtMost, RiskBudgetAssumption DEF Claimed
    <2>2. QED
      BY <1>4, <2>1
  <1>7. OpenRisk = 0 /\ Claimed(PastOpen) = 0 /\ Claimed(PastDaily) = 0
    BY <1>4, <1>5, <1>6 DEF Checks
  <1>8. Cardinality(Request) - 1 \in Nat /\ {PerTrade, Open, Daily} \subseteq Nat
    BY <1>4, RiskBudgetAssumption
  <1>9. (Cardinality(Request) - 1) * PerTrade \in Nat
    BY <1>8, ProductNat
  <1>10. QED
    BY <1>7, <1>8, <1>9 DEF Init, OverlapBound, OpenOverlap, DailyOverlap, Overlap, Claimed

\* However many requests overlap, what is held and claimed stays below the open limit, and
\* what is charged and claimed below the daily one, and one per-trade limit for each request
\* but one, but for what moved after a grant (engine.py:321, tracker.py:186).
THEOREM OverlapsAreBounded == Spec => []OverlapBound
  BY Invariance, InitOverlaps, StepOverlaps, PTL DEF Spec

\* What one request at a time adds up to: the limit the documentation promises
\* (config.py:129), when neither the equity nor a stop moved after a grant.
THEOREM OneAtATimeWithinLimit ==
    ASSUME Cardinality(Request) = 1
    PROVE  Spec => []OpenRiskWithinLimit
  <1>1. IInv /\ OverlapBound => OpenRiskWithinLimit
    <2> SUFFICES ASSUME IInv, OverlapBound PROVE OpenRiskWithinLimit
      OBVIOUS
    <2>1. OpenRisk + Claimed(PastOpen) <= Open + ((Cardinality(Request) - 1) * PerTrade + excess)
      BY DEF OverlapBound, OpenOverlap, Overlap, Claimed
    <2>2. (Cardinality(Request) - 1) * PerTrade = 0
      BY RiskBudgetAssumption
    <2>3. Claimed(PastOpen) \in Nat
      <3>1. PICK r \in Request : TRUE
        BY RiskBudgetAssumption
      <3>2. PastOpen \in Checks
        BY DEF Checks
      <3>3. PICK others \in Nat : Claimed(PastOpen) = Claims(PastOpen)[r] + others
        BY <3>1, <3>2, OthersClaim
      <3>4. QED
        BY <3>2, <3>3, ClaimsFacts
    <2>4. OpenRisk \in Int /\ excess \in Nat /\ Open \in Nat
      BY OverlapNumbers
    <2>5. QED
      BY <2>1, <2>2, <2>3, <2>4 DEF OpenRiskWithinLimit
  <1>2. QED
    BY <1>1, Invariance, OverlapsAreBounded, PTL
=================================================================================
