--------------------------- MODULE OperatorProofs ---------------------------
(***************************************************************************)
(* What the operators the models are built from compute: induction over    *)
(* numbers, concatenations and sums, which the proofs about the components *)
(* cite; and the loop of LIKE, which ends for every text and every pattern *)
(* and computes what LIKE means.                                           *)
(*                                                                         *)
(* LIKE means that the text can be cut along the pattern (Cut).  A state   *)
(* of the loop wins when the rest of the text can be cut along the rest of *)
(* the pattern, or when it can once the last % has more text (Wins).  Each *)
(* round keeps that, and at the end of the text it says that only % are    *)
(* left.                                                                   *)
(***************************************************************************)
EXTENDS Like, TLAPS, FiniteSetTheorems, WellFoundedInduction

(* Induction *)

\* Among numbers one is the least.
LEMMA LeastExists ==
  ASSUME NEW S \in SUBSET Nat, S # {} PROVE \E k \in S : \A j \in S : k <= j
<1>1. PICK x \in S : \A y \in S : ~ (<<y, x>> \in OpToRel(<,Nat))
  BY NatLessThanWellFounded, WFMin
<1>2. \A y \in S : ~(y < x)
  BY <1>1 DEF OpToRel
<1> QED
  BY <1>2

\* A set that contains 0, and with each number the next one, contains all of them.
LEMMA NatInduct ==
  ASSUME NEW S, 0 \in S, \A n \in Nat : n \in S => n + 1 \in S PROVE Nat \subseteq S
<1> SUFFICES ASSUME ~(Nat \subseteq S) PROVE FALSE
  OBVIOUS
<1> DEFINE T == Nat \ S
<1>1. T \subseteq Nat /\ T # {}
  OBVIOUS
<1>2. PICK x \in T : \A y \in T : x <= y
  <2> HIDE DEF T
  <2> QED
    BY <1>1, LeastExists
<1>3. x # 0 /\ x - 1 \in Nat
  OBVIOUS
<1>4. x - 1 \in S
  BY <1>2, <1>3
<1> QED
  BY <1>3, <1>4


\* There is a function that concatenates the values of h one by one.
LEMMA ConcatExists ==
  ASSUME NEW h
  PROVE  \E f : f = [p \in Nat |-> IF p = 0 THEN <<>> ELSE f[p - 1] \o h[p]]
<1> DEFINE Approx(g, n) == g = [p \in 0 .. n |-> IF p = 0 THEN <<>> ELSE g[p - 1] \o h[p]]
           S == {n \in Nat : \E g : Approx(g, n)}
           best(n) == CHOOSE g : Approx(g, n)
<1>0. ASSUME NEW g, NEW n \in Nat, Approx(g, n)
      PROVE  \A p \in 0 .. n : g[p] = IF p = 0 THEN <<>> ELSE g[p - 1] \o h[p]
  BY <1>0
\* There is an approximation for every n.
<1>1. 0 \in S
  <2> DEFINE g == [p \in 0 .. 0 |-> <<>>]
  <2>1. Approx(g, 0)
    BY \A p \in 0 .. 0 : p = 0
  <2> QED
    BY <2>1
<1>2. ASSUME NEW n \in Nat, n \in S PROVE n + 1 \in S
  <2>1. PICK g : Approx(g, n)
    BY <1>2
  <2> DEFINE k == [p \in 0 .. n + 1 |-> IF p = n + 1 THEN g[n] \o h[p] ELSE g[p]]
  <2>2. \A p \in 0 .. n : g[p] = IF p = 0 THEN <<>> ELSE g[p - 1] \o h[p]
    BY <1>0, <2>1
  <2>3. \A p \in 0 .. n + 1 : k[p] = IF p = 0 THEN <<>> ELSE k[p - 1] \o h[p]
    BY <2>2
  <2>4. Approx(k, n + 1)
    BY <2>3
  <2> HIDE DEF Approx
  <2> QED
    BY <2>4
<1>3. \A n \in Nat : \E g : Approx(g, n)
  <2> HIDE DEF Approx
  <2>1. Nat \subseteq S
    BY <1>1, <1>2, NatInduct
  <2> QED
    BY <2>1
<1>4. \A n \in Nat : Approx(best(n), n)
  <2> HIDE DEF Approx
  <2> QED
    BY <1>3
\* Two approximations agree where both are defined.
<1>5. ASSUME NEW n \in Nat, NEW m \in Nat, n <= m, NEW g, Approx(g, n), NEW k, Approx(k, m)
      PROVE  \A p \in 0 .. n : g[p] = k[p]
  <2> DEFINE R == {p \in Nat : p <= n => g[p] = k[p]}
  <2>1. \A p \in 0 .. n : /\ g[p] = IF p = 0 THEN <<>> ELSE g[p - 1] \o h[p]
                          /\ k[p] = IF p = 0 THEN <<>> ELSE k[p - 1] \o h[p]
    <3> HIDE DEF Approx
    <3>1. \A p \in 0 .. n : g[p] = IF p = 0 THEN <<>> ELSE g[p - 1] \o h[p]
      BY <1>0, <1>5
    <3>2. \A p \in 0 .. m : k[p] = IF p = 0 THEN <<>> ELSE k[p - 1] \o h[p]
      BY <1>0, <1>5
    <3>3. \A p \in 0 .. n : p \in 0 .. m
      BY <1>5
    <3> QED
      BY <3>1, <3>2, <3>3
  <2>2. 0 \in R
    BY <2>1
  <2>3. ASSUME NEW p \in Nat, p \in R PROVE p + 1 \in R
    BY <2>1, <2>3
  <2>4. Nat \subseteq R
    <3> HIDE DEF R
    <3> QED
      BY <2>2, <2>3, NatInduct
  <2> QED
    BY <2>4
<1> DEFINE f == [p \in Nat |-> best(p)[p]]
<1>6. ASSUME NEW p \in Nat PROVE f[p] = IF p = 0 THEN <<>> ELSE f[p - 1] \o h[p]
  <2> HIDE DEF best
  <2>1. best(p)[p] = IF p = 0 THEN <<>> ELSE best(p)[p - 1] \o h[p]
    <3> HIDE DEF Approx
    <3> QED
      BY <1>0, <1>4
  <2>2. p # 0 => best(p)[p - 1] = best(p - 1)[p - 1]
    <3> HIDE DEF Approx
    <3> SUFFICES ASSUME p # 0 PROVE best(p)[p - 1] = best(p - 1)[p - 1]
      OBVIOUS
    <3>1. p - 1 \in Nat /\ p - 1 <= p /\ p - 1 \in 0 .. p - 1
      OBVIOUS
    <3> QED
      BY <1>4, <1>5, <3>1
  <2> QED
    BY <2>1, <2>2
<1>7. f = [p \in Nat |-> IF p = 0 THEN <<>> ELSE f[p - 1] \o h[p]]
  <2> HIDE DEF best
  <2> QED
    BY <1>6
<1> QED
  BY <1>7

\* There is a function that is defined step by step from its first value.
StepsOf(f, base, step) ==
  f = [p \in Nat |-> IF p = 0 THEN base ELSE step[p][f[p - 1]]]

LEMMA StepsExist == ASSUME NEW base, NEW step PROVE \E f : StepsOf(f, base, step)
<1> DEFINE Approx(g, n) == g = [p \in 0 .. n |-> IF p = 0 THEN base ELSE step[p][g[p - 1]]]
           S == {n \in Nat : \E g : Approx(g, n)}
           best(n) == CHOOSE g : Approx(g, n)
<1>0. ASSUME NEW g, NEW n \in Nat, Approx(g, n)
      PROVE  \A p \in 0 .. n : g[p] = IF p = 0 THEN base ELSE step[p][g[p - 1]]
  BY <1>0
\* There is an approximation for every n.
<1>1. 0 \in S
  <2> DEFINE g == [p \in 0 .. 0 |-> base]
  <2>1. Approx(g, 0)
    BY \A p \in 0 .. 0 : p = 0
  <2> QED
    BY <2>1
<1>2. ASSUME NEW n \in Nat, n \in S PROVE n + 1 \in S
  <2>1. PICK g : Approx(g, n)
    BY <1>2
  <2> DEFINE k == [p \in 0 .. n + 1 |-> IF p = n + 1 THEN step[p][g[n]] ELSE g[p]]
  <2>2. \A p \in 0 .. n : g[p] = IF p = 0 THEN base ELSE step[p][g[p - 1]]
    BY <1>0, <2>1
  <2>3. \A p \in 0 .. n + 1 : k[p] = IF p = 0 THEN base ELSE step[p][k[p - 1]]
    BY <2>2
  <2>4. Approx(k, n + 1)
    BY <2>3
  <2> HIDE DEF Approx
  <2> QED
    BY <2>4
<1>3. \A n \in Nat : \E g : Approx(g, n)
  <2> HIDE DEF Approx
  <2>1. Nat \subseteq S
    BY <1>1, <1>2, NatInduct
  <2> QED
    BY <2>1
<1>4. \A n \in Nat : Approx(best(n), n)
  <2> HIDE DEF Approx
  <2> QED
    BY <1>3
\* Two approximations agree where both are defined.
<1>5. ASSUME NEW n \in Nat, NEW m \in Nat, n <= m, NEW g, Approx(g, n), NEW k, Approx(k, m)
      PROVE  \A p \in 0 .. n : g[p] = k[p]
  <2> DEFINE R == {p \in Nat : p <= n => g[p] = k[p]}
  <2>1. \A p \in 0 .. n : /\ g[p] = IF p = 0 THEN base ELSE step[p][g[p - 1]]
                          /\ k[p] = IF p = 0 THEN base ELSE step[p][k[p - 1]]
    <3> HIDE DEF Approx
    <3>1. \A p \in 0 .. n : g[p] = IF p = 0 THEN base ELSE step[p][g[p - 1]]
      BY <1>0, <1>5
    <3>2. \A p \in 0 .. m : k[p] = IF p = 0 THEN base ELSE step[p][k[p - 1]]
      BY <1>0, <1>5
    <3>3. \A p \in 0 .. n : p \in 0 .. m
      BY <1>5
    <3> QED
      BY <3>1, <3>2, <3>3
  <2>2. 0 \in R
    BY <2>1
  <2>3. ASSUME NEW p \in Nat, p \in R PROVE p + 1 \in R
    BY <2>1, <2>3
  <2>4. Nat \subseteq R
    <3> HIDE DEF R
    <3> QED
      BY <2>2, <2>3, NatInduct
  <2> QED
    BY <2>4
<1> DEFINE f == [p \in Nat |-> best(p)[p]]
<1>6. ASSUME NEW p \in Nat PROVE f[p] = IF p = 0 THEN base ELSE step[p][f[p - 1]]
  <2> HIDE DEF best
  <2>1. best(p)[p] = IF p = 0 THEN base ELSE step[p][best(p)[p - 1]]
    <3> HIDE DEF Approx
    <3> QED
      BY <1>0, <1>4
  <2>2. p # 0 => best(p)[p - 1] = best(p - 1)[p - 1]
    <3> HIDE DEF Approx
    <3> SUFFICES ASSUME p # 0 PROVE best(p)[p - 1] = best(p - 1)[p - 1]
      OBVIOUS
    <3>1. p - 1 \in Nat /\ p - 1 <= p /\ p - 1 \in 0 .. p - 1
      OBVIOUS
    <3> QED
      BY <1>4, <1>5, <3>1
  <2> QED
    BY <2>1, <2>2
<1>7. f = [p \in Nat |-> IF p = 0 THEN base ELSE step[p][f[p - 1]]]
  <2> HIDE DEF best
  <2> QED
    BY <1>6
<1> QED
  BY <1>7 DEF StepsOf

-----------------------------------------------------------------------------
(* Sums *)

\* The elements of a set are taken one by one, as MapThenSumSet takes them.
Chosen(s) == CHOOSE x \in s : TRUE
IsSum(it, f, S) ==
  it = [s \in SUBSET S |-> IF s = {} THEN 0 ELSE f[Chosen(s)] + it[s \ {Chosen(s)}]]

LEMMA ChosenIn == \A s : s # {} => Chosen(s) \in s
  BY DEF Chosen

\* Subsets of a finite set, and what is left of them without an element.
LEMMA SmallerSets ==
  ASSUME NEW S, IsFiniteSet(S), NEW s \in SUBSET S
  PROVE  /\ IsFiniteSet(s) /\ Cardinality(s) \in Nat /\ Cardinality(s) <= Cardinality(S)
         /\ Cardinality(s) = 0 <=> s = {}
         /\ \A x \in s : Cardinality(s \ {x}) = Cardinality(s) - 1
<1>1. IsFiniteSet(s) /\ Cardinality(s) <= Cardinality(S)
  BY FS_Subset
<1> QED
  BY <1>1, FS_CardinalityType, FS_EmptySet, FS_RemoveElement

\* A finite sum has a value.
LEMMA SumExists ==
  ASSUME NEW S, IsFiniteSet(S), NEW f PROVE \E it : IsSum(it, f, S)
<1> DEFINE D(n) == {s \in SUBSET S : Cardinality(s) <= n}
           Step(it, s) == IF s = {} THEN 0 ELSE f[Chosen(s)] + it[s \ {Chosen(s)}]
           Approx(it, n) == it = [s \in D(n) |-> Step(it, s)]
           N == {n \in Nat : \E it : Approx(it, n)}
<1>1. 0 \in N
  <2> DEFINE it == [s \in D(0) |-> 0]
  <2>1. \A s \in D(0) : s = {}
    BY SmallerSets
  <2>2. Approx(it, 0)
    BY <2>1
  <2> QED
    BY <2>2
<1>2. ASSUME NEW n \in Nat, n \in N PROVE n + 1 \in N
  <2>1. PICK it : Approx(it, n)
    BY <1>2
  <2> DEFINE jt == [s \in D(n + 1) |-> Step(it, s)]
  <2>2. ASSUME NEW s \in D(n + 1), s # {} PROVE it[s \ {Chosen(s)}] = jt[s \ {Chosen(s)}]
    <3> DEFINE t == s \ {Chosen(s)}
    <3>1. Chosen(s) \in s /\ Cardinality(t) = Cardinality(s) - 1 /\ Cardinality(s) \in Nat
      BY <2>2, ChosenIn, SmallerSets
    <3>2. t \in D(n) /\ t \in D(n + 1)
      BY <3>1, SmallerSets
    <3> QED
      BY <2>1, <3>2
  <2>3. jt = [s \in D(n + 1) |-> Step(jt, s)]
    <3>1. \A s \in D(n + 1) : Step(it, s) = Step(jt, s)
      BY <2>2
    <3> QED
      BY <3>1
  <2>4. Approx(jt, n + 1)
    BY <2>3
  <2> HIDE DEF jt, Approx
  <2> QED
    BY <2>4
<1>3. Nat \subseteq N
  <2> HIDE DEF N
  <2> QED
    BY <1>1, <1>2, NatInduct
<1>4. Cardinality(S) \in Nat
  BY FS_CardinalityType
<1>5. PICK it : Approx(it, Cardinality(S))
  BY <1>3, <1>4
<1>6. D(Cardinality(S)) = SUBSET S
  BY SmallerSets
<1> QED
  BY <1>5, <1>6 DEF IsSum

\* A sum of numbers is one, and that of none is 0.
LEMMA SumType ==
  ASSUME NEW S, IsFiniteSet(S), NEW f, \A x \in S : f[x] \in Nat, NEW it, IsSum(it, f, S)
  PROVE  it[{}] = 0 /\ \A s \in SUBSET S : it[s] \in Nat
<1>0. \A s \in SUBSET S : it[s] = IF s = {} THEN 0 ELSE f[Chosen(s)] + it[s \ {Chosen(s)}]
  BY DEF IsSum
<1> DEFINE T == {n \in Nat : \A s \in SUBSET S : Cardinality(s) = n => it[s] \in Nat}
<1>1. 0 \in T
  <2>1. \A s \in SUBSET S : Cardinality(s) = 0 => s = {}
    BY SmallerSets
  <2>2. it[{}] = 0
    BY <1>0
  <2> QED
    BY <2>1, <2>2
<1>2. ASSUME NEW n \in Nat, n \in T PROVE n + 1 \in T
  <2> SUFFICES ASSUME NEW s \in SUBSET S, Cardinality(s) = n + 1 PROVE it[s] \in Nat
    OBVIOUS
  <2>1. s # {} /\ Chosen(s) \in s /\ f[Chosen(s)] \in Nat
    BY SmallerSets, ChosenIn
  <2>2. s \ {Chosen(s)} \in SUBSET S /\ Cardinality(s \ {Chosen(s)}) = n
    BY <2>1, SmallerSets
  <2>3. it[s \ {Chosen(s)}] \in Nat
    BY <1>2, <2>2
  <2> QED
    BY <1>0, <2>1, <2>3
<1>3. Nat \subseteq T
  <2> HIDE DEF T
  <2> QED
    BY <1>1, <1>2, NatInduct
<1>4. it[{}] = 0
  BY <1>0
<1> QED
  BY <1>3, <1>4, SmallerSets

\* Any element may be taken first.
LEMMA SumRemove ==
  ASSUME NEW S, IsFiniteSet(S), NEW f, \A x \in S : f[x] \in Nat, NEW it, IsSum(it, f, S),
         NEW set \in SUBSET S, NEW elem \in set
  PROVE  it[set] = f[elem] + it[set \ {elem}]
<1> DEFINE N == {n \in Nat : \A s \in SUBSET S : Cardinality(s) = n =>
                    it[s] \in Nat /\ \A p \in s : it[s] = f[p] + it[s \ {p}]}
<1>5. \A s \in SUBSET S : it[s] \in Nat
  BY SumType
<1>0. \A s \in SUBSET S : it[s] = IF s = {} THEN 0 ELSE f[Chosen(s)] + it[s \ {Chosen(s)}]
  BY DEF IsSum
<1>1. 0 \in N
  <2>1. \A s \in SUBSET S : Cardinality(s) = 0 => s = {}
    BY SmallerSets
  <2> QED
    BY <1>5, <2>1
<1>2. ASSUME NEW n \in Nat, n \in N PROVE n + 1 \in N
  <2> SUFFICES ASSUME NEW s \in SUBSET S, Cardinality(s) = n + 1
               PROVE  it[s] \in Nat /\ \A p \in s : it[s] = f[p] + it[s \ {p}]
    OBVIOUS
  <2> DEFINE x == Chosen(s)
  <2>1. s # {} /\ x \in s /\ f[x] \in Nat
    BY SmallerSets, ChosenIn
  <2>2. \A p \in s : s \ {p} \in SUBSET S /\ Cardinality(s \ {p}) = n
    BY SmallerSets
  <2>3. \A p \in s : it[s \ {p}] \in Nat /\ \A q \in s \ {p} : it[s \ {p}] = f[q] + it[(s \ {p}) \ {q}]
    BY <1>2, <2>2
  <2> HIDE DEF x
  <2>4. it[s] = f[x] + it[s \ {x}]
    BY <1>0, <2>1 DEF x
  <2>5. it[s] \in Nat
    BY <2>1, <2>3, <2>4
  <2>6. ASSUME NEW p \in s PROVE it[s] = f[p] + it[s \ {p}]
    <3>1. CASE p = x
      BY <2>4, <3>1
    <3>2. CASE p # x
      <4>1. it[s \ {x}] = f[p] + it[(s \ {x}) \ {p}]
        BY <2>1, <2>3, <3>2
      <4>2. it[s \ {p}] = f[x] + it[(s \ {p}) \ {x}]
        BY <2>1, <2>3, <3>2
      <4>3. (s \ {x}) \ {p} = (s \ {p}) \ {x}
        OBVIOUS
      <4>4. it[(s \ {x}) \ {p}] \in Int /\ f[p] \in Nat
        BY <1>5, <2>1
      <4>5. PICK b \in Int, c \in Int, r \in Int :
              b = f[x] /\ c = f[p] /\ r = it[(s \ {x}) \ {p}]
        BY <2>1, <4>4
      <4>6. it[s \ {x}] = c + r /\ it[s \ {p}] = b + r
        BY <4>1, <4>2, <4>3, <4>5
      <4>7. it[s] = b + (c + r)
        BY <2>4, <4>5, <4>6
      <4> QED
        BY <4>5, <4>6, <4>7
    <3> QED
      BY <3>1, <3>2
  <2> QED
    BY <2>5, <2>6
<1>3. Nat \subseteq N
  <2> HIDE DEF N
  <2> QED
    BY <1>1, <1>2, NatInduct
<1>4. \A s \in SUBSET S : \A p \in s : it[s] = f[p] + it[s \ {p}]
  BY <1>3, SmallerSets
<1> QED
  BY <1>4

\* Sums over what two sets have in common are the same.
LEMMA SumSame ==
  ASSUME NEW S, NEW T, NEW f, NEW g, NEW it, NEW jt, IsSum(it, f, S), IsSum(jt, g, T),
         NEW s, s \subseteq S, s \subseteq T, IsFiniteSet(s), \A x \in s : f[x] = g[x]
  PROVE  it[s] = jt[s]
<1> DEFINE N == {n \in Nat : \A t \in SUBSET s : Cardinality(t) = n => it[t] = jt[t]}
<1>0. \A t \in SUBSET s :
        /\ it[t] = IF t = {} THEN 0 ELSE f[Chosen(t)] + it[t \ {Chosen(t)}]
        /\ jt[t] = IF t = {} THEN 0 ELSE g[Chosen(t)] + jt[t \ {Chosen(t)}]
  BY DEF IsSum
<1>1. 0 \in N
  <2>1. \A t \in SUBSET s : Cardinality(t) = 0 => t = {}
    BY SmallerSets
  <2> QED
    BY <1>0, <2>1
<1>2. ASSUME NEW n \in Nat, n \in N PROVE n + 1 \in N
  <2> SUFFICES ASSUME NEW t \in SUBSET s, Cardinality(t) = n + 1 PROVE it[t] = jt[t]
    OBVIOUS
  <2>1. t # {} /\ Chosen(t) \in t /\ f[Chosen(t)] = g[Chosen(t)]
    BY SmallerSets, ChosenIn
  <2>2. t \ {Chosen(t)} \in SUBSET s /\ Cardinality(t \ {Chosen(t)}) = n
    BY <2>1, SmallerSets
  <2>3. it[t \ {Chosen(t)}] = jt[t \ {Chosen(t)}]
    BY <1>2, <2>2
  <2> QED
    BY <1>0, <2>1, <2>3
<1>3. Nat \subseteq N
  <2> HIDE DEF N
  <2> QED
    BY <1>1, <1>2, NatInduct
<1> QED
  BY <1>3, SmallerSets

-----------------------------------------------------------------------------
(* LIKE *)

\* The order of the states: more text for a %, else more of the pattern read.
Later(st, old) ==
    \/ st.starMatch > old.starMatch
    \/ st.starMatch = old.starMatch /\ st.ri > old.ri

\* The loop starts in bounds.
LEMMA StartInLoop ==
    ASSUME NEW C, NEW s \in Seq(C), NEW r \in Seq(C)
    PROVE  Start \in LoopStates(s, r)
  BY DEF Start, LoopStates

\* The fields of a state.
LEMMA LoopFields ==
    ASSUME NEW C, NEW s \in Seq(C), NEW r \in Seq(C), NEW st \in LoopStates(s, r)
    PROVE  /\ Len(s) \in Nat /\ Len(r) \in Nat
           /\ st.si \in 0..Len(s) /\ st.ri \in 0..Len(r) /\ st.star \in -1..(Len(r) - 1)
           /\ st.starMatch \in 0..Len(s)
           /\ st.star < st.ri /\ st.si - st.starMatch = st.ri - (st.star + 1)
           /\ st = [si |-> st.si, ri |-> st.ri, star |-> st.star, starMatch |-> st.starMatch]
  BY DEF LoopStates

\* A round that is not the last leads from a state in bounds to a later one in bounds.
\* There are finitely many of them, so that likeCmpBytes returns.
THEOREM LikeAdvances ==
    ASSUME NEW C, NEW s \in Seq(C), NEW r \in Seq(C),
           NEW st \in LoopStates(s, r), st.si < Len(s), ~Stuck(s, r, st)
    PROVE  LikeStep(s, r, st) \in LoopStates(s, r) /\ Later(LikeStep(s, r, st), st)
<1> DEFINE next == LikeStep(s, r, st)
           Advances == next \in LoopStates(s, r) /\ Later(next, st)
<1>0. /\ Len(s) \in Nat /\ Len(r) \in Nat
      /\ st.si \in 0..Len(s) /\ st.ri \in 0..Len(r) /\ st.star \in -1..(Len(r) - 1)
      /\ st.starMatch \in 0..Len(s)
      /\ st.star < st.ri /\ st.si - st.starMatch = st.ri - (st.star + 1)
      /\ st = [si |-> st.si, ri |-> st.ri, star |-> st.star, starMatch |-> st.starMatch]
  BY LoopFields
<1>1. ASSUME Literal(s, r, st) PROVE Advances
  <2>1. next = [si |-> st.si + 1, ri |-> st.ri + 1, star |-> st.star,
                starMatch |-> st.starMatch]
    BY <1>0, <1>1 DEF LikeStep
  <2>2. st.ri < Len(r)
    BY <1>1 DEF Literal
  <2> HIDE DEF next
  <2> QED
    BY <1>0, <2>1, <2>2, SMTT(20) DEF LoopStates, Later
<1>2. ASSUME ~Literal(s, r, st) /\ Wildcard(r, st) PROVE Advances
  <2>1. next = [si |-> st.si, ri |-> st.ri + 1, star |-> st.ri, starMatch |-> st.si]
    BY <1>0, <1>2 DEF LikeStep
  <2>2. st.ri < Len(r)
    BY <1>2 DEF Wildcard
  <2> HIDE DEF next
  <2> QED
    BY <1>0, <2>1, <2>2 DEF LoopStates, Later
<1>3. ASSUME ~Literal(s, r, st) /\ ~Wildcard(r, st) PROVE Advances
  <2>1. next = [si |-> st.starMatch + 1, ri |-> st.star + 1, star |-> st.star,
                starMatch |-> st.starMatch + 1]
    BY <1>0, <1>3 DEF LikeStep, Retry
  <2>2. st.star >= 0
    BY <1>0, <1>3 DEF Stuck
  <2> HIDE DEF next
  <2> QED
    BY <1>0, <2>1, <2>2 DEF LoopStates, Later
<1> QED
  BY <1>1, <1>2, <1>3

\* One position of a pattern, which stands for the text from a up to b.
StandsFor(s, r, k, a, b) ==
    IF r[k] = "%" THEN a <= b ELSE a <= Len(s) /\ r[k] \in {"_", s[a]} /\ b = a + 1

\* The text from i on, cut along the pattern from j on: cut[k] is where the text of
\* position k begins.
Cut(s, r, i, j, cut) ==
    /\ cut \in [j..Len(r) + 1 -> 1..Len(s) + 1]
    /\ cut[j] = i /\ cut[Len(r) + 1] = Len(s) + 1
    /\ \A k \in j..Len(r) : StandsFor(s, r, k, cut[k], cut[k + 1])

\* The text from i on matches the pattern from j on.
MatchesFrom(s, r, i, j) == \E cut : Cut(s, r, i, j, cut)

\* Nothing of the pattern is left: nothing of the text may be left.
LEMMA MatchesNothing ==
    ASSUME NEW C, NEW s \in Seq(C), NEW r \in Seq(C), NEW i \in 1..Len(s) + 1
    PROVE  MatchesFrom(s, r, i, Len(r) + 1) <=> i = Len(s) + 1
<1> DEFINE n == Len(s)
           m == Len(r)
<1>0. n \in Nat /\ m \in Nat
  OBVIOUS
<1>1. ASSUME i = n + 1 PROVE MatchesFrom(s, r, i, m + 1)
  <2> DEFINE cut == [k \in m + 1..m + 1 |-> n + 1]
  <2>1. Cut(s, r, i, m + 1, cut)
    BY <1>0, <1>1 DEF Cut
  <2> QED
    BY <2>1 DEF MatchesFrom
<1> QED
  BY <1>1 DEF MatchesFrom, Cut

\* The first position of the pattern stands for some of the text, and the rest matches.
LEMMA MatchesNext ==
    ASSUME NEW C, NEW s \in Seq(C), NEW r \in Seq(C), NEW i \in 1..Len(s) + 1,
           NEW j \in 1..Len(r)
    PROVE  MatchesFrom(s, r, i, j) <=>
             \E b \in 1..Len(s) + 1 : StandsFor(s, r, j, i, b) /\ MatchesFrom(s, r, b, j + 1)
<1> DEFINE n == Len(s)
           m == Len(r)
<1>0. n \in Nat /\ m \in Nat
  OBVIOUS
<1>1. ASSUME MatchesFrom(s, r, i, j)
      PROVE  \E b \in 1..n + 1 : StandsFor(s, r, j, i, b) /\ MatchesFrom(s, r, b, j + 1)
  <2>1. PICK cut : Cut(s, r, i, j, cut)
    BY <1>1 DEF MatchesFrom
  <2> DEFINE rest == [k \in j + 1..m + 1 |-> cut[k]]
  <2>2. /\ cut \in [j..m + 1 -> 1..n + 1]
        /\ cut[j] = i /\ cut[m + 1] = n + 1
        /\ \A k \in j..m : StandsFor(s, r, k, cut[k], cut[k + 1])
    BY <2>1 DEF Cut
  <2>3. cut[j + 1] \in 1..n + 1 /\ StandsFor(s, r, j, i, cut[j + 1])
    BY <1>0, <2>2
  <2>4. Cut(s, r, cut[j + 1], j + 1, rest)
    <3>1. \A k \in j + 1..m + 1 : rest[k] = cut[k] /\ cut[k] \in 1..n + 1
      BY <1>0, <2>2
    <3>2. \A k \in j + 1..m : StandsFor(s, r, k, rest[k], rest[k + 1])
      <4> TAKE k \in j + 1..m
      <4>1. rest[k] = cut[k] /\ rest[k + 1] = cut[k + 1] /\ k \in j..m
        BY <1>0, <3>1
      <4> QED
        BY <2>2, <4>1
    <3>3. rest \in [j + 1..m + 1 -> 1..n + 1]
      BY <3>1
    <3>4. rest[j + 1] = cut[j + 1] /\ rest[m + 1] = n + 1
      BY <1>0, <2>2, <3>1
    <3> HIDE DEF rest
    <3> QED
      BY <3>2, <3>3, <3>4 DEF Cut
  <2> QED
    BY <2>3, <2>4 DEF MatchesFrom
<1>2. ASSUME NEW b \in 1..n + 1, StandsFor(s, r, j, i, b), MatchesFrom(s, r, b, j + 1)
      PROVE  MatchesFrom(s, r, i, j)
  <2>1. PICK rest : Cut(s, r, b, j + 1, rest)
    BY <1>2 DEF MatchesFrom
  <2> DEFINE cut == [k \in j..m + 1 |-> IF k = j THEN i ELSE rest[k]]
  <2>2. /\ rest \in [j + 1..m + 1 -> 1..n + 1]
        /\ rest[j + 1] = b /\ rest[m + 1] = n + 1
        /\ \A k \in j + 1..m : StandsFor(s, r, k, rest[k], rest[k + 1])
    BY <2>1 DEF Cut
  <2>3. cut \in [j..m + 1 -> 1..n + 1]
    BY <1>0, <2>2
  <2>4. cut[j] = i /\ \A k \in j + 1..m + 1 : cut[k] = rest[k]
    BY <1>0
  <2>5. \A k \in j..m : StandsFor(s, r, k, cut[k], cut[k + 1])
    <3> TAKE k \in j..m
    <3>1. CASE k = j
      <4>1. cut[k] = i /\ cut[k + 1] = b
        BY <1>0, <2>2, <2>4, <3>1
      <4> HIDE DEF cut
      <4> QED
        BY <1>2, <3>1, <4>1
    <3>2. CASE k # j
      <4>1. cut[k] = rest[k] /\ cut[k + 1] = rest[k + 1] /\ k \in j + 1..m
        BY <1>0, <2>4, <3>2
      <4> HIDE DEF cut
      <4> QED
        BY <2>2, <4>1
    <3> QED
      BY <3>1, <3>2
  <2>6. cut[m + 1] = n + 1
    BY <1>0, <2>2, <2>4
  <2> HIDE DEF cut
  <2>7. Cut(s, r, i, j, cut)
    BY <2>3, <2>4, <2>5, <2>6 DEF Cut
  <2> QED
    BY <2>7 DEF MatchesFrom
<1> QED
  BY <1>1, <1>2

\* The three ways in which the pattern can go on.
LEMMA MatchesCases ==
    ASSUME NEW C, NEW s \in Seq(C), NEW r \in Seq(C), NEW i \in 1..Len(s) + 1,
           NEW j \in 1..Len(r)
    PROVE  /\ r[j] = "%" =>
                (MatchesFrom(s, r, i, j) <=> \E b \in i..Len(s) + 1 : MatchesFrom(s, r, b, j + 1))
           /\ r[j] # "%" =>
                (MatchesFrom(s, r, i, j) <=>
                    i <= Len(s) /\ r[j] \in {"_", s[i]} /\ MatchesFrom(s, r, i + 1, j + 1))
<1>0. Len(s) \in Nat
  OBVIOUS
<1>1. ASSUME r[j] = "%"
      PROVE  MatchesFrom(s, r, i, j) <=> \E b \in i..Len(s) + 1 : MatchesFrom(s, r, b, j + 1)
  <2>1. \A b \in 1..Len(s) + 1 : StandsFor(s, r, j, i, b) <=> b \in i..Len(s) + 1
    BY <1>0, <1>1 DEF StandsFor
  <2>2. MatchesFrom(s, r, i, j) <=>
          \E b \in 1..Len(s) + 1 : b \in i..Len(s) + 1 /\ MatchesFrom(s, r, b, j + 1)
    BY <2>1, MatchesNext, Zenon
  <2>3. \A b \in i..Len(s) + 1 : b \in 1..Len(s) + 1
    BY <1>0
  <2> QED
    BY <2>2, <2>3, Zenon
<1>2. ASSUME r[j] # "%"
      PROVE  MatchesFrom(s, r, i, j) <=>
                i <= Len(s) /\ r[j] \in {"_", s[i]} /\ MatchesFrom(s, r, i + 1, j + 1)
  <2>1. \A b \in 1..Len(s) + 1 :
          StandsFor(s, r, j, i, b) <=> i <= Len(s) /\ r[j] \in {"_", s[i]} /\ b = i + 1
    BY <1>2 DEF StandsFor
  <2>2. MatchesFrom(s, r, i, j) <=>
          \E b \in 1..Len(s) + 1 : /\ i <= Len(s) /\ r[j] \in {"_", s[i]} /\ b = i + 1
                                   /\ MatchesFrom(s, r, b, j + 1)
    BY <2>1, MatchesNext, Zenon
  <2>3. i <= Len(s) => i + 1 \in 1..Len(s) + 1
    BY <1>0
  <2> QED
    BY <2>2, <2>3, Zenon
<1> QED
  BY <1>1, <1>2

\* The definition of LIKE says that the text can be cut along the pattern.
LEMMA LikeIsMatch ==
    ASSUME NEW C, NEW s \in Seq(C), NEW r \in Seq(C)
    PROVE  Like(s, r) <=> MatchesFrom(s, r, 1, 1)
<1> DEFINE n == Len(s)
           m == Len(r)
           Rest(f, j) == IF j > Len(r) THEN {Len(s) + 1}
                         ELSE IF r[j] = "%"
                         THEN {i \in 1..Len(s) + 1 : \E k \in f[j + 1] : i <= k}
                         ELSE {i \in 1..Len(s) : r[j] \in {"_", s[i]} /\ i + 1 \in f[j + 1]}
           starts == CHOOSE f : f = [j \in 1..Len(r) + 1 |-> Rest(f, j)]
           Where(j) == {i \in 1..n + 1 : MatchesFrom(s, r, i, j)}
           cuts == [j \in 1..Len(r) + 1 |-> Where(j)]
<1>0. n \in Nat /\ m \in Nat
  OBVIOUS
<1>1. Like(s, r) <=> 1 \in starts[1]
  BY DEF Like
\* One position of the pattern, if the later ones are known.
<1>2. ASSUME NEW f, NEW j \in 1..m + 1, j <= m => f[j + 1] = Where(j + 1)
      PROVE  Rest(f, j) = Where(j)
  <2>1. CASE j > m
    <3>1. j = m + 1
      BY <1>0, <2>1
    <3>2. Rest(f, j) = {n + 1}
      BY <2>1
    <3>3. n + 1 \in 1..n + 1
      BY <1>0
    <3>4. \A i \in 1..n + 1 : MatchesFrom(s, r, i, j) <=> i = n + 1
      BY <3>1, MatchesNothing
    <3> QED
      BY <3>2, <3>3, <3>4
  <2>2. CASE j <= m
    <3>1. j \in 1..m /\ ~(j > m)
      BY <1>0, <2>2
    <3>2. CASE r[j] = "%"
      <4>1. Rest(f, j) = {i \in 1..n + 1 : \E k \in Where(j + 1) : i <= k}
        BY <1>2, <2>2, <3>1, <3>2
      <4>2. \A i \in 1..n + 1 : MatchesFrom(s, r, i, j)
                                  <=> \E k \in i..n + 1 : MatchesFrom(s, r, k, j + 1)
        BY <3>1, <3>2, MatchesCases
      <4>3. \A i \in 1..n + 1 : (\E k \in Where(j + 1) : i <= k)
                                  <=> \E k \in i..n + 1 : MatchesFrom(s, r, k, j + 1)
        BY <1>0
      <4> QED
        BY <4>1, <4>2, <4>3
    <3>3. CASE r[j] # "%"
      <4>1. Rest(f, j) = {i \in 1..n : r[j] \in {"_", s[i]} /\ i + 1 \in Where(j + 1)}
        BY <1>2, <2>2, <3>1, <3>3
      <4>2. \A i \in 1..n + 1 : MatchesFrom(s, r, i, j) <=>
              i <= n /\ r[j] \in {"_", s[i]} /\ MatchesFrom(s, r, i + 1, j + 1)
        BY <3>1, <3>3, MatchesCases
      <4>3. \A i \in 1..n + 1 : i \in 1..n <=> i <= n
        BY <1>0
      <4>4. \A i \in 1..n : i \in 1..n + 1 /\ i + 1 \in 1..n + 1
        BY <1>0
      <4> QED
        BY <4>1, <4>2, <4>3, <4>4
    <3> QED
      BY <3>2, <3>3
  <2>3. j > m \/ j <= m
    BY <1>0
  <2> QED
    BY <2>1, <2>2, <2>3
<1> HIDE DEF Rest, Where
<1>3. cuts = [j \in 1..m + 1 |-> Rest(cuts, j)]
  <2>1. ASSUME NEW j \in 1..m + 1 PROVE Rest(cuts, j) = Where(j)
    <3>1. j <= m => cuts[j + 1] = Where(j + 1)
      BY <1>0
    <3> HIDE DEF cuts
    <3> QED
      BY <1>2, <3>1
  <2> QED
    BY <2>1
<1>4. starts = [j \in 1..m + 1 |-> Rest(starts, j)]
  <2> HIDE DEF cuts
  <2> QED
    BY <1>3
<1> HIDE DEF starts
<1> DEFINE T == {d \in Nat : \A j \in 1..m + 1 : m + 1 - j = d => starts[j] = Where(j)}
<1>5. 0 \in T
  <2>1. \A j \in 1..m + 1 : m + 1 - j = 0 => ~(j <= m)
    BY <1>0
  <2>2. \A j \in 1..m + 1 : starts[j] = Rest(starts, j)
    BY <1>4
  <2> QED
    BY <1>2, <2>1, <2>2
<1>6. ASSUME NEW d \in Nat, d \in T PROVE d + 1 \in T
  <2>1. ASSUME NEW j \in 1..m + 1, m + 1 - j = d + 1 PROVE starts[j] = Where(j)
    <3>1. j + 1 \in 1..m + 1 /\ m + 1 - (j + 1) = d
      BY <1>0, <2>1
    <3>2. starts[j + 1] = Where(j + 1)
      BY <1>6, <3>1
    <3>3. starts[j] = Rest(starts, j)
      BY <1>4
    <3> QED
      BY <1>2, <3>2, <3>3
  <2> QED
    BY <2>1
<1>7. Nat \subseteq T
  <2> HIDE DEF T
  <2> QED
    BY <1>5, <1>6, NatInduct
<1>8. 1 \in 1..n + 1 /\ 1 \in 1..m + 1 /\ m + 1 - 1 \in Nat
  BY <1>0
<1>9. starts[1] = Where(1)
  BY <1>7, <1>8
<1> QED
  BY <1>1, <1>8, <1>9 DEF Where

\* A run of the loop from st to the end of the text, with only % left of the pattern.
Run(s, r, st, n, run) ==
    /\ run \in [0..n -> LoopStates(s, r)]
    /\ run[0] = st /\ run[n].si = Len(s) /\ OnlyStarsLeft(r, run[n])
    /\ \A k \in 0..n - 1 : run[k].si # Len(s) /\ ~Stuck(s, r, run[k])
                           /\ run[k + 1] = LikeStep(s, r, run[k])

Accepts(s, r, st) == \E n \in Nat : \E run : Run(s, r, st, n, run)

\* What a run from st comes to is decided at the end of the text, or by the next state.
LEMMA AcceptsNext ==
    ASSUME NEW C, NEW s \in Seq(C), NEW r \in Seq(C), NEW st \in LoopStates(s, r)
    PROVE  Accepts(s, r, st) <=>
             IF st.si = Len(s) THEN OnlyStarsLeft(r, st)
             ELSE ~Stuck(s, r, st) /\ Accepts(s, r, LikeStep(s, r, st))
<1> DEFINE next == LikeStep(s, r, st)
<1>1. ASSUME st.si = Len(s), OnlyStarsLeft(r, st) PROVE Accepts(s, r, st)
  <2> DEFINE run == [k \in 0..0 |-> st]
  <2>1. \A k \in 0..0 - 1 : FALSE
    OBVIOUS
  <2>2. run \in [0..0 -> LoopStates(s, r)] /\ run[0] = st
    OBVIOUS
  <2> HIDE DEF run
  <2>3. Run(s, r, st, 0, run)
    BY <1>1, <2>1, <2>2 DEF Run
  <2> QED
    BY <2>3 DEF Accepts
<1>2. ASSUME st.si # Len(s), ~Stuck(s, r, st), Accepts(s, r, next) PROVE Accepts(s, r, st)
  <2>1. PICK n \in Nat : \E rest : Run(s, r, next, n, rest)
    BY <1>2 DEF Accepts
  <2>r. PICK rest : Run(s, r, next, n, rest)
    BY <2>1
  <2> HIDE DEF next
  <2> DEFINE run == [k \in 0..n + 1 |-> IF k = 0 THEN st ELSE rest[k - 1]]
  <2>2. /\ rest \in [0..n -> LoopStates(s, r)]
        /\ rest[0] = next /\ rest[n].si = Len(s) /\ OnlyStarsLeft(r, rest[n])
        /\ \A k \in 0..n - 1 : rest[k].si # Len(s) /\ ~Stuck(s, r, rest[k])
                               /\ rest[k + 1] = LikeStep(s, r, rest[k])
    BY <2>r DEF Run
  <2>3. \A k \in 0..n + 1 : run[k] = IF k = 0 THEN st ELSE rest[k - 1]
    OBVIOUS
  <2>4. run \in [0..n + 1 -> LoopStates(s, r)]
    BY <2>2
  <2>5. run[0] = st /\ run[n + 1] = rest[n]
    BY <2>3
  <2> HIDE DEF run
  <2>6. ASSUME NEW k \in 0..(n + 1) - 1
        PROVE  /\ run[k].si # Len(s) /\ ~Stuck(s, r, run[k])
               /\ run[k + 1] = LikeStep(s, r, run[k])
    <3>1. run[k + 1] = rest[k]
      BY <2>3
    <3>2. CASE k = 0
      <4>1. run[k] = st /\ run[k + 1] = next
        BY <2>2, <2>3, <3>2
      <4> QED
        BY <1>2, <4>1 DEF next
    <3>3. CASE k # 0
      <4>1. run[k] = rest[k - 1] /\ k - 1 \in 0..n - 1 /\ (k - 1) + 1 = k
        BY <2>3, <3>3
      <4> QED
        BY <2>2, <3>1, <4>1
    <3> QED
      BY <3>2, <3>3
  <2>7. Run(s, r, st, n + 1, run)
    BY <2>2, <2>4, <2>5, <2>6, Zenon DEF Run
  <2> QED
    BY <2>7 DEF Accepts
<1>3. ASSUME Accepts(s, r, st)
      PROVE  IF st.si = Len(s) THEN OnlyStarsLeft(r, st)
             ELSE ~Stuck(s, r, st) /\ Accepts(s, r, next)
  <2>1. PICK n \in Nat : \E run : Run(s, r, st, n, run)
    BY <1>3 DEF Accepts
  <2>r. PICK run : Run(s, r, st, n, run)
    BY <2>1
  <2>2. /\ run \in [0..n -> LoopStates(s, r)]
        /\ run[0] = st /\ run[n].si = Len(s) /\ OnlyStarsLeft(r, run[n])
        /\ \A k \in 0..n - 1 : run[k].si # Len(s) /\ ~Stuck(s, r, run[k])
                               /\ run[k + 1] = LikeStep(s, r, run[k])
    BY <2>r DEF Run
  <2>3. CASE n = 0
    BY <2>2, <2>3
  <2>4. CASE n # 0
    <3> DEFINE rest == [k \in 0..n - 1 |-> run[k + 1]]
    <3>1. 0 \in 0..n - 1
      BY <2>4
    <3>2. st.si # Len(s) /\ ~Stuck(s, r, st) /\ run[1] = next
      BY <2>2, <3>1
    <3>3. \A k \in 0..n - 1 : rest[k] = run[k + 1] /\ k + 1 \in 0..n
      OBVIOUS
    <3>4. rest \in [0..n - 1 -> LoopStates(s, r)]
      BY <2>2, <3>3
    <3>5. rest[0] = next /\ rest[n - 1] = run[n]
      BY <2>4, <3>1, <3>2, <3>3
    <3> HIDE DEF rest, next
    <3>6. ASSUME NEW k \in 0..(n - 1) - 1
          PROVE  /\ rest[k].si # Len(s) /\ ~Stuck(s, r, rest[k])
                 /\ rest[k + 1] = LikeStep(s, r, rest[k])
      <4>1. k \in 0..n - 1 /\ k + 1 \in 0..n - 1
        OBVIOUS
      <4>2. rest[k] = run[k + 1] /\ rest[k + 1] = run[(k + 1) + 1]
        BY <3>3, <4>1
      <4> QED
        BY <2>2, <4>1, <4>2
    <3>7. Run(s, r, next, n - 1, rest)
      BY <2>2, <3>4, <3>5, <3>6, Zenon DEF Run
    <3>8. n - 1 \in Nat
      BY <2>4
    <3>9. Accepts(s, r, next)
      BY <3>7, <3>8 DEF Accepts
    <3> QED
      BY <3>2, <3>9
  <2> QED
    BY <2>3, <2>4
<1> QED
  BY <1>1, <1>2, <1>3

\* Nothing of the pattern behind the last % that has been read is a %.
Clean(r, st) == \A p \in st.star + 2..st.ri : r[p] # "%"

\* The text can be matched from a state on: as it stands, or with more text for the last %.
Wins(s, r, st) ==
    \/ MatchesFrom(s, r, st.si + 1, st.ri + 1)
    \/ st.star >= 0
       /\ \E k \in st.starMatch + 1..Len(s) : MatchesFrom(s, r, k + 1, st.star + 2)

\* A pattern without % takes one character for each of its positions.
LEMMA SkipLiterals ==
    ASSUME NEW C, NEW s \in Seq(C), NEW r \in Seq(C), NEW i \in 1..Len(s) + 1,
           NEW j \in 1..Len(r) + 1, MatchesFrom(s, r, i, j),
           NEW d \in Nat, j + d \in 1..Len(r) + 1,
           \A p \in j..j + d - 1 : r[p] # "%"
    PROVE  i + d \in 1..Len(s) + 1 /\ MatchesFrom(s, r, i + d, j + d)
<1> DEFINE n == Len(s)
           m == Len(r)
           T == {e \in Nat : e <= d => i + e \in 1..n + 1 /\ MatchesFrom(s, r, i + e, j + e)}
<1>0. n \in Nat /\ m \in Nat
  OBVIOUS
<1>1. 0 \in T
  BY <1>0
<1>2. ASSUME NEW e \in Nat, e \in T PROVE e + 1 \in T
  <2> SUFFICES ASSUME e + 1 <= d
               PROVE  i + (e + 1) \in 1..n + 1 /\ MatchesFrom(s, r, i + (e + 1), j + (e + 1))
    BY <1>0
  <2>1. i + e \in 1..n + 1 /\ MatchesFrom(s, r, i + e, j + e)
    BY <1>2
  <2>2. j + e \in 1..m /\ j + e \in j..j + d - 1
    BY <1>0
  <2>3. r[j + e] # "%"
    BY <2>2
  <2>4. i + e <= n /\ MatchesFrom(s, r, i + e + 1, j + e + 1)
    <3>1. PICK a \in 1..n + 1, b \in 1..m : a = i + e /\ b = j + e
      BY <2>1, <2>2
    <3>2. MatchesFrom(s, r, a, b) /\ r[b] # "%"
      BY <2>1, <2>3, <3>1
    <3>3. a <= n /\ MatchesFrom(s, r, a + 1, b + 1)
      <4>1. MatchesFrom(s, r, a, b) <=>
              a <= Len(s) /\ r[b] \in {"_", s[a]} /\ MatchesFrom(s, r, a + 1, b + 1)
        BY <3>2, MatchesCases
      <4> QED
        BY <3>2, <4>1
    <3> QED
      BY <3>1, <3>3
  <2>5. i + e + 1 = i + (e + 1) /\ j + e + 1 = j + (e + 1)
    BY <1>0
  <2> QED
    BY <1>0, <2>1, <2>4, <2>5
<1>3. Nat \subseteq T
  <2> HIDE DEF T
  <2> QED
    BY <1>1, <1>2, NatInduct
<1> QED
  BY <1>3

\* The last % takes no more text than it must: with more for it, what was read behind it
\* would end later in the text.
LEMMA AgainAfter ==
    ASSUME NEW C, NEW s \in Seq(C), NEW r \in Seq(C),
           NEW si \in 0..Len(s), NEW ri \in 0..Len(r),
           NEW star \in 0..Len(r) - 1, NEW from \in 0..Len(s),
           star < ri, si - from = ri - (star + 1),
           \A p \in star + 2..ri : r[p] # "%",
           NEW k \in from + 1..Len(s), MatchesFrom(s, r, k + 1, star + 2)
    PROVE  \E i \in si + 1..Len(s) : MatchesFrom(s, r, i + 1, ri + 1)
<1> DEFINE d == ri - (star + 1)
<1>1. /\ d \in Nat /\ k + 1 \in 1..Len(s) + 1 /\ star + 2 \in 1..Len(r) + 1
      /\ (star + 2) + d = ri + 1 /\ ri + 1 \in 1..Len(r) + 1
      /\ (star + 2) + d - 1 = ri
      /\ (k + 1) + d = (k + d) + 1 /\ k + d >= si + 1 /\ k + d \in Int
  OBVIOUS
<1> HIDE DEF d
<1>2. (k + 1) + d \in 1..Len(s) + 1 /\ MatchesFrom(s, r, (k + 1) + d, (star + 2) + d)
  BY <1>1, SkipLiterals
<1>3. MatchesFrom(s, r, (k + d) + 1, ri + 1)
  BY <1>1, <1>2
<1>4. k + d \in si + 1..Len(s)
  BY <1>1, <1>2
<1> QED
  BY <1>3, <1>4

\* The loop keeps what decides: in a text without %, a state can be matched from if the next
\* one can.
LEMMA WinsNext ==
    ASSUME NEW C, NEW s \in Seq(C), NEW r \in Seq(C), NEW st \in LoopStates(s, r),
           Clean(r, st), \A i \in 1..Len(s) : s[i] # "%"
    PROVE  /\ Wins(s, r, st) <=>
                IF st.si = Len(s) THEN OnlyStarsLeft(r, st)
                ELSE ~Stuck(s, r, st) /\ Wins(s, r, LikeStep(s, r, st))
           /\ st.si # Len(s) /\ ~Stuck(s, r, st) => Clean(r, LikeStep(s, r, st))
<1> DEFINE n == Len(s)
           m == Len(r)
           next == LikeStep(s, r, st)
           Here == MatchesFrom(s, r, st.si + 1, st.ri + 1)
           Again == /\ st.star >= 0
                    /\ \E k \in st.starMatch + 1..n : MatchesFrom(s, r, k + 1, st.star + 2)
<1>0. /\ n \in Nat /\ m \in Nat
      /\ st.si \in 0..n /\ st.ri \in 0..m /\ st.star \in -1..(m - 1)
      /\ st.starMatch \in 0..n
      /\ st.star < st.ri /\ st.si - st.starMatch = st.ri - (st.star + 1)
      /\ st = [si |-> st.si, ri |-> st.ri, star |-> st.star, starMatch |-> st.starMatch]
  BY LoopFields
<1>w. Wins(s, r, st) <=> Here \/ Again
  BY DEF Wins
<1>i. st.si + 1 \in 1..n + 1 /\ st.ri + 1 \in 1..m + 1
  BY <1>0
<1>a. Again => \E i \in st.si + 1..n : MatchesFrom(s, r, i + 1, st.ri + 1)
  <2> SUFFICES ASSUME st.star >= 0, NEW k \in st.starMatch + 1..n,
                      MatchesFrom(s, r, k + 1, st.star + 2)
               PROVE  \E i \in st.si + 1..n : MatchesFrom(s, r, i + 1, st.ri + 1)
    OBVIOUS
  <2>1. st.star \in 0..m - 1
    BY <1>0
  <2>2. \A p \in st.star + 2..st.ri : r[p] # "%"
    BY DEF Clean
  <2> QED
    BY <1>0, <2>1, <2>2, AgainAfter, Zenon
\* At the end of the text.
<1>1. ASSUME st.si = n PROVE Wins(s, r, st) <=> OnlyStarsLeft(r, st)
  <2>1. ~Again
    <3>1. \A i \in st.si + 1..n : FALSE
      BY <1>0, <1>1
    <3> QED
      BY <1>a, <3>1
  <2>2. Here <=> OnlyStarsLeft(r, st)
    <3> DEFINE T == {d \in Nat : \A j \in 1..m + 1 : m + 1 - j = d =>
                        (MatchesFrom(s, r, n + 1, j) <=> \A p \in j..m : r[p] = "%")}
    <3>1. 0 \in T
      <4> SUFFICES ASSUME NEW j \in 1..m + 1, m + 1 - j = 0
                   PROVE  MatchesFrom(s, r, n + 1, j) <=> \A p \in j..m : r[p] = "%"
        OBVIOUS
      <4>1. j = m + 1 /\ n + 1 \in 1..n + 1 /\ \A p \in j..m : FALSE
        BY <1>0
      <4> QED
        BY <4>1, MatchesNothing
    <3>2. ASSUME NEW d \in Nat, d \in T PROVE d + 1 \in T
      <4> SUFFICES ASSUME NEW j \in 1..m + 1, m + 1 - j = d + 1
                   PROVE  MatchesFrom(s, r, n + 1, j) <=> \A p \in j..m : r[p] = "%"
        OBVIOUS
      <4>0. n \in Nat /\ m \in Nat
        BY <1>0
      <4> HIDE DEF m, n
      <4>1. j \in 1..m /\ j + 1 \in 1..m + 1 /\ m + 1 - (j + 1) = d /\ n + 1 \in 1..n + 1
        BY <4>0
      <4> USE DEF m, n
      <4>2. MatchesFrom(s, r, n + 1, j + 1) <=> \A p \in j + 1..m : r[p] = "%"
        BY <3>2, <4>1
      <4>3. \A p \in j..m : p = j \/ p \in j + 1..m
        BY <4>1
      <4>4. j \in j..m /\ \A p \in j + 1..m : p \in j..m
        BY <4>1
      <4>5. MatchesFrom(s, r, n + 1, j) <=> r[j] = "%" /\ MatchesFrom(s, r, n + 1, j + 1)
        <5>1. CASE r[j] = "%"
          <6>1. MatchesFrom(s, r, n + 1, j) <=> \E b \in n + 1..n + 1 : MatchesFrom(s, r, b, j + 1)
            BY <4>1, <5>1, MatchesCases
          <6>2. \A b \in n + 1..n + 1 : b = n + 1
            BY <1>0
          <6>3. n + 1 \in n + 1..n + 1
            BY <1>0
          <6> QED
            BY <5>1, <6>1, <6>2, <6>3, Zenon
        <5>2. CASE r[j] # "%"
          <6>1. MatchesFrom(s, r, n + 1, j) => n + 1 <= n
            BY <4>1, <5>2, MatchesCases
          <6> QED
            BY <1>0, <5>2, <6>1, SMTT(20)
        <5> QED
          BY <5>1, <5>2
      <4> QED
        BY <4>2, <4>3, <4>4, <4>5
    <3>3. Nat \subseteq T
      <4> HIDE DEF T
      <4> QED
        BY <3>1, <3>2, NatInduct
    <3>4. m + 1 - (st.ri + 1) \in Nat
      BY <1>0
    <3> QED
      BY <1>1, <1>i, <3>3, <3>4 DEF OnlyStarsLeft
  <2> QED
    BY <1>w, <2>1, <2>2
<1>2. ASSUME st.si # n, Literal(s, r, st)
      PROVE  (Wins(s, r, st) <=> Wins(s, r, next)) /\ Clean(r, next)
  <2>1. next = [si |-> st.si + 1, ri |-> st.ri + 1, star |-> st.star,
                starMatch |-> st.starMatch]
    BY <1>0, <1>2 DEF LikeStep
  <2>2. /\ st.ri + 1 \in 1..m /\ st.si + 1 \in 1..n
        /\ r[st.ri + 1] \in {"_", s[st.si + 1]} /\ r[st.ri + 1] # "%"
    <3>0. st.ri < m
      BY <1>2 DEF Literal
    <3>1. st.ri + 1 \in 1..m /\ st.si + 1 \in 1..n
      BY <1>0, <1>2, <3>0
    <3>2. r[st.ri + 1] \in {"_", s[st.si + 1]}
      BY <1>2 DEF Literal
    <3>3. s[st.si + 1] # "%"
      BY <3>1
    <3> QED
      BY <3>1, <3>2, <3>3
  <2>3. Here <=> MatchesFrom(s, r, (st.si + 1) + 1, (st.ri + 1) + 1)
    <3>1. Here <=> /\ st.si + 1 <= Len(s) /\ r[st.ri + 1] \in {"_", s[st.si + 1]}
                   /\ MatchesFrom(s, r, (st.si + 1) + 1, (st.ri + 1) + 1)
      BY <1>i, <2>2, MatchesCases
    <3>2. st.si + 1 <= Len(s)
      BY <1>0, <1>2
    <3> QED
      BY <2>2, <3>1, <3>2
  <2> HIDE DEF next
  <2>4. Wins(s, r, st) <=> Wins(s, r, next)
    BY <1>w, <2>1, <2>3 DEF Wins
  <2>5. Clean(r, next)
    <3>1. next.star = st.star /\ next.ri = st.ri + 1
      BY <2>1
    <3>2. \A p \in st.star + 2..st.ri + 1 : p = st.ri + 1 \/ p \in st.star + 2..st.ri
      BY <1>0
    <3> QED
      BY <2>2, <3>1, <3>2 DEF Clean
  <2> QED
    BY <2>4, <2>5
<1>3. ASSUME st.si # n, ~Literal(s, r, st), Wildcard(r, st)
      PROVE  (Wins(s, r, st) <=> Wins(s, r, next)) /\ Clean(r, next)
  <2>1. next = [si |-> st.si, ri |-> st.ri + 1, star |-> st.ri, starMatch |-> st.si]
    BY <1>0, <1>3 DEF LikeStep
  <2>2. st.ri + 1 \in 1..m /\ r[st.ri + 1] = "%"
    BY <1>0, <1>3 DEF Wildcard
  <2>3. \A a \in 1..n + 1 : MatchesFrom(s, r, a, st.ri + 1)
                              <=> \E b \in a..n + 1 : MatchesFrom(s, r, b, (st.ri + 1) + 1)
    BY <2>2, MatchesCases
  <2>4. Again => Here
    <3> SUFFICES ASSUME Again PROVE Here
      OBVIOUS
    <3>1. PICK i \in st.si + 1..n : MatchesFrom(s, r, i + 1, st.ri + 1)
      BY <1>a
    <3>2. i + 1 \in 1..n + 1
      <4>1. \A a, b \in Nat : \A k \in a + 1..b : k + 1 \in 1..b + 1
        OBVIOUS
      <4>2. st.si \in Nat /\ n \in Nat
        BY <1>0
      <4> QED
        BY <4>1, <4>2, Zenon
    <3>3. PICK b \in i + 1..n + 1 : MatchesFrom(s, r, b, (st.ri + 1) + 1)
      BY <2>3, <3>1, <3>2
    <3>4. b \in st.si + 1..n + 1
      <4>1. st.si \in Int /\ n \in Int
        BY <1>0
      <4> QED
        BY <4>1
    <3> QED
      BY <1>i, <2>3, <3>3, <3>4
  <2> HIDE DEF next
  <2>5. Wins(s, r, next) <=> \E b \in st.si + 1..n + 1 : MatchesFrom(s, r, b, (st.ri + 1) + 1)
    <3>1. next.si = st.si /\ next.ri = st.ri + 1 /\ next.star = st.ri /\ next.starMatch = st.si
      BY <2>1
    <3>2. Wins(s, r, next) <=>
            \/ MatchesFrom(s, r, st.si + 1, (st.ri + 1) + 1)
            \/ \E k \in st.si + 1..n : MatchesFrom(s, r, k + 1, st.ri + 2)
      BY <1>0, <3>1 DEF Wins
    <3>3. st.ri + 2 = (st.ri + 1) + 1
      BY <1>0
    <3>4. \A k \in st.si + 1..n : k + 1 \in st.si + 1..n + 1
      BY <1>0
    <3>5. \A b \in st.si + 1..n + 1 : b = st.si + 1 \/ (b - 1 \in st.si + 1..n /\ (b - 1) + 1 = b)
      BY <1>0
    <3>6. st.si + 1 \in st.si + 1..n + 1
      BY <1>0
    <3> QED
      BY <3>2, <3>3, <3>4, <3>5, <3>6
  <2>6. Clean(r, next)
    <3>1. \A p \in next.star + 2..next.ri : FALSE
      BY <1>0, <2>1
    <3> QED
      BY <3>1 DEF Clean
  <2> QED
    BY <1>w, <1>i, <2>3, <2>4, <2>5, <2>6
<1>4. ASSUME st.si # n, ~Literal(s, r, st), ~Wildcard(r, st)
      PROVE  ~Here
  <2>1. CASE st.ri = m
    <3>1. Here <=> st.si + 1 = n + 1
      BY <1>i, <2>1, MatchesNothing
    <3> QED
      BY <1>0, <1>4, <3>1
  <2>2. CASE st.ri # m
    <3>1. st.ri + 1 \in 1..m /\ st.ri < m
      BY <1>0, <2>2
    <3>2. r[st.ri + 1] # "%" /\ r[st.ri + 1] \notin {"_", s[st.si + 1]}
      BY <1>4, <3>1 DEF Literal, Wildcard
    <3> QED
      BY <1>i, <3>1, <3>2, MatchesCases
  <2> QED
    BY <2>1, <2>2
<1>5. ASSUME st.si # n, ~Literal(s, r, st), ~Wildcard(r, st), st.star >= 0
      PROVE  (Wins(s, r, st) <=> Wins(s, r, next)) /\ Clean(r, next)
  <2>1. next = [si |-> st.starMatch + 1, ri |-> st.star + 1, star |-> st.star,
                starMatch |-> st.starMatch + 1]
    BY <1>0, <1>5 DEF LikeStep, Retry
  <2> HIDE DEF next
  <2>2. next.si = st.starMatch + 1 /\ next.ri = st.star + 1 /\ next.star = st.star
        /\ next.starMatch = st.starMatch + 1
    BY <2>1
  <2>3. Wins(s, r, next) <=>
          \/ MatchesFrom(s, r, (st.starMatch + 1) + 1, st.star + 2)
          \/ \E k \in (st.starMatch + 1) + 1..n : MatchesFrom(s, r, k + 1, st.star + 2)
    <3>1. (st.star + 1) + 1 = st.star + 2
      BY <1>0
    <3> QED
      BY <1>5, <2>2, <3>1 DEF Wins
  <2>4. st.starMatch + 1 \in st.starMatch + 1..n
    BY <1>0, <1>5
  <2>5. \A k \in st.starMatch + 1..n : k = st.starMatch + 1 \/ k \in (st.starMatch + 1) + 1..n
    BY <1>0
  <2>6. \A k \in (st.starMatch + 1) + 1..n : k \in st.starMatch + 1..n
    BY <1>0
  <2>7. Wins(s, r, next) <=> Again
    BY <1>5, <2>3, <2>4, <2>5, <2>6
  <2>8. Clean(r, next)
    <3>1. \A p \in next.star + 2..next.ri : FALSE
      BY <1>0, <2>1
    <3> QED
      BY <3>1 DEF Clean
  <2> QED
    BY <1>w, <1>4, <1>5, <2>7, <2>8
<1>6. Stuck(s, r, st) <=> ~Literal(s, r, st) /\ ~Wildcard(r, st) /\ ~(st.star >= 0)
  BY <1>0 DEF Stuck
<1> HIDE DEF next, Here
<1>7. ASSUME st.si # n PROVE Wins(s, r, st) <=> ~Stuck(s, r, st) /\ Wins(s, r, next)
  BY <1>w, <1>2, <1>3, <1>4, <1>5, <1>6, <1>7
<1>8. ASSUME st.si # n, ~Stuck(s, r, st) PROVE Clean(r, next)
  BY <1>2, <1>3, <1>5, <1>6, <1>8
<1> QED
  BY <1>1, <1>7, <1>8 DEF next

\* The matcher computes what LIKE means, for every text without % and every pattern: going
\* back to the last % only, and one character further each time, misses no way to cut the
\* text (likeCmpBytes, like.go).
THEOREM LikeCorrect ==
    ASSUME NEW C, NEW s \in Seq(C), NEW r \in Seq(C), \A i \in 1..Len(s) : s[i] # "%"
    PROVE  LikeCmp(s, r) <=> Like(s, r)
<1> DEFINE D == LoopStates(s, r)
           Body(f, st) == IF st.si = Len(s) THEN OnlyStarsLeft(r, st)
                          ELSE ~Stuck(s, r, st) /\ f[LikeStep(s, r, st)]
           matches == CHOOSE f : f = [st \in LoopStates(s, r) |-> Body(f, st)]
           accepts == [st \in LoopStates(s, r) |-> Accepts(s, r, st)]
<1>0. Len(s) \in Nat /\ Len(r) \in Nat
  OBVIOUS
<1>1. LikeCmp(s, r) <=> matches[Start]
  BY Zenon DEF LikeCmp
<1>2. ASSUME NEW st \in D, st.si # Len(s), ~Stuck(s, r, st)
      PROVE  LikeStep(s, r, st) \in D /\ Later(LikeStep(s, r, st), st)
  <2>1. st.si < Len(s)
    BY <1>0, <1>2, LoopFields
  <2> QED
    BY <1>2, <2>1, LikeAdvances
<1>3. accepts = [st \in D |-> Body(accepts, st)]
  <2>1. ASSUME NEW st \in D PROVE Accepts(s, r, st) <=> Body(accepts, st)
    <3>1. CASE st.si = Len(s)
      BY <3>1, AcceptsNext, Zenon
    <3>2. CASE st.si # Len(s) /\ Stuck(s, r, st)
      BY <3>2, AcceptsNext, Zenon
    <3>3. CASE st.si # Len(s) /\ ~Stuck(s, r, st)
      <4>1. LikeStep(s, r, st) \in D
        BY <1>2, <3>3
      <4>2. accepts[LikeStep(s, r, st)] <=> Accepts(s, r, LikeStep(s, r, st))
        BY <4>1, Zenon
      <4> QED
        BY <3>3, <4>2, AcceptsNext, Zenon
    <3> QED
      BY <3>1, <3>2, <3>3, Zenon
  <2>2. ASSUME NEW st \in D PROVE Accepts(s, r, st) = Body(accepts, st)
    <3>1. Accepts(s, r, st) \in BOOLEAN
      BY DEF Accepts
    <3>2. Body(accepts, st) \in BOOLEAN
      BY DEF OnlyStarsLeft
    <3> HIDE DEF Body, accepts
    <3> QED
      BY <2>1, <3>1, <3>2
  <2> QED
    BY <2>2, Zenon
<1>4. matches = [st \in D |-> Body(matches, st)]
  <2> HIDE DEF accepts, Body
  <2> QED
    BY <1>3, Zenon
<1>5. ASSUME NEW st \in D PROVE matches[st] <=> Body(matches, st)
  <2> HIDE DEF matches
  <2> QED
    BY <1>4, Zenon
<1> HIDE DEF matches
\* A state of which it is not true would have a later one.
<1> DEFINE Bad == {st \in D : Clean(r, st) /\ ~(matches[st] <=> Wins(s, r, st))}
<1>6. ASSUME NEW st \in Bad PROVE \E later \in Bad : Later(later, st)
  <2>1. st \in D /\ Clean(r, st) /\ ~(matches[st] <=> Wins(s, r, st))
    OBVIOUS
  <2>2. /\ Wins(s, r, st) <=>
                IF st.si = Len(s) THEN OnlyStarsLeft(r, st)
                ELSE ~Stuck(s, r, st) /\ Wins(s, r, LikeStep(s, r, st))
        /\ st.si # Len(s) /\ ~Stuck(s, r, st) => Clean(r, LikeStep(s, r, st))
    BY <2>1, WinsNext, Zenon
  <2>3. st.si # Len(s) /\ ~Stuck(s, r, st)
    BY <1>5, <2>1, <2>2, Zenon
  <2>4. LikeStep(s, r, st) \in D /\ Later(LikeStep(s, r, st), st)
    BY <1>2, <2>1, <2>3
  <2>5. LikeStep(s, r, st) \in Bad
    BY <1>5, <2>1, <2>2, <2>3, <2>4, Zenon
  <2> QED
    BY <2>4, <2>5
<1>7. Bad = {}
  <2> SUFFICES ASSUME NEW any \in Bad PROVE FALSE
    OBVIOUS
  <2> DEFINE left(st) == Len(s) - st.starMatch
             rest(st) == Len(r) - st.ri
             Lefts == {left(st) : st \in Bad}
  <2>1. \A st \in Bad : left(st) \in Nat /\ rest(st) \in Nat
                        /\ st.starMatch \in Nat /\ st.ri \in Nat
    BY LoopFields, SMTT(20)
  <2>2. PICK a \in Lefts : \A b \in Lefts : a <= b
    <3>1. Lefts \in SUBSET Nat /\ Lefts # {}
      BY <2>1
    <3> HIDE DEF Lefts
    <3> QED
      BY <3>1, LeastExists
  <2> DEFINE Rests == {rest(st) : st \in {st \in Bad : left(st) = a}}
  <2>3. PICK b \in Rests : \A c \in Rests : b <= c
    <3>1. Rests \in SUBSET Nat /\ Rests # {}
      BY <2>1, <2>2
    <3> HIDE DEF Rests
    <3> QED
      BY <3>1, LeastExists
  <2>4. PICK st \in Bad : left(st) = a /\ rest(st) = b
    BY <2>3
  <2>5. PICK later \in Bad : Later(later, st)
    BY <1>6
  <2>6. left(later) \in Lefts /\ (left(later) = a => rest(later) \in Rests)
    OBVIOUS
  <2>7. a <= left(later) /\ (left(later) = a => b <= rest(later))
    BY <2>2, <2>3, <2>6
  <2> HIDE DEF Bad, Lefts, Rests
  <2> QED
    BY <1>0, <2>1, <2>4, <2>5, <2>7 DEF Later
<1>8. Start \in D /\ Clean(r, Start)
  <2>1. \A p \in Start.star + 2..Start.ri : FALSE
    BY DEF Start
  <2> QED
    BY <2>1, StartInLoop DEF Clean
<1>9. matches[Start] <=> Wins(s, r, Start)
  BY <1>7, <1>8, Zenon
<1>10. Wins(s, r, Start) <=> MatchesFrom(s, r, 1, 1)
  BY DEF Wins, Start
<1> QED
  BY <1>1, <1>9, <1>10, LikeIsMatch, Zenon
==============================================================================
