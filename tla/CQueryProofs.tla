---------------------------- MODULE CQueryProofs ----------------------------
(***************************************************************************)
(* Proofs about CQuery for every value of its constants: for every         *)
(* statement, every catalog and every file.                                *)
(***************************************************************************)
EXTENDS CQuery, OperatorProofs, SequenceTheorems

-----------------------------------------------------------------------------
(* Trees of nodes *)

\* The children of a node were allocated before it.
Ordered(nodes, N) ==
  \A n \in 1 .. N : nodes[n].left \in 0 .. n - 1 /\ nodes[n].right \in 0 .. n - 1

\* The function that a walk over the first N nodes computes.
Walked(nodes, N, stops, f) == f = [k \in 0 .. N |-> VisitedAt(nodes, stops, f, k)]

LEMMA WalkExists ==
  ASSUME NEW nodes, NEW N \in Nat, Ordered(nodes, N), NEW stops
  PROVE  \E f : Walked(nodes, N, stops, f)
<1> DEFINE S == {m \in Nat : m <= N => \E f : Walked(nodes, m, stops, f)}
<1>1. 0 \in S
  <2> DEFINE f == [k \in 0 .. 0 |-> {}]
  <2>1. f = [k \in 0 .. 0 |-> VisitedAt(nodes, stops, f, k)]
    BY \A k \in 0 .. 0 : k = 0 DEF VisitedAt
  <2> QED
    BY <2>1 DEF Walked
<1>2. ASSUME NEW m \in Nat, m \in S PROVE m + 1 \in S
  <2> SUFFICES ASSUME m + 1 <= N PROVE \E f : Walked(nodes, m + 1, stops, f)
    OBVIOUS
  <2>1. PICK f : f = [k \in 0 .. m |-> VisitedAt(nodes, stops, f, k)]
    BY <1>2 DEF Walked
  <2> DEFINE g == [k \in 0 .. m + 1 |-> IF k = m + 1 THEN VisitedAt(nodes, stops, f, k) ELSE f[k]]
  <2>2. \A k \in 0 .. m : f[k] = VisitedAt(nodes, stops, f, k)
    BY <2>1
  <2>3. ASSUME NEW k \in 0 .. m + 1 PROVE VisitedAt(nodes, stops, g, k) = VisitedAt(nodes, stops, f, k)
    <3>1. CASE k = 0
      BY <3>1 DEF VisitedAt
    <3>2. CASE k # 0
      <4>1. nodes[k].left \in 0 .. k - 1 /\ nodes[k].right \in 0 .. k - 1
        BY <3>2 DEF Ordered
      <4>2. g[nodes[k].left] = f[nodes[k].left] /\ g[nodes[k].right] = f[nodes[k].right]
        BY <4>1
      <4> QED
        BY <4>2 DEF VisitedAt
    <3> QED
      BY <3>1, <3>2
  <2>4. g = [k \in 0 .. m + 1 |-> VisitedAt(nodes, stops, g, k)]
    <3> HIDE DEF g
    <3>1. g = [k \in 0 .. m + 1 |-> IF k = m + 1 THEN VisitedAt(nodes, stops, f, k) ELSE f[k]]
      BY DEF g
    <3>2. \A k \in 0 .. m + 1 : g[k] = VisitedAt(nodes, stops, g, k)
      BY <2>2, <2>3, <3>1
    <3> QED
      BY <3>1, <3>2
  <2> QED
    BY <2>4 DEF Walked
<1>3. Nat \subseteq S
  <2> HIDE DEF S
  <2> QED
    BY <1>1, <1>2, NatInduct
<1> QED
  BY <1>3

\* What mdb_sql_walk_tree visits: the node and what it visits of its children.
LEMMA WalkIs ==
  ASSUME NEW nodes, Len(nodes) \in Nat, Ordered(nodes, Len(nodes)), NEW stops
  PROVE  /\ mdb_sql_walk_tree(nodes, 0, stops) = {}
         /\ \A n \in 1 .. Len(nodes) :
              mdb_sql_walk_tree(nodes, n, stops) =
                {n} \cup IF nodes[n].op \in stops THEN {}
                         ELSE mdb_sql_walk_tree(nodes, nodes[n].left, stops)
                              \cup mdb_sql_walk_tree(nodes, nodes[n].right, stops)
<1> DEFINE visited == CHOOSE f : Walked(nodes, Len(nodes), stops, f)
<1>1. \A n : mdb_sql_walk_tree(nodes, n, stops) = visited[n]
  BY DEF mdb_sql_walk_tree, Walked
<1>2. ASSUME NEW f, Walked(nodes, Len(nodes), stops, f)
      PROVE  /\ f[0] = {}
             /\ \A n \in 1 .. Len(nodes) :
                  f[n] = {n} \cup IF nodes[n].op \in stops THEN {}
                                  ELSE f[nodes[n].left] \cup f[nodes[n].right]
  <2>1. \A k \in 0 .. Len(nodes) : f[k] = VisitedAt(nodes, stops, f, k)
    BY <1>2 DEF Walked
  <2>2. f[0] = {}
    <3>1. f[0] = VisitedAt(nodes, stops, f, 0)
      BY <2>1
    <3> QED
      BY <3>1 DEF VisitedAt
  <2>3. ASSUME NEW n \in 1 .. Len(nodes)
        PROVE  f[n] = {n} \cup IF nodes[n].op \in stops THEN {}
                               ELSE f[nodes[n].left] \cup f[nodes[n].right]
    <3>1. f[n] = VisitedAt(nodes, stops, f, n) /\ n # 0
      BY <2>1
    <3> QED
      BY <3>1 DEF VisitedAt
  <2> QED
    BY <2>2, <2>3
<1>3. Walked(nodes, Len(nodes), stops, visited)
  BY WalkExists
<1> HIDE DEF visited
<1> QED
  BY <1>1, <1>2, <1>3

Kids(nodes, n) == {nodes[n].left, nodes[n].right} \ {0}

\* A walk over a whole tree visits the root and nothing outside of a set that holds with
\* each node its children; what it visits holds with each node its children, and
\* whatever it visits but the root is a child of a node it visits.
LEMMA WalkCloses ==
  ASSUME NEW nodes, Len(nodes) \in Nat, Ordered(nodes, Len(nodes)), NEW root \in 0 .. Len(nodes)
  PROVE  LET tree == mdb_sql_walk_tree(nodes, root, {}) IN
         /\ tree \subseteq 1 .. Len(nodes)
         /\ root # 0 => root \in tree
         /\ root = 0 => tree = {}
         /\ \A n \in tree : Kids(nodes, n) \subseteq tree
         /\ \A n \in tree \ {root} : \E m \in tree : n \in Kids(nodes, m)
         /\ \A C : (root \in C \cup {0} /\ \A n \in C : Kids(nodes, n) \subseteq C) => tree \subseteq C
<1> DEFINE W(n) == mdb_sql_walk_tree(nodes, n, {})
           Good(n) == /\ W(n) \subseteq 1 .. Len(nodes)
                      /\ n # 0 => n \in W(n)
                      /\ n = 0 => W(n) = {}
                      /\ \A m \in W(n) : Kids(nodes, m) \subseteq W(n)
                      /\ \A k \in W(n) \ {n} : \E m \in W(n) : k \in Kids(nodes, m)
                      /\ \A C : (n \in C \cup {0} /\ \A m \in C : Kids(nodes, m) \subseteq C) => W(n) \subseteq C
           S == {m \in Nat : \A n \in 0 .. m : n <= Len(nodes) => Good(n)}
<1>1. /\ W(0) = {}
      /\ \A n \in 1 .. Len(nodes) : W(n) = {n} \cup W(nodes[n].left) \cup W(nodes[n].right)
  BY WalkIs
<1> HIDE DEF W
<1>2. Good(0)
  BY <1>1
<1>3. ASSUME NEW n \in 1 .. Len(nodes), \A m \in 0 .. n - 1 : Good(m) PROVE Good(n)
  <2> DEFINE l == nodes[n].left
             r == nodes[n].right
  <2>1. l \in 0 .. n - 1 /\ r \in 0 .. n - 1
    BY DEF Ordered
  <2>2. Good(l) /\ Good(r)
    BY <1>3, <2>1
  <2>3. W(n) = {n} \cup W(l) \cup W(r)
    BY <1>1
  <2>4. Kids(nodes, n) = {l, r} \ {0}
    BY DEF Kids
  <2> HIDE DEF l, r
  <2>5. W(n) \subseteq 1 .. Len(nodes) /\ n \in W(n) /\ n # 0
    BY <2>2, <2>3
  <2>6. ASSUME NEW m \in W(n) PROVE Kids(nodes, m) \subseteq W(n)
    BY <2>2, <2>3, <2>4, <2>6
  <2>7. ASSUME NEW k \in W(n) \ {n} PROVE \E m \in W(n) : k \in Kids(nodes, m)
    <3>1. CASE k \in {l, r}
      BY <2>4, <2>5, <3>1
    <3>2. CASE k \in W(l) \ {l}
      BY <2>2, <2>3, <3>2
    <3>3. CASE k \in W(r) \ {r}
      BY <2>2, <2>3, <3>3
    <3> QED
      BY <2>3, <3>1, <3>2, <3>3
  <2>8. ASSUME NEW C, n \in C \cup {0}, \A m \in C : Kids(nodes, m) \subseteq C PROVE W(n) \subseteq C
    <3>1. n \in C /\ l \in C \cup {0} /\ r \in C \cup {0}
      BY <2>4, <2>5, <2>8
    <3>2. W(l) \subseteq C /\ W(r) \subseteq C
      BY <2>2, <2>8, <3>1
    <3> QED
      BY <2>3, <3>1, <3>2
  <2> QED
    BY <2>5, <2>6, <2>7, <2>8
<1>4. 0 \in S
  <2> HIDE DEF Good
  <2> QED
    BY <1>2
<1>5. ASSUME NEW m \in Nat, m \in S PROVE m + 1 \in S
  <2> HIDE DEF Good
  <2> QED
    BY <1>3, <1>5
<1>6. Nat \subseteq S
  <2> HIDE DEF S
  <2> QED
    BY <1>4, <1>5, NatInduct
<1>7. Good(root)
  <2> HIDE DEF Good
  <2> QED
    BY <1>6
<1> QED
  BY <1>7 DEF W

-----------------------------------------------------------------------------
(* Sequences, whatever their elements *)

IsSeq(s) == s \in Seq(ToSet(s))

LEMMA SeqHere ==
  ASSUME NEW S, NEW s, s \in Seq(S)
  PROVE  IsSeq(s)
<1>1. Len(s) \in Nat /\ s \in [1 .. Len(s) -> S]
  BY LenProperties
<1>2. s \in [1 .. Len(s) -> ToSet(s)]
  BY <1>1 DEF ToSet
<1>3. s \in Seq(ToSet(s))
  BY <1>1, <1>2
<1> QED
  BY <1>3 DEF IsSeq

LEMMA SeqFacts ==
  ASSUME NEW s, IsSeq(s)
  PROVE  Len(s) \in Nat /\ DOMAIN s = 1 .. Len(s) /\ \A i \in 1 .. Len(s) : s[i] \in ToSet(s)
  BY DEF IsSeq

LEMMA SeqMade ==
  ASSUME NEW n \in Nat, NEW s, DOMAIN s = 1 .. n, s = [i \in 1 .. n |-> s[i]]
  PROVE  IsSeq(s) /\ Len(s) = n
<1>1. s \in [1 .. n -> ToSet(s)]
  BY DEF ToSet
<1>2. IsSeq(s)
  BY <1>1 DEF IsSeq
<1> QED
  BY <1>2 DEF IsSeq

LEMMA JoinSeq ==
  ASSUME NEW s, NEW t, IsSeq(s), IsSeq(t)
  PROVE  /\ IsSeq(s \o t)
         /\ Len(s \o t) = Len(s) + Len(t)
         /\ \A i \in 1 .. Len(s) : (s \o t)[i] = s[i]
         /\ \A i \in 1 .. Len(t) : (s \o t)[Len(s) + i] = t[i]
<1> DEFINE S == ToSet(s) \cup ToSet(t)
<1>1. s \in Seq(S) /\ t \in Seq(S)
  BY DEF IsSeq
<1> HIDE DEF S
<1>2. s \o t \in Seq(S)
  BY <1>1
<1>3. IsSeq(s \o t)
  BY <1>2, SeqHere, Zenon
<1> QED
  BY <1>1, <1>3

LEMMA AppendSeq ==
  ASSUME NEW s, IsSeq(s), NEW e
  PROVE  /\ IsSeq(Append(s, e))
         /\ Len(Append(s, e)) = Len(s) + 1
         /\ \A i \in 1 .. Len(s) : Append(s, e)[i] = s[i]
         /\ Append(s, e)[Len(s) + 1] = e
<1> DEFINE S == ToSet(s) \cup {e}
<1>1. s \in Seq(S) /\ e \in S
  BY DEF IsSeq
<1> HIDE DEF S
<1>2. Append(s, e) \in Seq(S)
  BY <1>1
<1>3. IsSeq(Append(s, e))
  BY <1>2, SeqHere, Zenon
<1> QED
  BY <1>1, <1>3

LEMMA PrefixSeq ==
  ASSUME NEW s, IsSeq(s), NEW n \in 0 .. Len(s)
  PROVE  /\ IsSeq(SubSeq(s, 1, n))
         /\ Len(SubSeq(s, 1, n)) = n
         /\ \A i \in 1 .. n : SubSeq(s, 1, n)[i] = s[i]
<1>1. Len(s) \in Nat /\ s \in Seq(ToSet(s))
  BY DEF IsSeq
<1>2. SubSeq(s, 1, n) = [i \in 1 .. n |-> s[i]]
  BY <1>1
<1>3. SubSeq(s, 1, n) \in Seq(ToSet(s)) /\ Len(SubSeq(s, 1, n)) = n
  BY <1>1
<1>4. IsSeq(SubSeq(s, 1, n))
  BY <1>3, SeqHere, Zenon
<1> QED
  BY <1>2, <1>3, <1>4

LEMMA TailSeq ==
  ASSUME NEW s, IsSeq(s), s # <<>>
  PROVE  /\ IsSeq(Tail(s))
         /\ Len(Tail(s)) = Len(s) - 1
         /\ Len(s) >= 1
         /\ \A i \in 1 .. Len(s) - 1 : Tail(s)[i] = s[i + 1]
         /\ Head(s) = s[1]
<1>1. s \in Seq(ToSet(s))
  BY DEF IsSeq
<1>2. Tail(s) \in Seq(ToSet(s))
  BY <1>1
<1>3. IsSeq(Tail(s))
  BY <1>2, SeqHere, Zenon
<1> QED
  BY <1>1, <1>3

LEMMA OneSeq == ASSUME NEW e PROVE IsSeq(<<e>>) /\ Len(<<e>>) = 1 /\ <<e>>[1] = e
<1>1. <<e>> \in Seq({e})
  OBVIOUS
<1>2. IsSeq(<<e>>)
  BY <1>1, SeqHere, Zenon
<1> QED
  BY <1>2

LEMMA NoSeq == IsSeq(<<>>) /\ Len(<<>>) = 0
<1>1. <<>> \in Seq({})
  OBVIOUS
<1>2. IsSeq(<<>>)
  BY <1>1, SeqHere, Zenon
<1> QED
  BY <1>2

-----------------------------------------------------------------------------
(* What the parser reduces *)

\* The lengths of the parts of a select.
LEMMA PartLengths ==
  ASSUME NEW s, IsStatement(s), s.kind = "select"
  PROVE  /\ IsSeq(TopRules(s)) /\ Len(TopRules(s)) = (IF s.top.n = -1 THEN 0 ELSE 1)
         /\ IsSeq(ColumnRules(s))
         /\ Len(ColumnRules(s)) = (IF s.cols \in {<<"*">>, <<"count">>} THEN 1 ELSE Len(s.cols))
         /\ Len(s.cols) >= 1 /\ Len(s.cols) \in Nat
         /\ IsSeq(s.where) /\ IsSeq(WhereRules(s)) /\ Len(WhereRules(s)) = Len(s.where)
         /\ IsSeq(LimitRules(s)) /\ Len(LimitRules(s)) = (IF s.limit = -1 THEN 0 ELSE 1)
<1>1. IsSeq(TopRules(s)) /\ Len(TopRules(s)) = (IF s.top.n = -1 THEN 0 ELSE 1)
  BY OneSeq, NoSeq DEF TopRules
<1>2. IsSeq(LimitRules(s)) /\ Len(LimitRules(s)) = (IF s.limit = -1 THEN 0 ELSE 1)
  BY OneSeq, NoSeq DEF LimitRules
<1>3. s.cols \in Seq(STRING) /\ Len(s.cols) \in Nat /\ Len(s.cols) >= 1
  BY DEF IsStatement
<1>4. IsSeq(ColumnRules(s)) /\ Len(ColumnRules(s)) = (IF s.cols \in {<<"*">>, <<"count">>} THEN 1 ELSE Len(s.cols))
  <2>1. CASE s.cols \in {<<"*">>, <<"count">>}
    BY <2>1, OneSeq DEF ColumnRules
  <2>2. CASE s.cols \notin {<<"*">>, <<"count">>}
    <3>1. ColumnRules(s) = [i \in 1 .. Len(s.cols) |-> [rule |-> "column", name |-> s.cols[i]]]
      BY <1>3, <2>2 DEF ColumnRules
    <3>2. IsSeq(ColumnRules(s)) /\ Len(ColumnRules(s)) = Len(s.cols)
      <4> DEFINE t == ColumnRules(s)
      <4>1. DOMAIN t = 1 .. Len(s.cols) /\ t = [i \in 1 .. Len(s.cols) |-> t[i]]
        BY <3>1
      <4> HIDE DEF t
      <4>2. IsSeq(t) /\ Len(t) = Len(s.cols)
        BY <1>3, <4>1, SeqMade
      <4> QED
        BY <4>2 DEF t
    <3> QED
      BY <2>2, <3>2
  <2> QED
    BY <2>1, <2>2
<1>5. IsSeq(s.where) /\ Len(s.where) \in Nat /\ DOMAIN s.where = 1 .. Len(s.where)
  BY DEF IsStatement, IsCondition, IsSeq
<1>6. IsSeq(WhereRules(s)) /\ Len(WhereRules(s)) = Len(s.where)
  <2> DEFINE t == WhereRules(s)
  <2>1. DOMAIN t = 1 .. Len(s.where) /\ t = [i \in 1 .. Len(s.where) |-> t[i]]
    BY <1>5 DEF WhereRules
  <2> HIDE DEF t
  <2>2. IsSeq(t) /\ Len(t) = Len(s.where)
    BY <1>5, <2>1, SeqMade
  <2> QED
    BY <2>2 DEF t
<1> QED
  BY <1>1, <1>2, <1>3, <1>4, <1>5, <1>6

\* Where the parts of a select end among its reductions.
TopEnd(s)    == Len(TopRules(s))
ColumnEnd(s) == TopEnd(s) + Len(ColumnRules(s))
TableEnd(s)  == ColumnEnd(s) + 1
WhereEnd(s)  == TableEnd(s) + Len(s.where)
LimitEnd(s)  == WhereEnd(s) + Len(LimitRules(s))
Special(s)   == s.cols \in {<<"*">>, <<"count">>}

\* The reductions of a select, part by part.
LEMMA SelectRules ==
  ASSUME NEW s, IsStatement(s), s.kind = "select"
  PROVE  /\ IsSeq(Rules(s)) /\ Len(Rules(s)) = LimitEnd(s) + 1
         /\ \A i \in 1 .. TopEnd(s) : Rules(s)[i] = TopRules(s)[i]
         /\ \A i \in 1 .. Len(ColumnRules(s)) : Rules(s)[TopEnd(s) + i] = ColumnRules(s)[i]
         /\ Rules(s)[TableEnd(s)] = TableRule(s)
         /\ \A i \in 1 .. Len(s.where) : Rules(s)[TableEnd(s) + i] = WhereRules(s)[i]
         /\ \A i \in 1 .. Len(LimitRules(s)) : Rules(s)[WhereEnd(s) + i] = LimitRules(s)[i]
         /\ Rules(s)[LimitEnd(s) + 1] = [rule |-> "select"]
<1> DEFINE A == TopRules(s)
           B == ColumnRules(s)
           T == <<TableRule(s)>>
           W == WhereRules(s)
           L == LimitRules(s)
           Z == <<[rule |-> "select"]>>
<1>1. /\ IsSeq(A) /\ IsSeq(B) /\ IsSeq(W) /\ IsSeq(L) /\ Len(W) = Len(s.where)
      /\ Len(A) \in Nat /\ Len(B) \in Nat /\ Len(W) \in Nat /\ Len(L) \in Nat
  BY PartLengths, SeqFacts
<1>2. IsSeq(T) /\ Len(T) = 1 /\ T[1] = TableRule(s) /\ IsSeq(Z) /\ Len(Z) = 1 /\ Z[1] = [rule |-> "select"]
  BY OneSeq
<1>3. Rules(s) = A \o B \o T \o W \o L \o Z
  BY DEF Rules
<1> HIDE DEF A, B, T, W, L, Z
<1> DEFINE AB == A \o B
           ABT == AB \o T
           ABTW == ABT \o W
           ABTWL == ABTW \o L
           R == ABTWL \o Z
<1>4. /\ IsSeq(AB) /\ Len(AB) = Len(A) + Len(B) /\ Len(AB) \in Nat
      /\ \A i \in 1 .. Len(A) : AB[i] = A[i]
      /\ \A i \in 1 .. Len(B) : AB[Len(A) + i] = B[i]
  BY <1>1, JoinSeq
<1> HIDE DEF AB
<1>5. /\ IsSeq(ABT) /\ Len(ABT) = Len(AB) + Len(T) /\ Len(ABT) \in Nat
      /\ \A i \in 1 .. Len(AB) : ABT[i] = AB[i]
      /\ \A i \in 1 .. Len(T) : ABT[Len(AB) + i] = T[i]
  <2>1. IsSeq(AB) /\ IsSeq(T) /\ Len(AB) \in Nat /\ Len(T) \in Nat
    BY <1>2, <1>4
  <2> QED
    BY <2>1, JoinSeq
<1> HIDE DEF ABT
<1>6. /\ IsSeq(ABTW) /\ Len(ABTW) = Len(ABT) + Len(W) /\ Len(ABTW) \in Nat
      /\ \A i \in 1 .. Len(ABT) : ABTW[i] = ABT[i]
      /\ \A i \in 1 .. Len(W) : ABTW[Len(ABT) + i] = W[i]
  <2>1. IsSeq(ABT) /\ IsSeq(W) /\ Len(ABT) \in Nat /\ Len(W) \in Nat
    BY <1>1, <1>5
  <2> QED
    BY <2>1, JoinSeq
<1> HIDE DEF ABTW
<1>7. /\ IsSeq(ABTWL) /\ Len(ABTWL) = Len(ABTW) + Len(L) /\ Len(ABTWL) \in Nat
      /\ \A i \in 1 .. Len(ABTW) : ABTWL[i] = ABTW[i]
      /\ \A i \in 1 .. Len(L) : ABTWL[Len(ABTW) + i] = L[i]
  <2>1. IsSeq(ABTW) /\ IsSeq(L) /\ Len(ABTW) \in Nat /\ Len(L) \in Nat
    BY <1>1, <1>6
  <2> QED
    BY <2>1, JoinSeq
<1> HIDE DEF ABTWL
<1>8. /\ IsSeq(R) /\ Len(R) = Len(ABTWL) + Len(Z)
      /\ \A i \in 1 .. Len(ABTWL) : R[i] = ABTWL[i]
      /\ \A i \in 1 .. Len(Z) : R[Len(ABTWL) + i] = Z[i]
  <2>1. IsSeq(ABTWL) /\ IsSeq(Z) /\ Len(ABTWL) \in Nat /\ Len(Z) \in Nat
    BY <1>2, <1>7
  <2> QED
    BY <2>1, JoinSeq
<1>9. Rules(s) = R
  BY <1>3 DEF AB, ABT, ABTW, ABTWL
<1> HIDE DEF R
<1>10. /\ Len(A) = TopEnd(s) /\ Len(AB) = ColumnEnd(s) /\ Len(ABT) = TableEnd(s)
       /\ Len(ABTW) = WhereEnd(s) /\ Len(ABTWL) = LimitEnd(s) /\ Len(B) = Len(ColumnRules(s))
       /\ Len(L) = Len(LimitRules(s))
  BY <1>1, <1>2, <1>4, <1>5, <1>6, <1>7 DEF TopEnd, ColumnEnd, TableEnd, WhereEnd, LimitEnd, A, B, L
<1>11. \A i \in 1 .. Len(ABTW) : i \in 1 .. Len(ABTWL) /\ R[i] = ABTW[i]
  BY <1>1, <1>7, <1>8
<1>12. \A i \in 1 .. Len(ABT) : i \in 1 .. Len(ABTW) /\ R[i] = ABT[i]
  BY <1>1, <1>6, <1>11
<1>13. \A i \in 1 .. Len(AB) : i \in 1 .. Len(ABT) /\ R[i] = AB[i]
  BY <1>2, <1>5, <1>12
<1>14. \A i \in 1 .. Len(A) : R[i] = A[i]
  BY <1>1, <1>4, <1>13
<1>15. ASSUME NEW i \in 1 .. Len(B) PROVE R[Len(A) + i] = B[i]
  <2>1. Len(A) + i \in 1 .. Len(AB) /\ AB[Len(A) + i] = B[i]
    BY <1>1, <1>4
  <2> QED
    BY <2>1, <1>13
<1>16. R[Len(AB) + 1] = TableRule(s)
  <2>1. 1 \in 1 .. Len(T) /\ Len(AB) + 1 \in 1 .. Len(ABT) /\ ABT[Len(AB) + 1] = T[1]
    BY <1>2, <1>4, <1>5
  <2> QED
    BY <2>1, <1>2, <1>12
<1>17. ASSUME NEW i \in 1 .. Len(W) PROVE R[Len(ABT) + i] = W[i]
  <2>1. Len(ABT) \in Nat /\ Len(W) \in Nat
    BY <1>1, <1>5
  <2>2. Len(ABT) + i \in 1 .. Len(ABTW)
    BY <2>1, <1>6
  <2>3. ABTW[Len(ABT) + i] = W[i]
    BY <1>6
  <2> QED
    BY <2>2, <2>3, <1>11
<1>18. ASSUME NEW i \in 1 .. Len(L) PROVE R[Len(ABTW) + i] = L[i]
  <2>1. Len(ABTW) + i \in 1 .. Len(ABTWL) /\ ABTWL[Len(ABTW) + i] = L[i]
    BY <1>1, <1>6, <1>7, SMTT(20)
  <2> QED
    BY <2>1, <1>8
<1>19. IsSeq(R) /\ Len(R) = Len(ABTWL) + 1 /\ R[Len(ABTWL) + 1] = [rule |-> "select"]
  BY <1>2, <1>8
<1>20. Len(AB) + 1 = TableEnd(s)
  BY <1>10 DEF TableEnd
<1> QED
  BY <1>1, <1>9, <1>10, <1>14, <1>15, <1>16, <1>17, <1>18, <1>19, <1>20 DEF A, B, W, L

\* Where the reduction r stands among those of a statement, and what it carries.
Conditional == {"not", "and", "or", "strptime", "sarg", "const"}
Final       == {"select", "describe", "list", "connect", "disconnect"}
Known       == Conditional \cup Final \cup {"top", "column", "*", "count", "table", "limit"}
RuleIs(s, i, r) ==
  /\ r.rule = "top" => s.kind = "select" /\ i = 1 /\ TopEnd(s) = 1 /\ s.top.n # -1
                       /\ r.n = s.top.n /\ r.percent = s.top.percent
  /\ r.rule = "column" => s.kind = "select" /\ ~Special(s) /\ i - TopEnd(s) \in 1 .. Len(s.cols)
                          /\ i <= ColumnEnd(s) /\ r.name = s.cols[i - TopEnd(s)]
  /\ r.rule \in {"*", "count"} => s.kind = "select" /\ s.cols = <<r.rule>> /\ i = ColumnEnd(s)
  /\ r.rule = "table" => /\ r.name = s.from
                         /\ \/ s.kind = "select" /\ i = TableEnd(s)
                            \/ s.kind = "describe" /\ i = 1
  /\ r.rule \in Conditional => s.kind = "select" /\ i - TableEnd(s) \in 1 .. Len(s.where)
                               /\ r = Reduction(s.where[i - TableEnd(s)])
  /\ r.rule = "limit" => s.kind = "select" /\ i = WhereEnd(s) + 1 /\ i = LimitEnd(s)
                         /\ s.limit # -1 /\ r.n = s.limit
  /\ r.rule \in Final => s.kind = r.rule /\ i = Len(Rules(s))
  /\ r.rule = "select" => i = LimitEnd(s) + 1
  /\ r.rule = "describe" => i = 2
  /\ r.rule = "connect" => r.found = s.found
  /\ r.rule \in Known

\* The ends of the parts of a select, and the rule of each condition.
LEMMA EndsAre ==
  ASSUME NEW s, IsStatement(s), s.kind = "select"
  PROVE  /\ TopEnd(s) \in {0, 1} /\ (TopEnd(s) = 1 <=> s.top.n # -1)
         /\ Special(s) => ColumnEnd(s) = TopEnd(s) + 1
         /\ ~Special(s) => ColumnEnd(s) = TopEnd(s) + Len(s.cols)
         /\ TableEnd(s) = ColumnEnd(s) + 1
         /\ WhereEnd(s) = TableEnd(s) + Len(s.where)
         /\ LimitEnd(s) \in {WhereEnd(s), WhereEnd(s) + 1} /\ (LimitEnd(s) = WhereEnd(s) <=> s.limit = -1)
         /\ Len(s.cols) \in Nat /\ Len(s.cols) >= 1 /\ Len(s.where) \in Nat
         /\ TopEnd(s) \in Nat /\ ColumnEnd(s) \in Nat /\ TableEnd(s) \in Nat
         /\ WhereEnd(s) \in Nat /\ LimitEnd(s) \in Nat
<1>1. Len(s.where) \in Nat
  BY PartLengths, SeqFacts
<1>2. Len(s.cols) \in Nat /\ Len(s.cols) >= 1
  BY PartLengths
<1>3. TopEnd(s) \in {0, 1} /\ (TopEnd(s) = 1 <=> s.top.n # -1)
  <2>1. Len(TopRules(s)) \in {0, 1} /\ (Len(TopRules(s)) = 1 <=> s.top.n # -1)
    <3>1. CASE s.top.n = -1
      BY <3>1, NoSeq DEF TopRules
    <3>2. CASE s.top.n # -1
      BY <3>2, OneSeq DEF TopRules
    <3> QED
      BY <3>1, <3>2
  <2> QED
    BY <2>1 DEF TopEnd
<1>4. /\ Special(s) => ColumnEnd(s) = TopEnd(s) + 1
      /\ ~Special(s) => ColumnEnd(s) = TopEnd(s) + Len(s.cols)
  BY PartLengths DEF Special, ColumnEnd
<1>5. ColumnEnd(s) \in Nat /\ TableEnd(s) = ColumnEnd(s) + 1 /\ WhereEnd(s) = TableEnd(s) + Len(s.where)
  BY <1>2, <1>3, <1>4 DEF TableEnd, WhereEnd
<1>6. TableEnd(s) \in Nat /\ WhereEnd(s) \in Nat
  BY <1>1, <1>5
<1>7. Len(LimitRules(s)) \in {0, 1} /\ (Len(LimitRules(s)) = 0 <=> s.limit = -1)
  BY PartLengths
<1>8. LimitEnd(s) \in {WhereEnd(s), WhereEnd(s) + 1} /\ (LimitEnd(s) = WhereEnd(s) <=> s.limit = -1)
  <2>1. LimitEnd(s) = WhereEnd(s) + Len(LimitRules(s))
    BY DEF LimitEnd
  <2>2. CASE Len(LimitRules(s)) = 0
    BY <1>6, <1>7, <2>1, <2>2
  <2>3. CASE Len(LimitRules(s)) = 1
    BY <1>6, <1>7, <2>1, <2>3
  <2> QED
    BY <1>7, <2>2, <2>3
<1> QED
  BY <1>1, <1>2, <1>3, <1>4, <1>5, <1>6, <1>8

LEMMA ReductionRule ==
  ASSUME NEW s, IsStatement(s), s.kind = "select", NEW i \in 1 .. Len(s.where)
  PROVE  Reduction(s.where[i]).rule \in Conditional
<1>1. s.where[i].k \in Operators \cup {"cmp", "flip", "null", "const", "strptime"}
  BY SeqFacts, PartLengths DEF IsStatement, IsCondition
<1>2. CASE s.where[i].k \in {"not", "and", "or", "strptime"}
  BY <1>2 DEF Reduction, Conditional
<1>3. CASE s.where[i].k \in {"cmp", "flip"}
  BY <1>3 DEF Reduction, Conditional
<1>4. CASE s.where[i].k = "null"
  BY <1>4 DEF Reduction, Conditional
<1>5. CASE s.where[i].k = "const"
  BY <1>5 DEF Reduction, Conditional
<1> QED
  BY <1>1, <1>2, <1>3, <1>4, <1>5 DEF Operators

\* Every reduction of a statement is one of those.
LEMMA RulesAre ==
  ASSUME NEW s, IsStatement(s)
  PROVE  IsSeq(Rules(s)) /\ \A i \in 1 .. Len(Rules(s)) : RuleIs(s, i, Rules(s)[i])
<1>1. CASE s.kind = "select"
  <2>1. /\ IsSeq(Rules(s)) /\ Len(Rules(s)) = LimitEnd(s) + 1
        /\ \A i \in 1 .. TopEnd(s) : Rules(s)[i] = TopRules(s)[i]
        /\ \A i \in 1 .. Len(ColumnRules(s)) : Rules(s)[TopEnd(s) + i] = ColumnRules(s)[i]
        /\ Rules(s)[TableEnd(s)] = TableRule(s)
        /\ \A i \in 1 .. Len(s.where) : Rules(s)[TableEnd(s) + i] = WhereRules(s)[i]
        /\ \A i \in 1 .. Len(LimitRules(s)) : Rules(s)[WhereEnd(s) + i] = LimitRules(s)[i]
        /\ Rules(s)[LimitEnd(s) + 1] = [rule |-> "select"]
    BY <1>1, SelectRules
  <2>2. /\ TopEnd(s) \in {0, 1} /\ (TopEnd(s) = 1 <=> s.top.n # -1)
        /\ Special(s) => ColumnEnd(s) = TopEnd(s) + 1
        /\ ~Special(s) => ColumnEnd(s) = TopEnd(s) + Len(s.cols)
        /\ TableEnd(s) = ColumnEnd(s) + 1
        /\ WhereEnd(s) = TableEnd(s) + Len(s.where)
        /\ LimitEnd(s) \in {WhereEnd(s), WhereEnd(s) + 1} /\ (LimitEnd(s) = WhereEnd(s) <=> s.limit = -1)
        /\ Len(s.cols) \in Nat /\ Len(s.cols) >= 1 /\ Len(s.where) \in Nat
        /\ TopEnd(s) \in Nat /\ ColumnEnd(s) \in Nat /\ TableEnd(s) \in Nat
        /\ WhereEnd(s) \in Nat /\ LimitEnd(s) \in Nat
    BY <1>1, EndsAre
  <2> SUFFICES ASSUME NEW i \in 1 .. LimitEnd(s) + 1 PROVE RuleIs(s, i, Rules(s)[i])
    BY <2>1
  <2> DEFINE r == Rules(s)[i]
  <2>9. /\ i \in Nat /\ TopEnd(s) \in Nat /\ ColumnEnd(s) \in Nat /\ TableEnd(s) \in Nat
        /\ WhereEnd(s) \in Nat /\ LimitEnd(s) \in Nat /\ Len(s.cols) \in Nat /\ Len(s.where) \in Nat
    BY <2>2
  <2>3. CASE i <= TopEnd(s)
    <3>1. i = 1 /\ s.top.n # -1 /\ TopEnd(s) = 1
      BY <2>2, <2>3, SMTT(20)
    <3>2. r = [rule |-> "top", n |-> s.top.n, percent |-> s.top.percent]
      BY <2>1, <3>1 DEF TopRules
    <3> HIDE DEF r
    <3> QED
      BY <1>1, <3>1, <3>2 DEF RuleIs, Known, Conditional, Final, r
  <2>4. CASE i > TopEnd(s) /\ i <= ColumnEnd(s)
    <3>1. i - TopEnd(s) \in 1 .. Len(ColumnRules(s)) /\ i = TopEnd(s) + (i - TopEnd(s))
      BY <2>2, <2>4 DEF ColumnEnd, TopEnd
    <3>2. r = ColumnRules(s)[i - TopEnd(s)]
      BY <2>1, <3>1
    <3>3. CASE Special(s)
      <4>1. r = [rule |-> s.cols[1]] /\ i = ColumnEnd(s)
        BY <2>2, <3>1, <3>2, <3>3, SMTT(20) DEF Special, ColumnRules, ColumnEnd
      <4>2. (r.rule = "*" \/ r.rule = "count") /\ s.cols = <<r.rule>>
        BY <3>3, <4>1 DEF Special
      <4> HIDE DEF r
      <4> QED
        BY <1>1, <4>1, <4>2 DEF RuleIs, Known, Conditional, Final, r
    <3>4. CASE ~Special(s)
      <4>1. i - TopEnd(s) \in 1 .. Len(s.cols)
        <5>1. ColumnEnd(s) = TopEnd(s) + Len(s.cols)
          BY <2>2, <3>4
        <5> QED
          BY <2>4, <2>9, <5>1
      <4>2. DOMAIN s.cols = 1 .. Len(s.cols)
        BY <1>1 DEF IsStatement
      <4>3. r = [rule |-> "column", name |-> s.cols[i - TopEnd(s)]]
        BY <3>2, <3>4, <4>1, <4>2 DEF Special, ColumnRules
      <4> HIDE DEF r
      <4> QED
        BY <1>1, <2>4, <3>4, <4>1, <4>3 DEF RuleIs, Known, Conditional, Final, r
    <3> QED
      BY <3>3, <3>4
  <2>5. CASE i = TableEnd(s)
    <3>1. r = [rule |-> "table", name |-> s.from]
      BY <2>1, <2>5 DEF TableRule
    <3> HIDE DEF r
    <3> QED
      BY <1>1, <2>5, <3>1 DEF RuleIs, Known, Conditional, Final, r
  <2>6. CASE i > TableEnd(s) /\ i <= WhereEnd(s)
    <3>1. i - TableEnd(s) \in 1 .. Len(s.where) /\ i = TableEnd(s) + (i - TableEnd(s))
      <4>1. WhereEnd(s) = TableEnd(s) + Len(s.where)
        BY <2>2
      <4> QED
        BY <2>6, <2>9, <4>1
    <3>2. r = WhereRules(s)[i - TableEnd(s)]
      BY <2>1, <3>1
    <3>3. DOMAIN s.where = 1 .. Len(s.where)
      BY <1>1, PartLengths, SeqFacts
    <3>4. r = Reduction(s.where[i - TableEnd(s)])
      BY <3>1, <3>2, <3>3 DEF WhereRules
    <3>5. r.rule \in Conditional
      BY <1>1, <3>1, <3>4, ReductionRule
    <3> HIDE DEF r
    <3> QED
      BY <1>1, <3>1, <3>4, <3>5 DEF RuleIs, Known, Conditional, Final, r
  <2>7. CASE i > WhereEnd(s) /\ i <= LimitEnd(s)
    <3>1. i = WhereEnd(s) + 1 /\ i = LimitEnd(s) /\ s.limit # -1 /\ 1 \in 1 .. Len(LimitRules(s))
      <4>1. LimitEnd(s) \in {WhereEnd(s), WhereEnd(s) + 1} /\ (LimitEnd(s) = WhereEnd(s) <=> s.limit = -1)
        BY <2>2
      <4>2. LimitEnd(s) = WhereEnd(s) + 1 /\ s.limit # -1 /\ i = LimitEnd(s)
        BY <2>7, <2>9, <4>1
      <4>3. Len(LimitRules(s)) = 1
        BY <1>1, <4>2, PartLengths
      <4> QED
        BY <4>2, <4>3
    <3>2. r = LimitRules(s)[1]
      BY <2>1, <3>1
    <3>3. r = [rule |-> "limit", n |-> s.limit]
      BY <3>1, <3>2 DEF LimitRules
    <3> HIDE DEF r
    <3> QED
      BY <1>1, <3>1, <3>3 DEF RuleIs, Known, Conditional, Final, r
  <2>8. CASE i = LimitEnd(s) + 1
    <3>1. r = [rule |-> "select"] /\ i = Len(Rules(s))
      BY <2>1, <2>8
    <3> HIDE DEF r
    <3> QED
      BY <1>1, <2>8, <3>1 DEF RuleIs, Known, Conditional, Final, r
  <2> QED
    BY <2>2, <2>3, <2>4, <2>5, <2>6, <2>7, <2>8
<1>2. CASE s.kind = "describe"
  <2>1. Rules(s) = <<TableRule(s), [rule |-> "describe"]>>
    BY <1>2 DEF Rules
  <2>2. Rules(s) \in Seq({TableRule(s), [rule |-> "describe"]})
    BY <2>1
  <2>3. Len(Rules(s)) = 2 /\ Rules(s)[1] = TableRule(s) /\ Rules(s)[2] = [rule |-> "describe"]
    BY <2>1
  <2>4. RuleIs(s, 1, Rules(s)[1])
    BY <1>2, <2>3 DEF RuleIs, Known, Conditional, Final, TableRule
  <2>5. RuleIs(s, 2, Rules(s)[2])
    BY <1>2, <2>3 DEF RuleIs, Known, Conditional, Final
  <2> QED
    BY <2>2, <2>3, <2>4, <2>5, SeqHere
<1>3. CASE s.kind \in {"connect", "list", "disconnect"}
  <2> DEFINE r == IF s.kind = "connect" THEN [rule |-> "connect", found |-> s.found] ELSE [rule |-> s.kind]
  <2>1. Rules(s) = <<r>>
    BY <1>3 DEF Rules
  <2>2. /\ r.rule = s.kind
        /\ s.kind = "connect" => r.found = s.found
    BY <1>3
  <2> HIDE DEF r
  <2>3. IsSeq(Rules(s)) /\ Len(Rules(s)) = 1 /\ Rules(s)[1] = r
    BY <2>1, OneSeq
  <2>4. RuleIs(s, 1, r)
    BY <1>3, <2>2, <2>3 DEF RuleIs, Known, Conditional, Final
  <2> QED
    BY <2>3, <2>4
<1> QED
  BY <1>1, <1>2, <1>3 DEF IsStatement

\* What the parser reduces at a place: the rule of the statement, or the error.
LEMMA ParseAt ==
  ASSUME NEW s, IsStatement(s)
  PROVE  /\ IsSeq(Parse(s))
         /\ \A i \in 1 .. Len(Parse(s)) :
              \/ /\ RuleIs(s, i, Parse(s)[i])
                 /\ IF Whole(s) THEN Len(Parse(s)) = Len(Rules(s))
                    ELSE i < Len(Rules(s)) /\ i < Len(Parse(s))
              \/ Parse(s)[i] = [rule |-> "error"] /\ i = Len(Parse(s)) /\ ~Whole(s)
<1>1. IsSeq(Rules(s)) /\ Len(Rules(s)) \in Nat /\ \A i \in 1 .. Len(Rules(s)) : RuleIs(s, i, Rules(s)[i])
  BY RulesAre, SeqFacts
<1>2. CASE Whole(s)
  <2>1. Parse(s) = Rules(s)
    BY <1>2 DEF Parse
  <2> QED
    BY <1>1, <1>2, <2>1
<1>3. CASE ~Whole(s)
  <2> DEFINE prefix == SubSeq(Rules(s), 1, s.cut)
  <2>1. s.cut \in 0 .. Len(Rules(s)) /\ s.cut < Len(Rules(s))
    BY <1>1, <1>3 DEF Whole, IsStatement
  <2>2. IsSeq(prefix) /\ Len(prefix) = s.cut /\ \A i \in 1 .. s.cut : prefix[i] = Rules(s)[i]
    BY <1>1, <2>1, PrefixSeq
  <2> HIDE DEF prefix
  <2>3. Parse(s) = Append(prefix, [rule |-> "error"])
    BY <1>3 DEF Parse, prefix
  <2>4. /\ IsSeq(Parse(s)) /\ Len(Parse(s)) = s.cut + 1
        /\ \A i \in 1 .. s.cut : Parse(s)[i] = prefix[i]
        /\ Parse(s)[s.cut + 1] = [rule |-> "error"]
    BY <2>2, <2>3, AppendSeq
  <2>5. ASSUME NEW i \in 1 .. s.cut
        PROVE  RuleIs(s, i, Parse(s)[i]) /\ i < Len(Rules(s)) /\ i < Len(Parse(s))
    <3>1. i \in 1 .. Len(Rules(s)) /\ Parse(s)[i] = Rules(s)[i]
      BY <1>1, <2>1, <2>2, <2>4
    <3>2. RuleIs(s, i, Rules(s)[i])
      BY <1>1, <3>1
    <3> QED
      BY <2>1, <2>4, <3>1, <3>2
  <2> QED
    BY <1>3, <2>1, <2>4, <2>5
<1> QED
  BY <1>2, <1>3

-----------------------------------------------------------------------------
(* The parse *)

\* The reductions done.
Done == Len(Parse(stmt)) - Len(todo)

\* The statement is one of those with its catalog, and what is still to do is the end of
\* what it is parsed into.
TodoInv ==
  /\ pc \in {"none", "parse", "opened", "query", "fetch", "end", "closed", "failed"}
  /\ pc # "none" => \E s \in Queries : stmt = s.stmt /\ catalog = s.catalog
  /\ IsSeq(todo)
  /\ pc # "parse" => todo = <<>>
  /\ pc = "parse" => /\ Len(todo) <= Len(Parse(stmt))
                     /\ \A i \in 1 .. Len(todo) : todo[i] = Parse(stmt)[Done + i]

\* A query has a table only when the last reduction is done, and until it is closed.
Fields == {"mdb", "err", "cur", "columns", "tables", "tree", "stack", "all", "count", "limit",
           "percent", "row_count", "values"}
TableFields == {"name", "temp", "types", "order", "pg", "nrows", "map", "pages", "tree", "bind"}
CurInv ==
  /\ DOMAIN q = Fields /\ DOMAIN table = TableFields
  /\ q.cur \in BOOLEAN
  /\ q.cur => todo = <<>>
  /\ ~q.cur => table = NoTable
  /\ pc \in {"none", "closed", "failed"} => ~q.cur

ParseInv == TodoInv /\ CurInv

LEMMA Described ==
  ASSUME TodoInv, pc # "none"
  PROVE  IsStatement(stmt) /\ IsCatalog(catalog)
  BY QueriesAssumption DEF TodoInv

\* The reduction that is next.
LEMMA NextRule ==
  ASSUME TodoInv, pc = "parse", todo # <<>>
  PROVE  /\ Done \in Nat /\ Done + 1 \in 1 .. Len(Parse(stmt)) /\ IsSeq(Parse(stmt))
         /\ \/ /\ RuleIs(stmt, Done + 1, Head(todo))
               /\ IF Whole(stmt) THEN Len(Parse(stmt)) = Len(Rules(stmt))
                  ELSE Done + 1 < Len(Rules(stmt)) /\ Done + 1 < Len(Parse(stmt))
            \/ Head(todo) = [rule |-> "error"] /\ Done + 1 = Len(Parse(stmt)) /\ ~Whole(stmt)
         /\ IsSeq(Tail(todo)) /\ Len(Parse(stmt)) - Len(Tail(todo)) = Done + 1
         /\ Len(Tail(todo)) = Len(Parse(stmt)) - (Done + 1)
         /\ \A i \in 1 .. Len(Tail(todo)) : Tail(todo)[i] = Parse(stmt)[Done + 1 + i]
         /\ Tail(todo) = <<>> <=> Done + 1 = Len(Parse(stmt))
         /\ Head(todo).rule \in Final \cup {"error"} => Tail(todo) = <<>>
<1>1. IsStatement(stmt)
  BY Described
<1>2. IsSeq(Parse(stmt)) /\ Len(Parse(stmt)) \in Nat
  BY <1>1, ParseAt, SeqFacts
<1>3. IsSeq(todo) /\ Len(todo) \in Nat /\ Len(todo) >= 1 /\ Head(todo) = todo[1] /\ IsSeq(Tail(todo))
      /\ Len(Tail(todo)) = Len(todo) - 1
      /\ \A i \in 1 .. Len(todo) - 1 : Tail(todo)[i] = todo[i + 1]
  BY TailSeq, SeqFacts DEF TodoInv
<1>4. Len(todo) <= Len(Parse(stmt)) /\ \A i \in 1 .. Len(todo) : todo[i] = Parse(stmt)[Done + i]
  BY DEF TodoInv
<1>5. Done \in Nat /\ Done + 1 \in 1 .. Len(Parse(stmt)) /\ Done + Len(todo) = Len(Parse(stmt))
  BY <1>2, <1>3, <1>4 DEF Done
<1>6. Head(todo) = Parse(stmt)[Done + 1]
  BY <1>3, <1>4
<1>7. \/ /\ RuleIs(stmt, Done + 1, Head(todo))
         /\ IF Whole(stmt) THEN Len(Parse(stmt)) = Len(Rules(stmt))
            ELSE Done + 1 < Len(Rules(stmt)) /\ Done + 1 < Len(Parse(stmt))
      \/ Head(todo) = [rule |-> "error"] /\ Done + 1 = Len(Parse(stmt)) /\ ~Whole(stmt)
  BY <1>1, <1>5, <1>6, ParseAt
<1>8. Len(Tail(todo)) \in Nat /\ Len(Tail(todo)) = Len(Parse(stmt)) - (Done + 1)
      /\ Len(Parse(stmt)) - Len(Tail(todo)) = Done + 1
  BY <1>2, <1>3, <1>5
<1>9. ASSUME NEW i \in 1 .. Len(Tail(todo)) PROVE Tail(todo)[i] = Parse(stmt)[Done + 1 + i]
  <2>1. i \in 1 .. Len(todo) - 1 /\ i + 1 \in 1 .. Len(todo) /\ Done + (i + 1) = Done + 1 + i
    BY <1>2, <1>3, <1>5
  <2> QED
    BY <2>1, <1>3, <1>4
<1>10. Tail(todo) = <<>> <=> Len(Tail(todo)) = 0
  <2>1. Tail(todo) \in Seq(ToSet(Tail(todo)))
    BY <1>3 DEF IsSeq
  <2> QED
    BY <2>1, EmptySeq
<1>11. Tail(todo) = <<>> <=> Done + 1 = Len(Parse(stmt))
  <2>1. Len(Tail(todo)) = 0 <=> Done + 1 = Len(Parse(stmt))
    <3> DEFINE left == Len(Tail(todo))
               all  == Len(Parse(stmt))
               i    == Done + 1
    <3>1. left = all - i /\ left \in Nat /\ all \in Nat /\ i \in Nat
      BY <1>2, <1>5, <1>8
    <3> HIDE DEF left, all, i
    <3>2. left = 0 <=> i = all
      BY <3>1
    <3> QED
      BY <3>2 DEF left, all, i
  <2> QED
    BY <1>10, <2>1, Zenon
<1>12. ASSUME Head(todo).rule \in Final \cup {"error"} PROVE Tail(todo) = <<>>
  <2>1. CASE Head(todo) = [rule |-> "error"] /\ Done + 1 = Len(Parse(stmt))
    BY <2>1, <1>11
  <2>2. CASE RuleIs(stmt, Done + 1, Head(todo))
    <3>1. Head(todo).rule \in Final /\ Done + 1 = Len(Rules(stmt))
      BY <1>12, <2>2 DEF RuleIs, Known, Conditional, Final
    <3>2. Done + 1 = Len(Parse(stmt))
      <4>1. Len(Rules(stmt)) \in Nat
        BY <1>1, RulesAre, SeqFacts
      <4> QED
        BY <1>5, <1>7, <3>1, <4>1 DEF Final
    <3> QED
      BY <1>11, <3>2
  <2> QED
    BY <1>7, <2>1, <2>2
<1> QED
  BY <1>2, <1>3, <1>5, <1>7, <1>8, <1>9, <1>11, <1>12

\* A reduction keeps TodoInv.
LEMMA ReducingKeepsTodo ==
  ASSUME TodoInv, NEW rule, Reducing(rule)
  PROVE  TodoInv' /\ Done' = Done + 1
<1>1. pc = "parse" /\ todo # <<>> /\ todo' = Tail(todo) /\ UNCHANGED <<stmt, catalog, pc>>
  BY DEF Reducing
<1>2. Done' = Done + 1
  BY <1>1, NextRule DEF Done
<1>3. Len(todo') <= Len(Parse(stmt))
  <2>1. Len(todo') = Len(Parse(stmt)) - (Done + 1) /\ Done \in Nat /\ Len(Parse(stmt)) \in Nat
    BY <1>1, NextRule, SeqFacts
  <2> QED
    BY <2>1
<1>4. IsSeq(todo') /\ \A i \in 1 .. Len(todo') : todo'[i] = Parse(stmt)[Done' + i]
  BY <1>1, <1>2, NextRule
<1>5. IsSeq(todo)'
  BY <1>4 DEF IsSeq
<1>6. Parse(stmt)' = Parse(stmt)
  BY <1>1 DEF Parse, Whole, Rules, TopRules, ColumnRules, TableRule, WhereRules, LimitRules
<1> QED
  BY <1>1, <1>2, <1>3, <1>4, <1>5, <1>6 DEF TodoInv

LEMMA NoTableIs == DOMAIN NoTable = TableFields /\ NoTable.tree = 0 /\ NoTable.name = ""
  BY DEF NoTable, TableFields

LEMMA TempTableIs ==
  ASSUME NEW cols, NEW rows
  PROVE  LET t == TempTable(cols, rows)
         IN  /\ DOMAIN t = TableFields /\ t.tree = 0 /\ t.name = "#temp" /\ t.order = cols
             /\ t.types = [c \in ToSet(cols) |-> "TEXT"]
  BY DEF TempTable, NoTable, TableFields

LEMMA SetTempIs ==
  ASSUME DOMAIN q = Fields, NEW cols, NEW rows, SetTemp(cols, rows)
  PROVE  /\ DOMAIN q' = Fields /\ q'.cur = TRUE /\ q'.columns = q.columns \o cols
         /\ q'.mdb = q.mdb /\ q'.err = q.err /\ q'.tables = q.tables /\ q'.tree = q.tree
         /\ q'.stack = q.stack /\ q'.limit = q.limit
         /\ DOMAIN table' = TableFields /\ table'.tree = 0 /\ table'.name = "#temp"
         /\ table'.types = [c \in ToSet(cols) |-> "TEXT"]
<1>1. /\ DOMAIN q' = Fields /\ q'.cur = TRUE /\ q'.columns = q.columns \o cols
      /\ q'.mdb = q.mdb /\ q'.err = q.err /\ q'.tables = q.tables /\ q'.tree = q.tree
      /\ q'.stack = q.stack /\ q'.limit = q.limit
  BY DEF SetTemp, Fields
<1>2. table' = TempTable(cols, rows)
  BY DEF SetTemp
<1> QED
  BY <1>1, <1>2, TempTableIs

\* A reset leaves the handle, the error and the percent flag.
LEMMA ResetIs ==
  ASSUME NEW s, DOMAIN s = Fields
  PROVE  LET r == mdb_sql_reset(s)
         IN  /\ DOMAIN r = Fields
             /\ r.mdb = s.mdb /\ r.err = s.err /\ r.percent = s.percent
             /\ r.cur = FALSE /\ r.columns = <<>> /\ r.tables = <<>> /\ r.tree = 0
             /\ r.stack = <<>> /\ r.all = FALSE /\ r.count = FALSE /\ r.limit = -1
             /\ r.values = <<>>
  BY DEF mdb_sql_reset, mdb_sql_init, Fields

LEMMA ResetWithIs ==
  ASSUME CurInv, ~q.cur, NEW e, ResetWith(e)
  PROVE  /\ DOMAIN q' = Fields
         /\ q'.mdb = q.mdb /\ q'.err = e /\ q'.percent = q.percent
         /\ q'.cur = FALSE /\ q'.columns = <<>> /\ q'.tables = <<>> /\ q'.tree = 0
         /\ q'.stack = <<>> /\ q'.all = FALSE /\ q'.count = FALSE /\ q'.limit = -1
         /\ q'.values = <<>>
         /\ dead' = dead \cup Freed(q) /\ held' = held /\ table' = NoTable /\ table = NoTable
<1> DEFINE s == [q EXCEPT !.err = e]
<1>1. DOMAIN s = Fields /\ s.err = e /\ s.mdb = q.mdb /\ s.percent = q.percent
  BY DEF CurInv, Fields
<1>2. q' = mdb_sql_reset(s)
  BY DEF ResetWith
<1> HIDE DEF s
<1>3. /\ DOMAIN q' = Fields
      /\ q'.mdb = q.mdb /\ q'.err = e /\ q'.percent = q.percent
      /\ q'.cur = FALSE /\ q'.columns = <<>> /\ q'.tables = <<>> /\ q'.tree = 0
      /\ q'.stack = <<>> /\ q'.all = FALSE /\ q'.count = FALSE /\ q'.limit = -1
      /\ q'.values = <<>>
  BY <1>1, <1>2, ResetIs
<1>4. dead' = dead \cup Freed(q) /\ held' = held /\ table' = NoTable /\ table = NoTable
  BY DEF ResetWith, CurInv
<1> QED
  BY <1>3, <1>4

LEMMA ReducesOne == ASSUME Reduce PROVE Reducing(Head(todo).rule)
  BY DEF Reduce, Reducing, mdb_sql_add_limit, mdb_sql_get_limit, mdb_sql_add_column, mdb_sql_all_columns,
         mdb_sql_sel_count, mdb_sql_add_table, mdb_sql_add_sarg, mdb_sql_eval_expr, mdb_sql_strptime,
         mdb_sql_add_not, mdb_sql_add_and, mdb_sql_add_or, AddBinary, yyerrlab, mdb_sql_open, mdb_sql_close,
         mdb_sql_listtables, mdb_sql_describe_table, mdb_sql_select

\* What every reduction does to q.cur and the table.
LEMMA ReduceKeepsCur ==
  ASSUME ParseInv, Reduce
  PROVE  CurInv'
<1>1. pc = "parse" /\ pc' = pc /\ todo # <<>> /\ todo' = Tail(todo)
  BY ReducesOne DEF Reducing
<1>2. ~q.cur /\ q.cur = FALSE /\ table = NoTable /\ DOMAIN q = Fields /\ CurInv
  BY <1>1 DEF ParseInv, CurInv
<1>3. ASSUME DOMAIN q' = Fields, q'.cur = FALSE, table' = NoTable PROVE CurInv'
  BY <1>1, <1>3, NoTableIs DEF CurInv
<1>4. ASSUME NEW e, ResetWith(e) PROVE CurInv'
  BY <1>2, <1>3, <1>4, ResetWithIs
<1>5. ASSUME DOMAIN q' = Fields, DOMAIN table' = TableFields, q'.cur = TRUE, Head(todo).rule \in Final
      PROVE  CurInv'
  BY <1>1, <1>5, NextRule DEF CurInv, ParseInv
<1>6. ASSUME NEW cols, NEW rows, SetTemp(cols, rows), Head(todo).rule \in Final PROVE CurInv'
  <2>1. DOMAIN q' = Fields /\ q'.cur = TRUE /\ DOMAIN table' = TableFields
    BY <1>2, <1>6, SetTempIs
  <2> QED
    BY <1>5, <1>6, <2>1
<1>7. CASE mdb_sql_add_limit
  BY <1>2, <1>3, <1>7 DEF mdb_sql_add_limit, KeepMemory, Fields
<1>8. CASE mdb_sql_get_limit
  BY <1>2, <1>3, <1>8 DEF mdb_sql_get_limit, KeepMemory, Fields
<1>9. CASE mdb_sql_add_column
  BY <1>2, <1>3, <1>9 DEF mdb_sql_add_column, KeepMemory, Fields
<1>10. CASE mdb_sql_all_columns
  BY <1>2, <1>3, <1>10 DEF mdb_sql_all_columns, KeepMemory, Fields
<1>11. CASE mdb_sql_sel_count
  BY <1>2, <1>3, <1>11 DEF mdb_sql_sel_count, KeepMemory, Fields
<1>12. CASE mdb_sql_add_table
  BY <1>2, <1>3, <1>12 DEF mdb_sql_add_table, KeepMemory, Fields
<1>13. CASE mdb_sql_add_sarg
  BY <1>2, <1>3, <1>13 DEF mdb_sql_add_sarg, mdb_sql_push_node, AddNode, Fields
<1>14. CASE mdb_sql_eval_expr
  <2>1. CASE ResetWith("literals")
    BY <1>4, <2>1
  <2>2. CASE q' = mdb_sql_push_node(q, Len(heap')) /\ UNCHANGED table
    BY <1>2, <1>3, <2>2 DEF mdb_sql_push_node, Fields
  <2> QED
    BY <1>14, <2>1, <2>2 DEF mdb_sql_eval_expr, AddNode
<1>15. CASE mdb_sql_strptime
  BY <1>4, <1>15 DEF mdb_sql_strptime
<1>16. CASE mdb_sql_add_not
  <2>1. CASE ResetWith("parse")
    BY <1>4, <2>1
  <2>2. CASE q' = mdb_sql_push_node(mdb_sql_pop_node(q), Len(heap')) /\ UNCHANGED table
    BY <1>2, <1>3, <2>2 DEF mdb_sql_push_node, mdb_sql_pop_node, Fields
  <2> QED
    BY <1>16, <2>1, <2>2 DEF mdb_sql_add_not, AddNode
<1>17. ASSUME NEW rule, NEW op, AddBinary(rule, op) PROVE CurInv'
  <2>1. CASE ResetWith("parse")
    BY <1>4, <2>1
  <2>2. CASE q' = mdb_sql_push_node(mdb_sql_pop_node(mdb_sql_pop_node(q)), Len(heap')) /\ UNCHANGED table
    BY <1>2, <1>3, <2>2 DEF mdb_sql_push_node, mdb_sql_pop_node, Fields
  <2> QED
    BY <1>17, <2>1, <2>2 DEF AddBinary, AddNode
<1>18. CASE yyerrlab
  BY <1>4, <1>18 DEF yyerrlab
<1>19. CASE mdb_sql_open
  BY <1>2, <1>3, <1>19 DEF mdb_sql_open, Fields
<1>20. CASE mdb_sql_close
  BY <1>2, <1>3, <1>20 DEF mdb_sql_close, Fields
<1>21. CASE mdb_sql_listtables
  BY <1>6, <1>21 DEF mdb_sql_listtables, Reducing, Final
<1>22. CASE mdb_sql_describe_table
  <2>1. Head(todo).rule \in Final
    BY <1>22 DEF mdb_sql_describe_table, Reducing, Final
  <2>2. \/ ResetWith("table")
        \/ q' = mdb_sql_reset([q EXCEPT !.err = "columns"]) /\ UNCHANGED table
        \/ \E cols, rows : SetTemp(cols, rows)
    BY <1>22 DEF mdb_sql_describe_table
  <2>3. CASE q' = mdb_sql_reset([q EXCEPT !.err = "columns"]) /\ UNCHANGED table
    <3>1. DOMAIN [q EXCEPT !.err = "columns"] = Fields
      BY <1>2
    <3> QED
      BY <1>2, <1>3, <2>3, <3>1, ResetIs
  <2> QED
    BY <1>4, <1>6, <2>1, <2>2, <2>3
<1>23. CASE mdb_sql_select
  <2>1. Head(todo).rule \in Final
    BY <1>23 DEF mdb_sql_select, Reducing, Final
  <2>2. \/ UNCHANGED <<q, table>>
        \/ ResetWith("table")
        \/ q' = mdb_sql_reset([q EXCEPT !.err = "columns"]) /\ UNCHANGED table
        \/ Select(catalog[Min(Named(q.tables[1]))])
    BY <1>23 DEF mdb_sql_select, KeepMemory
  <2>3. CASE q' = mdb_sql_reset([q EXCEPT !.err = "columns"]) /\ UNCHANGED table
    <3>1. DOMAIN [q EXCEPT !.err = "columns"] = Fields
      BY <1>2
    <3> QED
      BY <1>2, <1>3, <2>3, <3>1, ResetIs
  <2>4. CASE Select(catalog[Min(Named(q.tables[1]))])
    <3> DEFINE t == catalog[Min(Named(q.tables[1]))]
               cols == q.columns \o (IF q.all THEN t.order ELSE <<>>)
    <3> HIDE DEF t, cols
    <3>1. \/ SetTemp(<<"count">>, <<TempRow(<<"count">>, <<t.nrows>>)>>)
          \/ ResetWith("column")
          \/ /\ \E limit : q' = [q EXCEPT !.columns = cols, !.tree = 0, !.cur = TRUE, !.limit = limit, !.percent = FALSE]
             /\ DOMAIN table' = TableFields
      BY <2>4, NoTableIs DEF Select, t, cols
    <3>2. ASSUME NEW limit, DOMAIN table' = TableFields,
                 q' = [q EXCEPT !.columns = cols, !.tree = 0, !.cur = TRUE, !.limit = limit, !.percent = FALSE]
          PROVE  CurInv'
      <4>1. DOMAIN q' = Fields /\ q'.cur = TRUE
        BY <1>2, <3>2 DEF Fields
      <4> QED
        BY <1>5, <2>1, <3>2, <4>1
    <3> QED
      BY <1>4, <1>6, <2>1, <3>1, <3>2
  <2>5. CASE UNCHANGED <<q, table>>
    BY <1>2, <1>3, <2>5
  <2> QED
    BY <1>4, <2>2, <2>3, <2>4, <2>5
<1> QED
  BY <1>7, <1>8, <1>9, <1>10, <1>11, <1>12, <1>13, <1>14, <1>15, <1>16, <1>17, <1>18, <1>19, <1>20, <1>21,
     <1>22, <1>23 DEF Reduce, mdb_sql_add_and, mdb_sql_add_or

LEMMA TodoKept ==
  ASSUME TodoInv, UNCHANGED <<stmt, catalog, todo>>, pc = "parse" => todo = <<>> \/ pc' = "parse",
         pc' \in {"parse", "opened", "query", "fetch", "end", "closed", "failed"}, pc # "none",
         pc' = "parse" => pc = "parse"
  PROVE  TodoInv'
<1>1. IsSeq(todo)'
  BY DEF TodoInv, IsSeq
<1>2. Parse(stmt)' = Parse(stmt)
  BY DEF Parse, Whole, Rules, TopRules, ColumnRules, TableRule, WhereRules, LimitRules
<1>3. Done' = Done
  BY <1>2 DEF Done
<1> QED
  BY <1>1, <1>2, <1>3 DEF TodoInv

\* A query is parsed to its end, rule after rule, and has a table only behind the last.
THEOREM QueryParsed == Spec => []ParseInv
<1>1. ASSUME Init PROVE ParseInv
  <2>1. IsSeq(todo)
    BY <1>1, NoSeq DEF Init
  <2>2. DOMAIN mdb_sql_init = Fields /\ mdb_sql_init.cur = FALSE
    BY DEF mdb_sql_init, Fields
  <2> QED
    BY <1>1, <2>1, <2>2, NoTableIs DEF Init, ParseInv, TodoInv, CurInv
<1>2. ASSUME ParseInv, [Next]_vars PROVE ParseInv'
  <2>1. CASE UNCHANGED vars
    <3>1. /\ UNCHANGED <<stmt, catalog, pc, todo, q, table>>
      BY <2>1 DEF vars
    <3>2. Parse(stmt)' = Parse(stmt)
      BY <3>1 DEF Parse, Whole, Rules, TopRules, ColumnRules, TableRule, WhereRules, LimitRules
    <3> QED
      BY <1>2, <3>1, <3>2 DEF ParseInv, TodoInv, CurInv, Done, IsSeq
  <2>2. CASE cmdb_query_open
    <3>1. PICK s \in Queries, found \in BOOLEAN :
             /\ stmt' = s.stmt /\ catalog' = s.catalog
             /\ IF found THEN /\ q' = [mdb_sql_init EXCEPT !.mdb = 1]
                              /\ pc' = "parse" /\ todo' = Parse(s.stmt)
                ELSE /\ q' = [mdb_sql_init EXCEPT !.err = "locate"]
                     /\ pc' = "opened" /\ UNCHANGED todo
      BY <2>2 DEF cmdb_query_open
    <3>2. table' = table /\ pc = "none" /\ table = NoTable /\ todo = <<>>
      BY <1>2, <2>2 DEF cmdb_query_open, ParseInv, CurInv, TodoInv
    <3>3. IsSeq(Parse(s.stmt)) /\ Len(Parse(s.stmt)) \in Nat
      BY QueriesAssumption, ParseAt, SeqFacts
    <3>4. CASE found
      <4>1. todo' = Parse(stmt') /\ pc' = "parse" /\ Done' = 0
        BY <3>1, <3>3, <3>4 DEF Done
      <4>2. IsSeq(todo') /\ Len(todo') \in Nat
        BY <3>1, <3>3, <3>4
      <4>3. \A i \in 1 .. Len(todo') : todo'[i] = Parse(stmt')[Done' + i]
        BY <4>1, <4>2
      <4>4. TodoInv'
        BY <3>1, <4>1, <4>2, <4>3 DEF TodoInv, IsSeq
      <4>5. CurInv'
        BY <3>1, <3>2, <3>4, NoTableIs DEF CurInv, mdb_sql_init, Fields
      <4> QED
        BY <4>4, <4>5 DEF ParseInv
    <3>5. CASE ~found
      <4>1. TodoInv'
        BY <3>1, <3>2, <3>5, NoSeq DEF TodoInv, IsSeq
      <4>2. CurInv'
        BY <3>1, <3>2, <3>5, NoTableIs DEF CurInv, mdb_sql_init, Fields
      <4> QED
        BY <4>1, <4>2 DEF ParseInv
    <3> QED
      BY <3>4, <3>5
  <2>3. CASE Reduce
    <3>1. CurInv'
      BY <1>2, <2>3, ReduceKeepsCur
    <3>2. Reducing(Head(todo).rule)
      BY <2>3, ReducesOne
    <3> QED
      BY <1>2, <3>1, <3>2, ReducingKeepsTodo DEF ParseInv
  <2>4. CASE mdb_sql_run_query
    <3>1. TodoInv'
      BY <1>2, <2>4, TodoKept DEF mdb_sql_run_query, ParseInv
    <3>2. CurInv'
      BY <1>2, <2>4 DEF mdb_sql_run_query, mdb_sql_bind_all, ParseInv, CurInv, Fields
    <3> QED
      BY <3>1, <3>2 DEF ParseInv
  <2>5. ASSUME Exit
        PROVE  DOMAIN q' = Fields /\ q'.cur = FALSE /\ table' = NoTable /\ DOMAIN table' = TableFields
    BY <1>2, NoTableIs, <2>5 DEF Exit, ParseInv, CurInv, mdb_sql_init, Fields
  <2>6. CASE OpenQuery
    <3>1. TodoInv'
      BY <1>2, <2>6, TodoKept DEF OpenQuery, ParseInv
    <3>2. CurInv'
      BY <1>2, <2>5, <2>6 DEF OpenQuery, ParseInv, CurInv
    <3> QED
      BY <3>1, <3>2 DEF ParseInv
  <2>7. CASE cmdb_query_next
    <3>1. TodoInv'
      BY <1>2, <2>7, TodoKept DEF cmdb_query_next, ParseInv
    <3> QED
      BY <1>2, <2>7, <3>1 DEF cmdb_query_next, ParseInv, CurInv
  <2>8. CASE FetchStep
    <3>1. UNCHANGED <<stmt, catalog, pc, todo, q, table>> /\ pc = "fetch"
      BY <2>8 DEF FetchStep, ScanStep, query
    <3>2. TodoInv'
      BY <1>2, <3>1, TodoKept DEF ParseInv
    <3> QED
      BY <1>2, <3>1, <3>2 DEF ParseInv, CurInv
  <2>9. CASE mdb_sql_fetch_row
    <3>1. TodoInv'
      BY <1>2, <2>9, TodoKept DEF mdb_sql_fetch_row, ParseInv
    <3>2. DOMAIN q' = Fields /\ q'.cur = q.cur
      BY <1>2, <2>9 DEF mdb_sql_fetch_row, ParseInv, CurInv, Fields
    <3>3. UNCHANGED <<table, todo>> /\ pc' \in {"query", "end"}
      BY <2>9 DEF mdb_sql_fetch_row
    <3> QED
      BY <1>2, <3>1, <3>2, <3>3 DEF ParseInv, CurInv
  <2>10. CASE cmdb_query_close
    <3>1. TodoInv'
      BY <1>2, <2>10, TodoKept DEF cmdb_query_close, ParseInv
    <3>2. CurInv'
      BY <1>2, <2>5, <2>10 DEF cmdb_query_close, ParseInv, CurInv
    <3> QED
      BY <3>1, <3>2 DEF ParseInv
  <2> QED
    BY <1>2, <2>1, <2>2, <2>3, <2>4, <2>6, <2>7, <2>8, <2>9, <2>10 DEF Next
<1> QED
  BY <1>1, <1>2, PTL DEF Spec

-----------------------------------------------------------------------------
(* The nodes *)

\* The nodes h, of which those in d are freed, are trees: a node has two children or fewer,
\* allocated before it, has one parent at most, and is not freed before its parent.
NodeFields == {"op", "col", "name", "lit", "left", "right"}
Forest(h, d) ==
  /\ IsSeq(h) /\ Ordered(h, Len(h))
  /\ \A n \in 1 .. Len(h) : DOMAIN h[n] = NodeFields /\ (h[n].left = 0 \/ h[n].left # h[n].right)
  /\ \A m, n \in 1 .. Len(h) : m # n => Kids(h, m) \cap Kids(h, n) = {}
  /\ d \subseteq 1 .. Len(h)
  /\ \A n \in (1 .. Len(h)) \ d : Kids(h, n) \cap d = {}

\* A node that is alive and nobody's child; nodes on a stack are, and differ.
Root(h, d, n) == n \in (1 .. Len(h)) \ d /\ \A m \in 1 .. Len(h) : n \notin Kids(h, m)
Roots(h, d, stack) ==
  /\ IsSeq(stack)
  /\ \A i \in 1 .. Len(stack) : Root(h, d, stack[i])
  /\ \A i, j \in 1 .. Len(stack) : i # j => stack[i] # stack[j]

TreesInv ==
  /\ Forest(heap, dead) /\ Roots(heap, dead, q.stack)
  /\ q.tree # 0 => Root(heap, dead, q.tree)
  /\ table.tree # 0 => Root(heap, dead, table.tree)

\* A new node over roots leaves trees, and is a root.
LEMMA AppendForest ==
  ASSUME NEW h, NEW d, Forest(h, d), NEW node, DOMAIN node = NodeFields,
         node.left # 0 => Root(h, d, node.left), node.right # 0 => Root(h, d, node.right),
         node.left = 0 => node.right = 0, node.left # 0 => node.left # node.right
  PROVE  /\ Forest(Append(h, node), d)
         /\ Len(Append(h, node)) = Len(h) + 1
         /\ Root(Append(h, node), d, Len(h) + 1)
         /\ \A r : (Root(h, d, r) /\ r # node.left /\ r # node.right) => Root(Append(h, node), d, r)
<1> DEFINE g == Append(h, node)
<1>1. IsSeq(h) /\ Len(h) \in Nat
  BY SeqFacts DEF Forest
<1>2. /\ IsSeq(g) /\ Len(g) = Len(h) + 1 /\ g[Len(h) + 1] = node
      /\ \A i \in 1 .. Len(h) : g[i] = h[i]
  BY <1>1, AppendSeq
<1> HIDE DEF g
<1> DEFINE n == Len(h) + 1
<1>3. \A i \in 1 .. Len(h) : Kids(g, i) = Kids(h, i) /\ Kids(h, i) \subseteq 1 .. Len(h)
  BY <1>1, <1>2 DEF Kids, Forest, Ordered
<1>4. Kids(g, n) = {node.left, node.right} \ {0} /\ Kids(g, n) \subseteq (1 .. Len(h)) \ d
  BY <1>2 DEF Kids, Root
<1>5. \A k \in Kids(g, n) : \A m \in 1 .. Len(h) : k \notin Kids(h, m)
  BY <1>4 DEF Root
<1>6. \A i \in 1 .. Len(g) : i \in 1 .. Len(h) \/ i = n
  BY <1>1, <1>2
<1>7. Ordered(g, Len(g))
  <2> SUFFICES ASSUME NEW i \in 1 .. Len(g) PROVE g[i].left \in 0 .. i - 1 /\ g[i].right \in 0 .. i - 1
    BY DEF Ordered
  <2>1. CASE i \in 1 .. Len(h)
    BY <1>2, <2>1 DEF Forest, Ordered
  <2>2. CASE i = n
    BY <1>1, <1>2, <2>2 DEF Root
  <2> QED
    BY <1>6, <2>1, <2>2
<1>8. \A i \in 1 .. Len(g) : DOMAIN g[i] = NodeFields /\ (g[i].left = 0 \/ g[i].left # g[i].right)
  BY <1>2, <1>6 DEF Forest
<1>9. \A i, j \in 1 .. Len(g) : i # j => Kids(g, i) \cap Kids(g, j) = {}
  <2> SUFFICES ASSUME NEW i \in 1 .. Len(g), NEW j \in 1 .. Len(g), i # j PROVE Kids(g, i) \cap Kids(g, j) = {}
    OBVIOUS
  <2>1. CASE i \in 1 .. Len(h) /\ j \in 1 .. Len(h)
    BY <1>3, <2>1 DEF Forest
  <2>2. CASE i = n /\ j \in 1 .. Len(h)
    BY <1>3, <1>5, <2>2
  <2>3. CASE j = n /\ i \in 1 .. Len(h)
    BY <1>3, <1>5, <2>3
  <2> QED
    BY <1>6, <2>1, <2>2, <2>3
<1>10. d \subseteq 1 .. Len(g) /\ n \notin d
  BY <1>1, <1>2 DEF Forest
<1>11. \A i \in (1 .. Len(g)) \ d : Kids(g, i) \cap d = {}
  BY <1>3, <1>4, <1>6 DEF Forest
<1>12. \A i \in 1 .. Len(g) : n \notin Kids(g, i)
  BY <1>1, <1>3, <1>4, <1>6
<1>13. \A r : (Root(h, d, r) /\ r # node.left /\ r # node.right) => Root(g, d, r)
  BY <1>1, <1>2, <1>3, <1>4, <1>6 DEF Root
<1>14. Root(g, d, n) /\ Forest(g, d)
  <2>1. n \in 1 .. Len(g)
    BY <1>1, <1>2
  <2>2. Root(g, d, n)
    BY <1>10, <1>12, <2>1 DEF Root
  <2> QED
    BY <1>2, <1>7, <1>8, <1>9, <1>10, <1>11, <2>2 DEF Forest
<1> QED
  BY <1>2, <1>13, <1>14 DEF g

\* Freeing a tree from its root leaves trees.
LEMMA FreeForest ==
  ASSUME NEW h, NEW d, Forest(h, d), NEW r, r # 0 => Root(h, d, r)
  PROVE  Forest(h, d \cup mdb_sql_walk_tree(h, r, {}))
<1> DEFINE tree == mdb_sql_walk_tree(h, r, {})
<1>1. Len(h) \in Nat /\ r \in 0 .. Len(h) /\ Ordered(h, Len(h))
  BY SeqFacts DEF Forest, Root
<1>2. /\ tree \subseteq 1 .. Len(h)
      /\ r = 0 => tree = {}
      /\ \A n \in tree \ {r} : \E m \in tree : n \in Kids(h, m)
  BY <1>1, WalkCloses
<1> HIDE DEF tree
<1>3. ASSUME NEW n \in (1 .. Len(h)) \ (d \cup tree) PROVE Kids(h, n) \cap (d \cup tree) = {}
  <2> SUFFICES ASSUME NEW k \in Kids(h, n), k \in tree PROVE FALSE
    BY DEF Forest
  <2>1. k # r
    BY <1>2 DEF Root
  <2>2. PICK m \in tree : k \in Kids(h, m)
    BY <1>2, <2>1
  <2>3. m # n /\ m \in 1 .. Len(h)
    BY <1>2, <2>2
  <2> QED
    BY <2>2, <2>3 DEF Forest
<1>4. d \cup tree \subseteq 1 .. Len(h)
  BY <1>2 DEF Forest
<1>5. Forest(h, d \cup tree)
  BY <1>3, <1>4 DEF Forest
<1> QED
  BY <1>5 DEF tree

\* Nodes with other columns and literals are the same trees.
LEMMA SameForest ==
  ASSUME NEW h, NEW d, Forest(h, d), NEW g, IsSeq(g), Len(g) = Len(h),
         \A n \in 1 .. Len(h) : DOMAIN g[n] = NodeFields /\ g[n].left = h[n].left /\ g[n].right = h[n].right
  PROVE  Forest(g, d) /\ \A r : Root(h, d, r) => Root(g, d, r)
<1>1. \A n \in 1 .. Len(h) : Kids(g, n) = Kids(h, n)
  BY DEF Kids
<1>2. Ordered(g, Len(g))
  BY DEF Forest, Ordered
<1>3. Forest(g, d)
  BY <1>1, <1>2 DEF Forest
<1> QED
  BY <1>1, <1>3 DEF Root

\* The stack of the MdbSQL when a node is pushed and popped.
LEMMA PushIs ==
  ASSUME NEW r, DOMAIN r = Fields, NEW n
  PROVE  LET p == mdb_sql_push_node(r, n)
         IN  /\ DOMAIN p = Fields /\ p.stack = <<n>> \o r.stack /\ p.tree = n
             /\ p.mdb = r.mdb /\ p.err = r.err /\ p.cur = r.cur /\ p.columns = r.columns
             /\ p.tables = r.tables /\ p.all = r.all /\ p.count = r.count /\ p.limit = r.limit
             /\ p.percent = r.percent
  BY DEF mdb_sql_push_node, Fields

LEMMA PopIs ==
  ASSUME NEW r, DOMAIN r = Fields
  PROVE  LET p == mdb_sql_pop_node(r)
         IN  /\ DOMAIN p = Fields /\ p.stack = Front(r.stack) /\ p.tree = r.tree
             /\ p.mdb = r.mdb /\ p.err = r.err /\ p.cur = r.cur /\ p.columns = r.columns
             /\ p.tables = r.tables /\ p.all = r.all /\ p.count = r.count /\ p.limit = r.limit
             /\ p.percent = r.percent
  BY DEF mdb_sql_pop_node, Fields

LEMMA PushSeq ==
  ASSUME NEW s, IsSeq(s), NEW n
  PROVE  /\ IsSeq(<<n>> \o s) /\ Len(<<n>> \o s) = Len(s) + 1
         /\ (<<n>> \o s)[1] = n
         /\ \A i \in 1 .. Len(s) : (<<n>> \o s)[i + 1] = s[i]
<1> DEFINE one == <<n>>
           u == one \o s
<1>1. IsSeq(one) /\ Len(one) = 1 /\ one[1] = n
  BY OneSeq
<1>2. Len(s) \in Nat
  BY SeqFacts
<1> HIDE DEF one
<1>3. /\ IsSeq(u) /\ Len(u) = Len(one) + Len(s)
      /\ \A i \in 1 .. Len(one) : u[i] = one[i]
      /\ \A i \in 1 .. Len(s) : u[Len(one) + i] = s[i]
  <2>1. IsSeq(one)
    BY <1>1
  <2> QED
    BY <2>1, JoinSeq
<1> HIDE DEF u
<1>4. /\ IsSeq(u) /\ Len(u) = Len(s) + 1 /\ u[1] = n
      /\ \A i \in 1 .. Len(s) : u[i + 1] = s[i]
  BY <1>1, <1>2, <1>3
<1> QED
  BY <1>4 DEF u, one

LEMMA FrontSeq ==
  ASSUME NEW s, IsSeq(s), s # <<>>
  PROVE  /\ IsSeq(Front(s)) /\ Len(Front(s)) = Len(s) - 1 /\ Len(s) >= 1 /\ Len(s) \in Nat
         /\ \A i \in 1 .. Len(s) - 1 : Front(s)[i] = s[i]
<1>1. Len(s) \in Nat /\ Len(s) >= 1
  BY TailSeq, SeqFacts
<1>2. Len(s) - 1 \in 0 .. Len(s)
  BY <1>1
<1> QED
  BY <1>1, <1>2, PrefixSeq DEF Front

LEMMA PushRoots ==
  ASSUME NEW h, NEW d, NEW s, IsSeq(s), NEW n, Root(h, d, n),
         \A i \in 1 .. Len(s) : Root(h, d, s[i]) /\ s[i] # n,
         \A i, j \in 1 .. Len(s) : i # j => s[i] # s[j]
  PROVE  Roots(h, d, <<n>> \o s)
<1> DEFINE u == <<n>> \o s
<1>1. /\ IsSeq(u) /\ Len(u) = Len(s) + 1 /\ u[1] = n
      /\ \A i \in 1 .. Len(s) : u[i + 1] = s[i]
  BY PushSeq
<1>2. Len(s) \in Nat
  BY SeqFacts
<1> HIDE DEF u
<1>3. ASSUME NEW i \in 1 .. Len(u) PROVE i = 1 \/ (i - 1 \in 1 .. Len(s) /\ u[i] = s[i - 1])
  <2>1. i # 1 => i - 1 \in 1 .. Len(s) /\ (i - 1) + 1 = i
    BY <1>1, <1>2
  <2> QED
    BY <1>1, <2>1
<1>4. \A i \in 1 .. Len(u) : Root(h, d, u[i])
  BY <1>1, <1>3
<1>5. ASSUME NEW i \in 1 .. Len(u), NEW j \in 1 .. Len(u), i # j PROVE u[i] # u[j]
  <2>1. CASE i = 1
    BY <1>1, <1>3, <1>5, <2>1
  <2>2. CASE j = 1
    BY <1>1, <1>3, <1>5, <2>2
  <2>3. CASE i # 1 /\ j # 1
    <3>1. i - 1 # j - 1
      BY <1>5
    <3> QED
      BY <1>3, <2>3, <3>1
  <2> QED
    BY <2>1, <2>2, <2>3
<1>6. Roots(h, d, u)
  BY <1>1, <1>4, <1>5 DEF Roots
<1> QED
  BY <1>6 DEF u

\* A comparison, a NOT and an AND or OR leave roots on the stack.
LEMMA PushLeaf ==
  ASSUME NEW h, NEW d, Forest(h, d), NEW s, Roots(h, d, s), NEW node, DOMAIN node = NodeFields,
         node.left = 0, node.right = 0
  PROVE  LET g == Append(h, node) IN
         /\ Forest(g, d) /\ Root(g, d, Len(g)) /\ Len(g) = Len(h) + 1
         /\ Roots(g, d, <<Len(g)>> \o s)
<1> DEFINE g == Append(h, node)
<1>1. Forest(g, d) /\ Len(g) = Len(h) + 1 /\ Root(g, d, Len(h) + 1) /\ Len(h) \in Nat
  BY AppendForest, SeqFacts DEF Forest
<1>2. \A r : Root(h, d, r) => Root(g, d, r) /\ r \in 1 .. Len(h) /\ r # 0
  BY AppendForest DEF Root
<1> HIDE DEF g
<1>3. \A i \in 1 .. Len(s) : Root(g, d, s[i]) /\ s[i] # Len(g)
  BY <1>1, <1>2 DEF Roots
<1>4. Roots(g, d, <<Len(g)>> \o s)
  BY <1>1, <1>3, PushRoots DEF Roots
<1> QED
  BY <1>1, <1>4 DEF g

LEMMA PushNot ==
  ASSUME NEW h, NEW d, Forest(h, d), NEW s, Roots(h, d, s), s # <<>>, NEW node, DOMAIN node = NodeFields,
         node.left = Last(s), node.right = 0
  PROVE  LET g == Append(h, node) IN
         /\ Forest(g, d) /\ Root(g, d, Len(g)) /\ Len(g) = Len(h) + 1
         /\ Roots(g, d, <<Len(g)>> \o Front(s))
<1> DEFINE g == Append(h, node)
           f == Front(s)
<1>0. /\ IsSeq(f) /\ Len(f) = Len(s) - 1 /\ Len(s) >= 1 /\ Len(s) \in Nat
      /\ \A i \in 1 .. Len(s) - 1 : f[i] = s[i]
  BY FrontSeq DEF Roots
<1>1. Root(h, d, node.left) /\ node.left = s[Len(s)] /\ node.left # 0
  BY <1>0 DEF Roots, Last, Root
<1>2. Forest(g, d) /\ Len(g) = Len(h) + 1 /\ Root(g, d, Len(h) + 1) /\ Len(h) \in Nat
  BY <1>1, AppendForest, SeqFacts DEF Forest
<1>3. \A r : Root(h, d, r) /\ r # node.left => Root(g, d, r) /\ r \in 1 .. Len(h)
  <2>1. \A r : Root(h, d, r) => r \in 1 .. Len(h) /\ r # 0
    BY DEF Root
  <2> QED
    BY <1>1, <2>1, AppendForest
<1> HIDE DEF g, f
<1>4. ASSUME NEW i \in 1 .. Len(f) PROVE f[i] = s[i] /\ i # Len(s) /\ i \in 1 .. Len(s)
  BY <1>0
<1>5. \A i \in 1 .. Len(f) : Root(g, d, f[i]) /\ f[i] # Len(g)
  BY <1>0, <1>1, <1>2, <1>3, <1>4 DEF Roots
<1>6. \A i, j \in 1 .. Len(f) : i # j => f[i] # f[j]
  BY <1>4 DEF Roots
<1>7. Roots(g, d, <<Len(g)>> \o f)
  BY <1>0, <1>2, <1>5, <1>6, PushRoots
<1> QED
  BY <1>2, <1>7 DEF g, f

LEMMA PushBinary ==
  ASSUME NEW h, NEW d, Forest(h, d), NEW s, Roots(h, d, s), Len(s) >= 2, NEW node, DOMAIN node = NodeFields,
         node.left = Last(s), node.right = Last(Front(s))
  PROVE  LET g == Append(h, node) IN
         /\ Forest(g, d) /\ Root(g, d, Len(g)) /\ Len(g) = Len(h) + 1
         /\ Roots(g, d, <<Len(g)>> \o Front(Front(s)))
<1> DEFINE g == Append(h, node)
           f == Front(s)
           e == Front(f)
<1>0. /\ IsSeq(f) /\ Len(f) = Len(s) - 1 /\ Len(s) \in Nat
      /\ \A i \in 1 .. Len(s) - 1 : f[i] = s[i]
  <2>1. s # <<>>
    BY NoSeq
  <2> QED
    BY <2>1, FrontSeq DEF Roots
<1> HIDE DEF f
<1>8. /\ IsSeq(e) /\ Len(e) = Len(f) - 1
      /\ \A i \in 1 .. Len(f) - 1 : e[i] = f[i]
  <2>1. f # <<>>
    BY <1>0, NoSeq
  <2> QED
    BY <1>0, <2>1, FrontSeq
<1> HIDE DEF e
<1>1. /\ Root(h, d, node.left) /\ node.left = s[Len(s)] /\ node.left # 0
      /\ Root(h, d, node.right) /\ node.right = s[Len(s) - 1] /\ node.right # 0
      /\ node.left # node.right
  <2>1. node.left = s[Len(s)] /\ node.right = s[Len(s) - 1]
    BY <1>0 DEF Last, f
  <2>2. Len(s) \in 1 .. Len(s) /\ Len(s) - 1 \in 1 .. Len(s) /\ Len(s) # Len(s) - 1
    BY <1>0
  <2> QED
    BY <2>1, <2>2 DEF Roots, Root
<1>2. Forest(g, d) /\ Len(g) = Len(h) + 1 /\ Root(g, d, Len(h) + 1) /\ Len(h) \in Nat
  BY <1>1, AppendForest, SeqFacts DEF Forest
<1>3. \A r : Root(h, d, r) /\ r # node.left /\ r # node.right => Root(g, d, r) /\ r \in 1 .. Len(h)
  <2>1. \A r : Root(h, d, r) => r \in 1 .. Len(h)
    BY DEF Root
  <2> QED
    BY <1>1, <2>1, AppendForest
<1> HIDE DEF g
<1>4. ASSUME NEW i \in 1 .. Len(e) PROVE e[i] = s[i] /\ i # Len(s) /\ i # Len(s) - 1 /\ i \in 1 .. Len(s)
  <2>1. i \in 1 .. Len(f) - 1 /\ i \in 1 .. Len(s) - 1 /\ i # Len(s) /\ i # Len(s) - 1 /\ i \in 1 .. Len(s)
    BY <1>0, <1>8
  <2> QED
    BY <1>0, <1>8, <2>1
<1>5. ASSUME NEW i \in 1 .. Len(e) PROVE Root(g, d, e[i]) /\ e[i] # Len(g)
  <2>1. Root(h, d, s[i]) /\ s[i] # s[Len(s)] /\ s[i] # s[Len(s) - 1]
    <3>1. Len(s) \in 1 .. Len(s) /\ Len(s) - 1 \in 1 .. Len(s)
      BY <1>0
    <3> QED
      BY <1>4, <3>1 DEF Roots
  <2> QED
    BY <1>1, <1>2, <1>3, <1>4, <2>1
<1>6. \A i, j \in 1 .. Len(e) : i # j => e[i] # e[j]
  BY <1>4 DEF Roots
<1>7. Roots(g, d, <<Len(g)>> \o e)
  BY <1>2, <1>5, <1>6, <1>8, PushRoots
<1> QED
  BY <1>2, <1>7 DEF g, f, e

\* Every reduction but the select keeps the trees.
LEMMA FreedForest ==
  ASSUME TreesInv, DOMAIN q' = Fields, dead' \in {dead, dead \cup Freed(q)}, heap' = heap,
         q'.stack = <<>>, q'.tree = 0, table'.tree = 0
  PROVE  TreesInv'
<1>1. Forest(heap, dead \cup Freed(q))
  BY FreeForest DEF TreesInv, Freed
<1>2. Forest(heap', dead')
  BY <1>1 DEF TreesInv
<1>3. Roots(heap', dead', q'.stack)
  BY NoSeq DEF Roots
<1> QED
  BY <1>2, <1>3 DEF TreesInv

LEMMA KeptForest ==
  ASSUME TreesInv, dead' = dead, heap' = heap, q'.stack = q.stack, q'.tree = q.tree,
         table'.tree \in {0, table.tree}
  PROVE  TreesInv'
  BY DEF TreesInv

LEMMA PushedForest ==
  ASSUME NEW stack, dead' = dead, Forest(heap', dead), Root(heap', dead, Len(heap')),
         Roots(heap', dead, <<Len(heap')>> \o stack), q'.stack = <<Len(heap')>> \o stack,
         q'.tree = Len(heap'), table'.tree = 0
  PROVE  TreesInv'
  BY DEF TreesInv

LEMMA AddedKeepsTrees ==
  ASSUME TreesInv, CurInv, ~q.cur, q.cur = FALSE,
         NEW rule, NEW op,
         mdb_sql_add_sarg \/ mdb_sql_eval_expr \/ mdb_sql_add_not \/ AddBinary(rule, op)
  PROVE  TreesInv'
<1>1. DOMAIN q = Fields /\ table = NoTable /\ table.tree = 0 /\ IsSeq(q.stack) /\ Len(q.stack) \in Nat
      /\ Forest(heap, dead) /\ Roots(heap, dead, q.stack)
  BY NoTableIs, SeqFacts DEF CurInv, TreesInv, Roots
<1>2. ASSUME NEW e, ResetWith(e), heap' = heap PROVE TreesInv'
  BY <1>2, ResetWithIs, NoTableIs, FreedForest
<1>3. ASSUME NEW node, DOMAIN node = NodeFields, node.left = 0, node.right = 0, AddNode(node),
             q' = mdb_sql_push_node(q, Len(heap'))
      PROVE  TreesInv'
  <2>1. q'.stack = <<Len(heap')>> \o q.stack /\ q'.tree = Len(heap')
    BY <1>1, <1>3, PushIs
  <2>2. heap' = Append(heap, node) /\ dead' = dead /\ table' = table
    BY <1>3 DEF AddNode
  <2>3. Forest(heap', dead) /\ Root(heap', dead, Len(heap')) /\ Roots(heap', dead, <<Len(heap')>> \o q.stack)
    BY <1>1, <1>3, <2>2, PushLeaf
  <2> QED
    BY <1>1, <2>1, <2>2, <2>3, PushedForest
<1>4. CASE mdb_sql_add_sarg
  <2> DEFINE node == [NoNode EXCEPT !.op = Head(todo).op, !.name = Head(todo).col, !.lit = Head(todo).lit]
  <2>1. DOMAIN node = NodeFields /\ node.left = 0 /\ node.right = 0
    BY DEF NoNode, NodeFields
  <2>2. AddNode(node) /\ q' = mdb_sql_push_node(q, Len(heap'))
    BY <1>4 DEF mdb_sql_add_sarg
  <2> HIDE DEF node
  <2> QED
    BY <1>3, <2>1, <2>2
<1>5. CASE mdb_sql_eval_expr
  <2>1. \/ ResetWith("literals") /\ heap' = heap
        \/ \E h : /\ AddNode([NoNode EXCEPT !.op = "EQUAL", !.lit.v = IF h THEN 2 ELSE 0])
                  /\ q' = mdb_sql_push_node(q, Len(heap'))
    BY <1>5 DEF mdb_sql_eval_expr
  <2>2. ASSUME NEW h, AddNode([NoNode EXCEPT !.op = "EQUAL", !.lit.v = IF h THEN 2 ELSE 0]),
               q' = mdb_sql_push_node(q, Len(heap'))
        PROVE  TreesInv'
    <3> DEFINE node == [NoNode EXCEPT !.op = "EQUAL", !.lit.v = IF h THEN 2 ELSE 0]
    <3>1. DOMAIN node = NodeFields /\ node.left = 0 /\ node.right = 0
      BY DEF NoNode, NodeFields
    <3> HIDE DEF node
    <3> QED
      BY <1>3, <2>2, <3>1 DEF node
  <2> QED
    BY <1>2, <2>1, <2>2
<1>6. CASE mdb_sql_add_not
  <2>1. CASE q.stack = <<>>
    BY <1>2, <1>6, <2>1 DEF mdb_sql_add_not
  <2>2. CASE q.stack # <<>>
    <3> DEFINE node == [NoNode EXCEPT !.op = "NOT", !.left = Top(q)]
    <3>1. DOMAIN node = NodeFields /\ node.left = Last(q.stack) /\ node.right = 0
      BY DEF NoNode, NodeFields, Top
    <3>2. AddNode(node) /\ q' = mdb_sql_push_node(mdb_sql_pop_node(q), Len(heap'))
      BY <1>6, <2>2 DEF mdb_sql_add_not
    <3> HIDE DEF node
    <3>3. q'.stack = <<Len(heap')>> \o Front(q.stack) /\ q'.tree = Len(heap')
      BY <1>1, <3>2, PushIs, PopIs
    <3>4. heap' = Append(heap, node) /\ dead' = dead /\ table' = table
      BY <3>2 DEF AddNode
    <3>5. /\ Forest(heap', dead) /\ Root(heap', dead, Len(heap'))
          /\ Roots(heap', dead, <<Len(heap')>> \o Front(q.stack))
      BY <1>1, <2>2, <3>1, <3>4, PushNot
    <3> QED
      BY <1>1, <3>3, <3>4, <3>5, PushedForest
  <2> QED
    BY <2>1, <2>2
<1>7. CASE AddBinary(rule, op)
  <2>1. CASE Len(q.stack) < 2
    BY <1>2, <1>7, <2>1 DEF AddBinary
  <2>2. CASE Len(q.stack) >= 2
    <3> DEFINE one == mdb_sql_pop_node(q)
               node == [NoNode EXCEPT !.op = op, !.left = Top(q), !.right = Top(one)]
    <3>1. DOMAIN one = Fields /\ one.stack = Front(q.stack)
      BY <1>1, PopIs
    <3>2. ~(Len(q.stack) < 2)
      BY <1>1, <2>2
    <3>3. AddNode(node) /\ q' = mdb_sql_push_node(mdb_sql_pop_node(one), Len(heap'))
      BY <1>7, <3>2 DEF AddBinary
    <3> HIDE DEF one
    <3>4. DOMAIN node = NodeFields /\ node.left = Last(q.stack) /\ node.right = Last(Front(q.stack))
      BY <3>1 DEF NoNode, NodeFields, Top
    <3> HIDE DEF node
    <3>5. q'.stack = <<Len(heap')>> \o Front(Front(q.stack)) /\ q'.tree = Len(heap')
      BY <3>1, <3>3, PushIs, PopIs
    <3>6. heap' = Append(heap, node) /\ dead' = dead /\ table' = table
      BY <3>3 DEF AddNode
    <3>7. /\ Forest(heap', dead) /\ Root(heap', dead, Len(heap'))
          /\ Roots(heap', dead, <<Len(heap')>> \o Front(Front(q.stack)))
      BY <1>1, <2>2, <3>4, <3>6, PushBinary
    <3> QED
      BY <1>1, <3>5, <3>6, <3>7, PushedForest
  <2> QED
    BY <1>1, <2>1, <2>2
<1> QED
  BY <1>4, <1>5, <1>6, <1>7

\* mdb_sql_find_sargcol changes the column and the literal of a node.
LEMMA SargcolIs ==
  ASSUME NEW node, DOMAIN node = NodeFields, NEW t
  PROVE  LET n == mdb_sql_find_sargcol(node, t)
         IN  /\ DOMAIN n = NodeFields /\ n.left = node.left /\ n.right = node.right
             /\ n.op = node.op /\ n.name = node.name
<1>1. CASE node.op \notin RelationalOps \/ node.name \notin DOMAIN t.types
  BY <1>1 DEF mdb_sql_find_sargcol
<1>2. CASE ~(node.op \notin RelationalOps \/ node.name \notin DOMAIN t.types)
  <2> DEFINE lit(l) == IF t.types[node.name] = "DATETIME" /\ l.t = "int"
                         THEN LET day == mdb_tm_to_date(gmtime(Truncated(l.v)))
                              IN  [t |-> "double", v |-> 2 * day.day + day.secs \div 43200]
                         ELSE l
  <2>1. mdb_sql_find_sargcol(node, t) = [node EXCEPT !.col = node.name, !.lit = lit(node.lit)]
    BY <1>2 DEF mdb_sql_find_sargcol, NodeFields
  <2> HIDE DEF lit
  <2> QED
    BY <2>1 DEF NodeFields
<1> QED
  BY <1>1, <1>2

Relabel(h, tree, t) == [n \in DOMAIN h |-> IF n \in tree THEN mdb_sql_find_sargcol(h[n], t) ELSE h[n]]

LEMMA Relabelled ==
  ASSUME NEW h, NEW d, Forest(h, d), NEW tree, NEW t, NEW g, g = Relabel(h, tree, t)
  PROVE  /\ IsSeq(g) /\ Len(g) = Len(h)
         /\ \A n \in 1 .. Len(h) :
              /\ DOMAIN g[n] = NodeFields /\ g[n].left = h[n].left /\ g[n].right = h[n].right
              /\ g[n].op = h[n].op /\ g[n].name = h[n].name
<1>1. Len(h) \in Nat /\ DOMAIN h = 1 .. Len(h)
  BY SeqFacts DEF Forest
<1>2. DOMAIN g = 1 .. Len(h) /\ g = [n \in 1 .. Len(h) |-> g[n]]
  BY <1>1 DEF Relabel
<1>3. IsSeq(g) /\ Len(g) = Len(h)
  BY <1>1, <1>2, SeqMade
<1>4. ASSUME NEW n \in 1 .. Len(h)
      PROVE  /\ DOMAIN g[n] = NodeFields /\ g[n].left = h[n].left /\ g[n].right = h[n].right
             /\ g[n].op = h[n].op /\ g[n].name = h[n].name
  <2>1. DOMAIN h[n] = NodeFields
    BY DEF Forest
  <2>2. CASE n \in tree
    <3>1. g[n] = mdb_sql_find_sargcol(h[n], t)
      BY <1>1, <2>2 DEF Relabel
    <3> QED
      BY <2>1, <3>1, SargcolIs
  <2>3. CASE n \notin tree
    <3>1. g[n] = h[n]
      BY <1>1, <2>3 DEF Relabel
    <3> QED
      BY <2>1, <3>1
  <2> QED
    BY <2>2, <2>3
<1> QED
  BY <1>3, <1>4

LEMMA SelectKeepsTrees ==
  ASSUME TreesInv, CurInv, ~q.cur, q.cur = FALSE, NEW t, Select(t)
  PROVE  TreesInv'
<1> DEFINE cols == q.columns \o (IF q.all THEN t.order ELSE <<>>)
           tree == mdb_sql_walk_tree(heap, q.tree, {})
<1>0. DOMAIN q = Fields /\ table = NoTable /\ table.tree = 0
  BY NoTableIs DEF CurInv
<1> HIDE DEF cols, tree
<1>1. CASE SetTemp(<<"count">>, <<TempRow(<<"count">>, <<t.nrows>>)>>) /\ UNCHANGED <<heap, dead>>
  <2>1. q'.stack = q.stack /\ q'.tree = q.tree /\ table'.tree = 0
    BY <1>0, <1>1, SetTempIs
  <2> QED
    BY <1>1, <2>1, KeptForest
<1>2. CASE ResetWith("column") /\ UNCHANGED heap
  BY <1>0, <1>2, ResetWithIs, NoTableIs, FreedForest
<1>3. CASE /\ heap' = Relabel(heap, tree, t)
           /\ table'.tree = q.tree /\ dead' = dead
           /\ \E limit : q' = [q EXCEPT !.columns = cols, !.tree = 0, !.cur = TRUE, !.limit = limit, !.percent = FALSE]
  <2>1. q'.stack = q.stack /\ q'.tree = 0
    BY <1>0, <1>3 DEF Fields
  <2>2. Forest(heap', dead) /\ \A r : Root(heap, dead, r) => Root(heap', dead, r)
    <3>1. Forest(heap, dead)
      BY DEF TreesInv
    <3> DEFINE g == heap'
    <3>2. g = Relabel(heap, tree, t)
      BY <1>3
    <3> HIDE DEF g
    <3>3. Forest(g, dead) /\ \A r : Root(heap, dead, r) => Root(g, dead, r)
      <4>1. /\ IsSeq(g) /\ Len(g) = Len(heap)
            /\ \A n \in 1 .. Len(heap) :
                 DOMAIN g[n] = NodeFields /\ g[n].left = heap[n].left /\ g[n].right = heap[n].right
        BY <3>1, <3>2, Relabelled
      <4> QED
        BY <3>1, <4>1, SameForest
    <3> QED
      BY <3>3 DEF g
  <2>3. Roots(heap', dead, q.stack)
    BY <2>2 DEF TreesInv, Roots
  <2>4. q.tree # 0 => Root(heap', dead, q.tree)
    BY <2>2 DEF TreesInv
  <2> QED
    BY <1>3, <2>1, <2>2, <2>3, <2>4 DEF TreesInv
<1> QED
  <2>1. \/ SetTemp(<<"count">>, <<TempRow(<<"count">>, <<t.nrows>>)>>) /\ UNCHANGED <<heap, dead>>
        \/ ResetWith("column") /\ UNCHANGED heap
        \/ /\ heap' = Relabel(heap, tree, t)
           /\ table'.tree = q.tree /\ dead' = dead
           /\ \E limit : q' = [q EXCEPT !.columns = cols, !.tree = 0, !.cur = TRUE, !.limit = limit, !.percent = FALSE]
    BY NoTableIs DEF Select, cols, tree, TableFields, Relabel
  <2> QED
    BY <1>1, <1>2, <1>3, <2>1

LEMMA ReduceKeepsTrees ==
  ASSUME TreesInv, ParseInv, Reduce
  PROVE  TreesInv'
<1>1. pc = "parse" /\ todo # <<>> /\ ~q.cur /\ q.cur = FALSE /\ CurInv /\ DOMAIN q = Fields /\ table = NoTable
      /\ table.tree = 0
  BY ReducesOne, NoTableIs DEF Reducing, ParseInv, CurInv
<1>2. ASSUME NEW e, ResetWith(e), heap' = heap PROVE TreesInv'
  BY <1>1, <1>2, ResetWithIs, NoTableIs, FreedForest
<1>3. ASSUME q'.stack = q.stack, q'.tree = q.tree, dead' = dead, heap' = heap, table'.tree \in {0, table.tree}
      PROVE  TreesInv'
  BY <1>3, KeptForest
<1>4. ASSUME q' = mdb_sql_reset([q EXCEPT !.err = "columns"]), UNCHANGED <<heap, table>>,
             dead' \in {dead, dead \cup Freed(q)}
      PROVE  TreesInv'
  <2>1. DOMAIN [q EXCEPT !.err = "columns"] = Fields
    BY <1>1
  <2> QED
    BY <1>1, <1>4, <2>1, ResetIs, FreedForest
<1>5. ASSUME NEW cols, NEW rows, SetTemp(cols, rows), UNCHANGED <<heap, dead>> PROVE TreesInv'
  <2>1. q'.stack = q.stack /\ q'.tree = q.tree /\ table'.tree = 0
    BY <1>1, <1>5, SetTempIs
  <2> QED
    BY <1>3, <1>5, <2>1
<1>6. CASE mdb_sql_add_limit \/ mdb_sql_get_limit
  BY <1>1, <1>3, <1>6 DEF mdb_sql_add_limit, mdb_sql_get_limit, KeepMemory, Fields
<1>7. CASE mdb_sql_add_column \/ mdb_sql_all_columns \/ mdb_sql_sel_count \/ mdb_sql_add_table
  BY <1>1, <1>3, <1>7 DEF mdb_sql_add_column, mdb_sql_all_columns, mdb_sql_sel_count, mdb_sql_add_table,
                          KeepMemory, Fields
<1>8. CASE mdb_sql_open \/ mdb_sql_close
  BY <1>1, <1>3, <1>8 DEF mdb_sql_open, mdb_sql_close, Fields
<1>9. CASE mdb_sql_strptime \/ yyerrlab
  BY <1>2, <1>9 DEF mdb_sql_strptime, yyerrlab
<1>10. CASE mdb_sql_add_sarg \/ mdb_sql_eval_expr \/ mdb_sql_add_not \/ mdb_sql_add_and \/ mdb_sql_add_or
  BY <1>1, <1>10, AddedKeepsTrees DEF mdb_sql_add_and, mdb_sql_add_or
<1>11. CASE mdb_sql_listtables
  BY <1>5, <1>11 DEF mdb_sql_listtables
<1>12. CASE mdb_sql_describe_table
  <2>1. /\ heap' = heap
        /\ \/ ResetWith("table")
           \/ q' = mdb_sql_reset([q EXCEPT !.err = "columns"]) /\ UNCHANGED <<dead, table>>
           \/ \E cols, rows : SetTemp(cols, rows) /\ UNCHANGED dead
    BY <1>12 DEF mdb_sql_describe_table
  <2> QED
    BY <1>2, <1>4, <1>5, <2>1
<1>13. CASE mdb_sql_select
  <2>1. \/ UNCHANGED <<q, heap, dead, table>>
        \/ ResetWith("table") /\ UNCHANGED heap
        \/ q' = mdb_sql_reset([q EXCEPT !.err = "columns"]) /\ dead' = dead \cup Freed(q) /\ UNCHANGED <<heap, table>>
        \/ Select(catalog[Min(Named(q.tables[1]))])
    BY <1>13 DEF mdb_sql_select, KeepMemory
  <2> QED
    BY <1>1, <1>2, <1>3, <1>4, <2>1, SelectKeepsTrees
<1> QED
  BY <1>6, <1>7, <1>8, <1>9, <1>10, <1>11, <1>12, <1>13 DEF Reduce

LEMMA ExitKeepsTrees ==
  ASSUME TreesInv, CurInv, Exit, heap' = heap
  PROVE  TreesInv'
<1>1. DOMAIN q' = Fields /\ q'.stack = <<>> /\ q'.tree = 0 /\ dead' = dead \cup Freed(q)
  BY DEF Exit, mdb_sql_init, Fields
<1>2. table'.tree = 0
  BY NoTableIs DEF Exit, CurInv
<1> QED
  BY <1>1, <1>2, FreedForest

LEMMA QueryTrees == Spec => []TreesInv
<1>1. ASSUME Init PROVE TreesInv
  <2>1. heap = <<>> /\ dead = {} /\ q.stack = <<>> /\ q.tree = 0 /\ table.tree = 0
    BY <1>1, NoTableIs DEF Init, mdb_sql_init
  <2> QED
    BY <2>1, NoSeq DEF TreesInv, Forest, Roots, Ordered
<1>2. ASSUME TreesInv, ParseInv, [Next]_vars PROVE TreesInv'
  <2>1. CASE Reduce
    BY <1>2, <2>1, ReduceKeepsTrees
  <2>2. CASE OpenQuery
    BY <1>2, <2>2, ExitKeepsTrees, KeptForest DEF OpenQuery, ParseInv
  <2>3. CASE cmdb_query_close
    BY <1>2, <2>3, ExitKeepsTrees DEF cmdb_query_close, ParseInv
  <2>4. CASE cmdb_query_open
    <3>1. \E v : q' = [mdb_sql_init EXCEPT !.mdb = v] \/ q' = [mdb_sql_init EXCEPT !.err = v]
      BY <2>4 DEF cmdb_query_open
    <3>2. q'.stack = <<>> /\ q'.tree = 0 /\ DOMAIN q' = Fields
      BY <3>1 DEF mdb_sql_init, Fields
    <3>3. UNCHANGED <<heap, dead, table>> /\ table = NoTable
      BY <1>2, <2>4 DEF cmdb_query_open, ParseInv, CurInv
    <3> QED
      BY <1>2, <3>2, <3>3, NoTableIs, FreedForest
  <2>5. CASE mdb_sql_run_query
    <3>1. UNCHANGED <<heap, dead>> /\ q'.stack = q.stack /\ q'.tree = q.tree /\ table'.tree = table.tree
      BY <1>2, <2>5 DEF mdb_sql_run_query, mdb_sql_bind_all, ParseInv, CurInv, Fields, TableFields
    <3> QED
      BY <1>2, <3>1, KeptForest
  <2>6. CASE mdb_sql_fetch_row
    <3>1. UNCHANGED <<heap, dead, table>> /\ q'.stack = q.stack /\ q'.tree = q.tree
      BY <1>2, <2>6 DEF mdb_sql_fetch_row, ParseInv, CurInv, Fields
    <3> QED
      BY <1>2, <3>1, KeptForest
  <2>7. CASE cmdb_query_next \/ FetchStep \/ UNCHANGED vars
    <3>1. UNCHANGED <<heap, dead, table, q>>
      BY <2>7 DEF cmdb_query_next, FetchStep, ScanStep, query, vars
    <3> QED
      BY <1>2, <3>1, KeptForest
  <2> QED
    BY <1>2, <2>1, <2>2, <2>3, <2>4, <2>5, <2>6, <2>7 DEF Next
<1> QED
  BY <1>1, <1>2, QueryParsed, PTL DEF Spec

\* Freeing a tree frees each of its nodes once, and no node in use is freed.
THEOREM QueryTreesLive == Spec => []TreesLive
<1>1. ASSUME TreesInv PROVE TreesLive
  <2> DEFINE roots == ({q.tree, table.tree} \cup ToSet(q.stack)) \ {0}
             nodes == UNION {mdb_sql_walk_tree(heap, r, {}) : r \in roots}
             alive == (1 .. Len(heap)) \ dead
  <2>1. Forest(heap, dead) /\ Len(heap) \in Nat
    BY <1>1, SeqFacts DEF TreesInv, Forest
  <2>2. \A r \in roots : r \in alive
    BY <1>1, SeqFacts DEF TreesInv, Root, Roots, ToSet
  <2>3. \A n \in alive : Kids(heap, n) \subseteq alive
    BY <2>1 DEF Forest, Ordered, Kids
  <2>4. \A r \in roots : mdb_sql_walk_tree(heap, r, {}) \subseteq alive
    <3> SUFFICES ASSUME NEW r \in roots PROVE mdb_sql_walk_tree(heap, r, {}) \subseteq alive
      OBVIOUS
    <3>1. r \in alive /\ r \in 0 .. Len(heap)
      BY <2>1, <2>2
    <3> HIDE DEF alive
    <3> QED
      BY <2>1, <2>3, <3>1, WalkCloses DEF Forest
  <2>5. nodes \subseteq alive
    BY <2>4
  <2>6. nodes \cap dead = {}
    BY <2>5
  <2>7. \A n \in nodes :
          /\ heap[n].left = 0 \/ heap[n].left # heap[n].right
          /\ \A m \in nodes \ {n} : Kids(heap, n) \cap Kids(heap, m) = {}
    <3>1. \A n \in nodes : n \in 1 .. Len(heap)
      BY <2>5
    <3> HIDE DEF nodes
    <3> QED
      BY <2>1, <3>1 DEF Forest
  <2> QED
    BY <2>6, <2>7 DEF TreesLive, Kids
<1> QED
  BY <1>1, QueryTrees, PTL

-----------------------------------------------------------------------------
(* What is held *)

\* A DESCRIBE is reduced right behind its table.
LEMMA DescribeFollows ==
  ASSUME TodoInv, pc = "parse", todo # <<>>, Tail(todo) # <<>>, Head(Tail(todo)).rule = "describe"
  PROVE  Head(todo).rule = "table" /\ Done = 0
<1>1. /\ Done \in Nat /\ Done + 1 \in 1 .. Len(Parse(stmt)) /\ IsSeq(Tail(todo))
      /\ Len(Tail(todo)) = Len(Parse(stmt)) - (Done + 1)
      /\ \A i \in 1 .. Len(Tail(todo)) : Tail(todo)[i] = Parse(stmt)[Done + 1 + i]
      /\ RuleIs(stmt, Done + 1, Head(todo)) \/ Head(todo).rule = "error"
      /\ Head(todo).rule \in Final \cup {"error"} => Tail(todo) = <<>>
      /\ IsSeq(Parse(stmt))
  BY NextRule
<1>2. IsStatement(stmt)
  BY Described
<1>3. Head(Tail(todo)) = Tail(todo)[1] /\ Len(Tail(todo)) >= 1 /\ Len(Tail(todo)) \in Nat
  BY <1>1, TailSeq, SeqFacts
<1>4. Done + 2 \in 1 .. Len(Parse(stmt)) /\ Tail(todo)[1] = Parse(stmt)[Done + 2]
  <2>1. Len(Parse(stmt)) \in Nat
    BY <1>1, SeqFacts
  <2>2. 1 \in 1 .. Len(Tail(todo)) /\ Done + 1 + 1 = Done + 2
    BY <1>1, <1>3
  <2>3. Done + 2 \in 1 .. Len(Parse(stmt))
    <3> DEFINE left == Len(Tail(todo))
               all  == Len(Parse(stmt))
               i    == Done
    <3>1. left = all - (i + 1) /\ left \in Nat /\ all \in Nat /\ i \in Nat /\ left >= 1
      BY <1>1, <1>3, <2>1
    <3> HIDE DEF left, all, i
    <3>2. i + 2 \in 1 .. all
      BY <3>1
    <3> QED
      BY <3>2 DEF all, i
  <2> QED
    BY <1>1, <2>2, <2>3
<1>5. RuleIs(stmt, Done + 2, Head(Tail(todo)))
  <2>1. Head(Tail(todo)) = Parse(stmt)[Done + 2] /\ Head(Tail(todo)) # [rule |-> "error"]
    BY <1>3, <1>4
  <2> QED
    BY <1>2, <1>4, <2>1, ParseAt
<1>6. stmt.kind = "describe" /\ Done = 0
  BY <1>1, <1>5 DEF RuleIs, Final
<1> QED
  BY <1>1, <1>6 DEF RuleIs, Known, Conditional, Final

\* A query holds the handle it was opened with and the table it has; what else it
\* holds is the definition of the table it names, if that has no columns or is described.
Owed(t) == t = stmt.from /\ (stmt.kind = "describe" \/ Found(t) = {})
HoldInv ==
  /\ held = [handles |-> held.handles, tables |-> held.tables]
  /\ pc = "none" => held.handles = {} /\ held.tables = {} /\ q.mdb = 0
  /\ pc # "none" /\ stmt.kind # "connect" => held.handles \subseteq {q.mdb} \ {0}
  /\ pc \in {"closed", "failed"} => q.mdb = 0
  /\ \A t \in held.tables : (q.cur /\ t = table.name) \/ Owed(t)
  /\ IsSeq(q.tables) /\ \A i \in 1 .. Len(q.tables) : q.tables[i] = stmt.from
  /\ pc = "parse" /\ Done = 0 => q.tables = <<>>
  /\ pc = "parse" /\ todo # <<>> => (Head(todo).rule = "describe" => q.tables = <<stmt.from>>)

LEMMA OwedSame ==
  ASSUME UNCHANGED <<stmt, catalog>>
  PROVE  \A t : Owed(t)' <=> Owed(t)
<1> SUFFICES ASSUME NEW t PROVE Owed(t)' <=> Owed(t)
  OBVIOUS
<1>1. Named(t)' = Named(t)
  BY DEF Named
<1>2. Found(t)' = Found(t)
  <2> DEFINE first(S) == Min(S)
  <2> HIDE DEF first
  <2>1. Found(t) = {catalog[i] : i \in {j \in Named(t) : j = first(Named(t)) /\ catalog[j].state = "ok"}}
    BY DEF Found, first
  <2>2. Found(t)' = {catalog[i] : i \in {j \in Named(t) : j = first(Named(t)) /\ catalog[j].state = "ok"}}
    BY <1>1 DEF Found, first
  <2> QED
    BY <2>1, <2>2
<1> QED
  BY <1>2 DEF Owed

LEMMA HoldKept ==
  ASSUME ParseInv, HoldInv, ~q.cur, NEW rule, Reducing(rule), rule # "table",
         q'.mdb = q.mdb \/ stmt.kind = "connect", q'.tables \in {q.tables, <<>>}, held' = held
  PROVE  HoldInv'
<1>1. pc = "parse" /\ todo # <<>> /\ todo' = Tail(todo) /\ UNCHANGED <<stmt, catalog, pc>> /\ Head(todo).rule = rule
  BY DEF Reducing
<1>2. Done' = Done + 1 /\ Done \in Nat /\ Done' # 0
  BY <1>1, NextRule, ReducingKeepsTodo DEF ParseInv
<1>3. todo' # <<>> => Head(todo').rule # "describe"
  BY <1>1, DescribeFollows DEF ParseInv
<1>4. \A t \in held'.tables : Owed(t)'
  BY <1>1, OwedSame DEF HoldInv
<1>5. IsSeq(q'.tables) /\ \A i \in 1 .. Len(q'.tables) : q'.tables[i] = stmt.from
  BY NoSeq DEF HoldInv
<1> QED
  BY <1>1, <1>2, <1>3, <1>4, <1>5 DEF HoldInv

HeldAlso(names) == held' = [held EXCEPT !.tables = @ \cup names]

\* The definition read is held with the table that it becomes.
LEMMA HoldTable ==
  ASSUME ParseInv, HoldInv, ~q.cur, NEW rule, Reducing(rule), rule \in Final,
         q'.mdb = q.mdb, q'.tables \in {q.tables, <<>>}, NEW names,
         HeldAlso(names),
         \A t \in names : (q'.cur /\ t = table'.name) \/ Owed(t)
  PROVE  HoldInv'
<1>1. pc = "parse" /\ todo # <<>> /\ todo' = Tail(todo) /\ UNCHANGED <<stmt, catalog, pc>> /\ Head(todo).rule = rule
  BY DEF Reducing
<1>2. Done' = Done + 1 /\ Done \in Nat /\ Done' # 0
  BY <1>1, NextRule, ReducingKeepsTodo DEF ParseInv
<1>3. todo' = <<>>
  BY <1>1, NextRule DEF ParseInv
<1>4. held'.handles = held.handles /\ held'.tables = held.tables \cup names
      /\ held' = [handles |-> held'.handles, tables |-> held'.tables]
  BY DEF HoldInv, HeldAlso
<1>5. \A t \in held'.tables : (q'.cur /\ t = table'.name) \/ Owed(t)'
  BY <1>1, <1>4, OwedSame DEF HoldInv
<1>6. IsSeq(q'.tables) /\ \A i \in 1 .. Len(q'.tables) : q'.tables[i] = stmt.from
  BY NoSeq DEF HoldInv
<1> QED
  BY <1>1, <1>2, <1>3, <1>4, <1>5, <1>6 DEF HoldInv

LEMMA ReduceKeepsHold ==
  ASSUME ParseInv, HoldInv, Reduce
  PROVE  HoldInv'
<1> DEFINE rule == Head(todo).rule
<1>1. pc = "parse" /\ todo # <<>> /\ ~q.cur /\ q.cur = FALSE /\ CurInv /\ TodoInv /\ DOMAIN q = Fields
      /\ table = NoTable /\ Reducing(rule) /\ UNCHANGED <<stmt, catalog, pc>> /\ todo' = Tail(todo)
  BY ReducesOne DEF Reducing, ParseInv, CurInv
<1>2. /\ Done \in Nat /\ Done' = Done + 1
      /\ RuleIs(stmt, Done + 1, Head(todo)) \/ rule = "error"
      /\ rule \in Final \cup {"error"} => todo' = <<>>
  BY <1>1, NextRule, ReducingKeepsTodo
<1>3. ASSUME NEW e, ResetWith(e), rule # "table" PROVE HoldInv'
  <2>1. q'.mdb = q.mdb /\ q'.tables = <<>> /\ held' = held
    BY <1>1, <1>3, ResetWithIs
  <2> HIDE DEF rule
  <2> QED
    BY <1>1, <1>3, <2>1, HoldKept
<1>4. ASSUME held' = held, q'.mdb = q.mdb \/ stmt.kind = "connect", q'.tables = q.tables, rule # "table"
      PROVE  HoldInv'
  <2> HIDE DEF rule
  <2> QED
    BY <1>1, <1>4, HoldKept
<1>5. ASSUME rule \in Final, q'.mdb = q.mdb, q'.tables \in {q.tables, <<>>}, NEW names,
             HeldAlso(names),
             \A t \in names : (q'.cur /\ t = table'.name) \/ Owed(t)
      PROVE  HoldInv'
  <2> HIDE DEF rule
  <2> QED
    BY <1>1, <1>5, HoldTable
<1>6. CASE mdb_sql_add_limit \/ mdb_sql_get_limit
  BY <1>1, <1>4, <1>6 DEF mdb_sql_add_limit, mdb_sql_get_limit, KeepMemory, Fields, Reducing
<1>7. CASE mdb_sql_add_column \/ mdb_sql_all_columns \/ mdb_sql_sel_count
  BY <1>1, <1>4, <1>7 DEF mdb_sql_add_column, mdb_sql_all_columns, mdb_sql_sel_count, KeepMemory, Fields, Reducing
<1>8. CASE mdb_sql_add_table
  <2>1. /\ held' = held /\ q'.mdb = q.mdb /\ q'.tables = Append(q.tables, Head(todo).name) /\ rule = "table"
        /\ q'.cur = FALSE
    BY <1>1, <1>8 DEF mdb_sql_add_table, KeepMemory, Fields, Reducing
  <2>2. Head(todo).name = stmt.from /\ (stmt.kind = "describe" => Done = 0)
    BY <1>2, <2>1 DEF RuleIs
  <2>3. IsSeq(q.tables) /\ Len(q.tables) \in Nat
    BY SeqFacts DEF HoldInv
  <2>4. /\ IsSeq(q'.tables) /\ Len(q'.tables) = Len(q.tables) + 1
        /\ \A i \in 1 .. Len(q.tables) : q'.tables[i] = q.tables[i]
        /\ q'.tables[Len(q.tables) + 1] = stmt.from
    BY <2>1, <2>2, <2>3, AppendSeq
  <2>5. \A i \in 1 .. Len(q'.tables) : q'.tables[i] = stmt.from
    BY <2>3, <2>4 DEF HoldInv
  <2>6. ASSUME todo' # <<>>, Head(todo').rule = "describe" PROVE q'.tables = <<stmt.from>>
    <3>1. Done = 0
      BY <1>1, <2>6, DescribeFollows
    <3>2. q.tables = <<>>
      BY <1>1, <3>1 DEF HoldInv
    <3> QED
      BY <2>1, <2>2, <3>2
  <2>7. \A t \in held'.tables : Owed(t)'
    BY <1>1, <2>1, OwedSame DEF HoldInv
  <2> QED
    BY <1>1, <1>2, <2>1, <2>4, <2>5, <2>6, <2>7, SMTT(20) DEF HoldInv
<1>9. ASSUME NEW r, DOMAIN r = Fields, r.mdb = q.mdb, r.tables = q.tables, NEW n,
             q' = mdb_sql_push_node(r, n), held' = held, rule # "table"
      PROVE  HoldInv'
  <2>1. q'.mdb = q.mdb /\ q'.tables = q.tables
    <3>1. LET p == mdb_sql_push_node(r, n) IN p.mdb = r.mdb /\ p.tables = r.tables
      BY <1>9, PushIs
    <3> QED
      BY <1>9, <3>1
  <2> QED
    BY <1>4, <1>9, <2>1
<1>10. CASE mdb_sql_add_sarg
  BY <1>1, <1>9, <1>10 DEF mdb_sql_add_sarg, AddNode, Reducing
<1>11. CASE mdb_sql_eval_expr
  <2>1. /\ rule = "const"
        /\ ResetWith("literals") \/ (q' = mdb_sql_push_node(q, Len(heap')) /\ held' = held)
    BY <1>11 DEF mdb_sql_eval_expr, AddNode, Reducing
  <2> QED
    BY <1>1, <1>3, <1>9, <2>1
<1>12. CASE mdb_sql_strptime \/ yyerrlab
  BY <1>3, <1>12 DEF mdb_sql_strptime, yyerrlab, Reducing
<1>13. CASE mdb_sql_add_not
  <2>1. /\ rule = "not"
        /\ ResetWith("parse") \/ (q' = mdb_sql_push_node(mdb_sql_pop_node(q), Len(heap')) /\ held' = held)
    BY <1>13 DEF mdb_sql_add_not, AddNode, Reducing
  <2>2. LET p == mdb_sql_pop_node(q) IN DOMAIN p = Fields /\ p.mdb = q.mdb /\ p.tables = q.tables
    BY <1>1, PopIs
  <2> QED
    BY <1>3, <1>9, <2>1, <2>2
<1>14. ASSUME NEW name \in {"and", "or"}, NEW op, AddBinary(name, op) PROVE HoldInv'
  <2>1. /\ rule = name
        /\ \/ ResetWith("parse")
           \/ q' = mdb_sql_push_node(mdb_sql_pop_node(mdb_sql_pop_node(q)), Len(heap')) /\ held' = held
    BY <1>14 DEF AddBinary, AddNode, Reducing
  <2>2. LET p == mdb_sql_pop_node(q) IN DOMAIN p = Fields /\ p.mdb = q.mdb /\ p.tables = q.tables
    BY <1>1, PopIs
  <2>3. LET p == mdb_sql_pop_node(mdb_sql_pop_node(q)) IN DOMAIN p = Fields /\ p.mdb = q.mdb /\ p.tables = q.tables
    BY <2>2, PopIs
  <2> QED
    BY <1>3, <1>9, <2>1, <2>3
<1>15. CASE mdb_sql_add_and \/ mdb_sql_add_or
  BY <1>14, <1>15 DEF mdb_sql_add_and, mdb_sql_add_or
<1>16. CASE mdb_sql_open
  <2>1. rule = "connect" /\ stmt.kind = "connect"
    BY <1>2, <1>16 DEF mdb_sql_open, Reducing, RuleIs, Final
  <2>2. /\ held' = [held EXCEPT !.handles = @ \cup {q.mdb + 1}] \/ held' = held
        /\ q'.tables = q.tables /\ q'.cur = FALSE
    BY <1>1, <1>16 DEF mdb_sql_open, Fields
  <2>3. held'.tables = held.tables /\ held' = [handles |-> held'.handles, tables |-> held'.tables]
    BY <2>2 DEF HoldInv
  <2>4. \A t \in held'.tables : Owed(t)'
    BY <1>1, <2>3, OwedSame DEF HoldInv
  <2>5. todo' = <<>>
    BY <1>2, <2>1 DEF Final
  <2>6. IsSeq(q'.tables) /\ \A i \in 1 .. Len(q'.tables) : q'.tables[i] = stmt.from
    BY <2>2 DEF HoldInv
  <2> QED
    BY <1>1, <1>2, <2>1, <2>3, <2>4, <2>5, <2>6 DEF HoldInv
<1>17. CASE mdb_sql_close
  <2>1. rule = "disconnect" /\ stmt.kind = "disconnect"
    BY <1>2, <1>17 DEF mdb_sql_close, Reducing, RuleIs, Final
  <2>2. held' = [held EXCEPT !.handles = @ \ {q.mdb}] /\ q'.tables = q.tables /\ q'.mdb = 0 /\ q'.cur = FALSE
    BY <1>1, <1>17 DEF mdb_sql_close, Fields
  <2>3. /\ held'.tables = held.tables /\ held'.handles = held.handles \ {q.mdb}
        /\ held' = [handles |-> held'.handles, tables |-> held'.tables]
    BY <2>2 DEF HoldInv
  <2>4. \A t \in held'.tables : Owed(t)'
    BY <1>1, <2>3, OwedSame DEF HoldInv
  <2>5. todo' = <<>>
    BY <1>2, <2>1 DEF Final
  <2>6. IsSeq(q'.tables) /\ \A i \in 1 .. Len(q'.tables) : q'.tables[i] = stmt.from
    BY <2>2 DEF HoldInv
  <2>7. held'.handles \subseteq {q'.mdb} \ {0}
    BY <1>1, <2>1, <2>3 DEF HoldInv
  <2> QED
    BY <1>1, <1>2, <2>1, <2>3, <2>4, <2>5, <2>6, <2>7 DEF HoldInv
<1>18. ASSUME NEW cols, NEW rows, SetTemp(cols, rows), rule \in Final, NEW names,
              \A t \in names : t = "#temp" \/ Owed(t), HeldAlso(names)
       PROVE  HoldInv'
  <2>1. q'.cur = TRUE /\ table'.name = "#temp" /\ q'.mdb = q.mdb /\ q'.tables = q.tables
    BY <1>1, <1>18, SetTempIs
  <2>2. \A t \in names : (q'.cur /\ t = table'.name) \/ Owed(t)
    BY <1>18, <2>1
  <2> HIDE DEF rule
  <2> QED
    BY <1>5, <1>18, <2>1, <2>2
<1>19. CASE mdb_sql_listtables
  <2>1. rule \in Final /\ HeldAlso({"#temp"})
    BY <1>19 DEF mdb_sql_listtables, Reducing, Final, HeldAlso
  <2>2. \E rows : SetTemp(<<"Tables">>, rows)
    BY <1>19 DEF mdb_sql_listtables
  <2> HIDE DEF rule
  <2> QED
    BY <1>18, <2>1, <2>2
<1>20. ASSUME q' = mdb_sql_reset([q EXCEPT !.err = "columns"]), NEW name, rule \in Final,
              HeldAlso({name}), Owed(name)
       PROVE  HoldInv'
  <2>1. DOMAIN [q EXCEPT !.err = "columns"] = Fields /\ [q EXCEPT !.err = "columns"].mdb = q.mdb
    BY <1>1 DEF Fields
  <2>2. q'.mdb = q.mdb /\ q'.tables = <<>>
    BY <1>20, <2>1, ResetIs
  <2> QED
    BY <1>5, <1>20, <2>2
<1>21. CASE mdb_sql_describe_table
  <2> DEFINE name == q.tables[1]
             cols == <<"Column Name", "Type", "Size">>
  <2>1. rule = "describe" /\ rule \in Final /\ stmt.kind = "describe"
    BY <1>2, <1>21 DEF mdb_sql_describe_table, Reducing, RuleIs, Final
  <2>2. name = stmt.from
    BY <1>1, <2>1 DEF HoldInv
  <2>3. Owed(name)
    BY <2>1, <2>2 DEF Owed
  <2>4. \/ ResetWith("table")
        \/ q' = mdb_sql_reset([q EXCEPT !.err = "columns"]) /\ HeldAlso({name})
        \/ (\E rows : SetTemp(cols, rows)) /\ HeldAlso({name, "#temp"})
    BY <1>21 DEF mdb_sql_describe_table, HeldAlso
  <2> HIDE DEF name, cols, rule
  <2>5. CASE (\E rows : SetTemp(cols, rows)) /\ HeldAlso({name, "#temp"})
    BY <1>18, <2>1, <2>3, <2>5
  <2> QED
    BY <1>3, <1>20, <2>1, <2>3, <2>4, <2>5
<1>22. CASE mdb_sql_select
  <2>1. rule = "select" /\ rule \in Final /\ stmt.kind = "select"
    BY <1>2, <1>22 DEF mdb_sql_select, Reducing, RuleIs, Final
  <2>2. CASE q.tables = <<>>
    BY <1>4, <1>22, <2>1, <2>2 DEF mdb_sql_select, KeepMemory
  <2>3. CASE q.tables # <<>>
    <3> DEFINE name == q.tables[1]
               t == catalog[Min(Named(name))]
               cols == q.columns \o (IF q.all THEN t.order ELSE <<>>)
               tree == mdb_sql_walk_tree(heap, q.tree, {})
    <3>1. name = stmt.from
      BY <2>3, TailSeq, SeqFacts DEF HoldInv
    <3>2. \/ ResetWith("table")
          \/ /\ t.state = "no columns" /\ q' = mdb_sql_reset([q EXCEPT !.err = "columns"])
             /\ HeldAlso({name})
          \/ Select(t)
      BY <1>22, <2>3 DEF mdb_sql_select, HeldAlso
    <3>3. t.state = "no columns" => Owed(name)
      BY <3>1 DEF Owed, Found
    <3> HIDE DEF name
    <3>4. \/ /\ SetTemp(<<"count">>, <<TempRow(<<"count">>, <<t.nrows>>)>>)
             /\ HeldAlso({"#temp"})
          \/ ResetWith("column")
          \/ /\ table'.name = t.name
             /\ \E limit : q' = [q EXCEPT !.columns = cols, !.tree = 0, !.cur = TRUE, !.limit = limit, !.percent = FALSE]
             /\ HeldAlso({t.name})
          \/ ~Select(t)
      BY NoTableIs DEF Select, TableFields, HeldAlso
    <3> HIDE DEF t, cols
    <3>5. CASE /\ table'.name = t.name
               /\ \E limit : q' = [q EXCEPT !.columns = cols, !.tree = 0, !.cur = TRUE, !.limit = limit, !.percent = FALSE]
               /\ HeldAlso({t.name})
      <4>1. q'.cur = TRUE /\ q'.mdb = q.mdb /\ q'.tables = q.tables
        BY <1>1, <3>5 DEF Fields
      <4> HIDE DEF rule
      <4> QED
        BY <1>5, <2>1, <3>5, <4>1
    <3>6. CASE /\ SetTemp(<<"count">>, <<TempRow(<<"count">>, <<t.nrows>>)>>)
               /\ HeldAlso({"#temp"})
      BY <1>18, <2>1, <3>6
    <3> HIDE DEF rule
    <3> QED
      BY <1>3, <1>20, <2>1, <3>2, <3>3, <3>4, <3>5, <3>6
  <2> QED
    BY <2>2, <2>3
<1> QED
  BY <1>6, <1>7, <1>8, <1>10, <1>11, <1>12, <1>13, <1>15, <1>16, <1>17, <1>19, <1>21, <1>22 DEF Reduce

\* A call that releases nothing.
LEMMA CallKeepsHold ==
  ASSUME HoldInv, UNCHANGED <<stmt, catalog, held>>, pc # "none", pc' \in {"opened", "query", "fetch", "end"},
         q'.mdb = q.mdb, q'.cur = q.cur, q'.tables = q.tables, table'.name = table.name
  PROVE  HoldInv'
<1>1. \A t \in held'.tables : (q'.cur /\ t = table'.name) \/ Owed(t)'
  BY OwedSame DEF HoldInv
<1>2. IsSeq(q'.tables) /\ \A i \in 1 .. Len(q'.tables) : q'.tables[i] = stmt.from
  BY DEF HoldInv
<1> QED
  BY <1>1, <1>2 DEF HoldInv

\* mdb_sql_exit closes the handle and frees the table.
LEMMA ExitReleases ==
  ASSUME HoldInv, CurInv, UNCHANGED <<stmt, catalog>>, pc # "none", pc' \in {"closed", "failed"}, Exit
  PROVE  HoldInv'
<1>1. /\ q'.mdb = 0 /\ q'.cur = FALSE /\ q'.tables = <<>>
      /\ held'.handles = held.handles \ {q.mdb}
      /\ held'.tables = IF q.cur THEN held.tables \ {table.name} ELSE held.tables
      /\ held' = [handles |-> held'.handles, tables |-> held'.tables]
  BY DEF Exit, mdb_sql_init
<1>2. \A t \in held'.tables : Owed(t)'
  BY <1>1, OwedSame DEF HoldInv
<1>3. stmt.kind # "connect" => held'.handles \subseteq {q'.mdb} \ {0}
  BY <1>1 DEF HoldInv
<1>4. IsSeq(q'.tables) /\ \A i \in 1 .. Len(q'.tables) : q'.tables[i] = stmt.from
  BY <1>1, NoSeq
<1> QED
  BY <1>1, <1>2, <1>3, <1>4 DEF HoldInv

\* cmdb_query_open opens one handle, or none.
LEMMA OpenHolds ==
  ASSUME ParseInv, HoldInv, cmdb_query_open, ParseInv'
  PROVE  HoldInv'
<1>1. PICK s \in Queries, found \in BOOLEAN :
         /\ stmt' = s.stmt
         /\ IF found THEN /\ q' = [mdb_sql_init EXCEPT !.mdb = 1]
                          /\ held' = [held EXCEPT !.handles = {1}]
                          /\ pc' = "parse" /\ todo' = Parse(s.stmt)
            ELSE /\ q' = [mdb_sql_init EXCEPT !.err = "locate"]
                 /\ pc' = "opened" /\ UNCHANGED <<held, todo>>
  BY DEF cmdb_query_open
<1>2. held.handles = {} /\ held.tables = {} /\ held = [handles |-> held.handles, tables |-> held.tables]
  BY DEF cmdb_query_open, HoldInv
<1>3. /\ q'.tables = <<>> /\ q'.mdb = (IF found THEN 1 ELSE 0)
      /\ held' = [handles |-> held'.handles, tables |-> held'.tables] /\ held'.tables = {}
      /\ held'.handles = (IF found THEN {1} ELSE {})
  BY <1>1, <1>2 DEF mdb_sql_init
<1>4. IsSeq(q'.tables) /\ \A i \in 1 .. Len(q'.tables) : q'.tables[i] = stmt'.from
  BY <1>3, NoSeq
<1>5. ASSUME pc' = "parse", todo' # <<>> PROVE Head(todo').rule # "describe"
  <2>1. stmt' = s.stmt /\ todo' = Parse(s.stmt) /\ IsStatement(s.stmt)
    BY <1>1, <1>5, QueriesAssumption
  <2>2. IsSeq(todo') /\ Len(todo') >= 1 /\ Len(todo') \in Nat /\ Head(todo') = todo'[1]
    BY <1>5, <2>1, ParseAt, TailSeq, SeqFacts
  <2>3. RuleIs(s.stmt, 1, Head(todo')) \/ Head(todo') = [rule |-> "error"]
    BY <2>1, <2>2, ParseAt
  <2> QED
    BY <2>3 DEF RuleIs
<1>6. pc' \in {"parse", "opened"}
  BY <1>1
<1> QED
  BY <1>3, <1>4, <1>5, <1>6 DEF HoldInv

\* A closed query holds nothing, whatever became of it, but for what a CONNECT replaced and
\* the definition that DESCRIBE TABLE read or whose columns were unreadable.
THEOREM QueryReleased == Spec => []Released
<1>1. ASSUME Init PROVE HoldInv
  <2>1. pc = "none" /\ q.mdb = 0 /\ q.tables = <<>> /\ held = [handles |-> {}, tables |-> {}]
    BY <1>1 DEF Init, mdb_sql_init
  <2>2. IsSeq(q.tables) /\ \A i \in 1 .. Len(q.tables) : q.tables[i] = stmt.from
    BY <2>1, NoSeq
  <2> QED
    BY <2>1, <2>2 DEF HoldInv
<1>2. ASSUME ParseInv, ParseInv', HoldInv, [Next]_vars PROVE HoldInv'
  <2>0. CurInv /\ DOMAIN q = Fields /\ DOMAIN table = TableFields
    BY <1>2 DEF ParseInv, CurInv
  <2>1. CASE UNCHANGED vars
    <3>1. UNCHANGED <<stmt, catalog, pc, todo, q, table, held>>
      BY <2>1 DEF vars
    <3>2. \A t \in held'.tables : (q'.cur /\ t = table'.name) \/ Owed(t)'
      BY <1>2, <3>1, OwedSame DEF HoldInv
    <3>3. Done' = Done
      BY <3>1 DEF Done, Parse, Whole, Rules, TopRules, ColumnRules, TableRule, WhereRules, LimitRules
    <3>4. IsSeq(q'.tables) /\ \A i \in 1 .. Len(q'.tables) : q'.tables[i] = stmt.from
      BY <1>2, <3>1 DEF HoldInv
    <3> QED
      BY <1>2, <3>1, <3>2, <3>3, <3>4 DEF HoldInv
  <2>2. CASE cmdb_query_open
    BY <1>2, <2>2, OpenHolds
  <2>3. CASE Reduce
    BY <1>2, <2>3, ReduceKeepsHold
  <2>4. CASE mdb_sql_run_query
    <3>1. q'.mdb = q.mdb /\ q'.cur = q.cur /\ q'.tables = q.tables /\ table'.name = table.name
      BY <2>0, <2>4 DEF mdb_sql_run_query, mdb_sql_bind_all, Fields, TableFields
    <3> QED
      BY <1>2, <2>4, <3>1, CallKeepsHold DEF mdb_sql_run_query
  <2>5. CASE OpenQuery
    BY <1>2, <2>0, <2>5, ExitReleases, CallKeepsHold DEF OpenQuery
  <2>6. CASE cmdb_query_next
    BY <1>2, <2>6, CallKeepsHold DEF cmdb_query_next
  <2>7. CASE FetchStep
    BY <1>2, <2>7, CallKeepsHold DEF FetchStep, ScanStep, query
  <2>8. CASE mdb_sql_fetch_row
    <3>1. q'.mdb = q.mdb /\ q'.cur = q.cur /\ q'.tables = q.tables
      BY <2>0, <2>8 DEF mdb_sql_fetch_row, Fields
    <3>2. UNCHANGED <<stmt, catalog, held, table>> /\ pc = "fetch" /\ pc' \in {"query", "end"}
      BY <2>8 DEF mdb_sql_fetch_row
    <3> QED
      BY <1>2, <3>1, <3>2, CallKeepsHold
  <2>9. CASE cmdb_query_close
    BY <1>2, <2>0, <2>9, ExitReleases DEF cmdb_query_close
  <2> QED
    BY <1>2, <2>1, <2>2, <2>3, <2>4, <2>5, <2>6, <2>7, <2>8, <2>9 DEF Next
<1>3. ASSUME ParseInv, HoldInv PROVE Released
  BY <1>3 DEF ParseInv, CurInv, HoldInv, Released, Owed
<1> QED
  BY <1>1, <1>2, <1>3, QueryParsed, PTL DEF Spec

-----------------------------------------------------------------------------
(* What the reductions of a statement have built *)

\* How far k reductions are into the part from `from` to `to`.
Part(k, from, to) == IF k <= from THEN 0 ELSE IF k >= to THEN to - from ELSE k - from

LEMMA PartStep ==
  ASSUME NEW k \in Nat, NEW from \in Nat, NEW to \in Nat, from <= to
  PROVE  /\ Part(k, from, to) \in Nat /\ Part(k, from, to) <= to - from
         /\ from <= k /\ k < to => Part(k, from, to) = k - from /\ Part(k + 1, from, to) = Part(k, from, to) + 1
         /\ ~(from <= k /\ k < to) => Part(k + 1, from, to) = Part(k, from, to)
         /\ k <= from => Part(k, from, to) = 0
         /\ k >= to => Part(k, from, to) = to - from
  BY DEF Part

\* The columns, the items of the condition and the limit that k reductions of a select have read.
Columns(s, k) == IF Special(s) THEN 0 ELSE Part(k, TopEnd(s), ColumnEnd(s))
Items(s, k)   == Part(k, TableEnd(s), WhereEnd(s))
LimitAt(s, k) == IF s.limit # -1 /\ k > WhereEnd(s) THEN s.limit ELSE IF k >= 1 THEN s.top.n ELSE -1

\* Where the reduction behind k others stands among those of a select.
LEMMA PlaceOf ==
  ASSUME NEW s, IsStatement(s), s.kind = "select", NEW k \in Nat, NEW i, i = k + 1, NEW r, RuleIs(s, i, r)
  PROVE  /\ r.rule \in Known \ {"describe", "list", "connect", "disconnect"}
         /\ r.rule = "top" => k = 0 /\ TopEnd(s) = 1 /\ r.n = s.top.n /\ r.percent = s.top.percent
         /\ r.rule = "column" => ~Special(s) /\ TopEnd(s) <= k /\ k < ColumnEnd(s)
                                 /\ r.name = s.cols[k - TopEnd(s) + 1]
         /\ r.rule \in {"*", "count"} => s.cols = <<r.rule>> /\ Special(s) /\ TopEnd(s) = k /\ ColumnEnd(s) = k + 1
         /\ r.rule = "table" => k = ColumnEnd(s) /\ TableEnd(s) = k + 1 /\ r.name = s.from
         /\ r.rule \in Conditional => TableEnd(s) <= k /\ k < WhereEnd(s)
                                      /\ r = Reduction(s.where[k - TableEnd(s) + 1])
                                      /\ k - TableEnd(s) + 1 \in 1 .. Len(s.where)
         /\ r.rule = "limit" => k = WhereEnd(s) /\ s.limit # -1 /\ r.n = s.limit
         /\ r.rule = "select" => k = LimitEnd(s)
<1> DEFINE T == TopEnd(s)
           C == ColumnEnd(s)
           B == TableEnd(s)
           W == WhereEnd(s)
           L == LimitEnd(s)
           m == Len(s.where)
<1>1. /\ T \in Nat /\ C \in Nat /\ B \in Nat /\ W \in Nat /\ L \in Nat
      /\ Special(s) => C = T + 1
      /\ B = C + 1 /\ W = B + m /\ m \in Nat
  <2>1. TopEnd(s) \in {0, 1}
    BY EndsAre
  <2>2. T \in Nat
    BY <2>1
  <2> QED
    BY <2>2, EndsAre
<1>2. /\ r.rule \in Known
      /\ r.rule = "top" => i = 1 /\ T = 1 /\ r.n = s.top.n /\ r.percent = s.top.percent
      /\ r.rule = "limit" => i = W + 1 /\ s.limit # -1 /\ r.n = s.limit
      /\ r.rule = "select" => i = L + 1
  BY Zenon DEF RuleIs
<1>3. r.rule = "column" => ~Special(s) /\ i - T \in 1 .. Len(s.cols) /\ i <= C /\ r.name = s.cols[i - T]
  BY DEF RuleIs
<1>4. r.rule \in {"*", "count"} => s.cols = <<r.rule>> /\ i = C
  BY DEF RuleIs
<1>5. r.rule = "table" => i = B /\ r.name = s.from
  BY DEF RuleIs
<1>6. r.rule \in Conditional => i - B \in 1 .. m /\ r = Reduction(s.where[i - B])
  BY Zenon DEF RuleIs
<1>7. r.rule \in Final => r.rule = "select"
  BY DEF RuleIs
<1> HIDE DEF T, C, B, W, L, m
<1>8. /\ i = 1 => k = 0
      /\ i = B => k = C
      /\ i = W + 1 => k = W
      /\ i = L + 1 => k = L
      /\ i = C /\ C = T + 1 => T = k
      /\ i - T = k - T + 1 /\ i - B = k - B + 1
  <2>1. T \in Nat /\ C \in Nat /\ B \in Nat /\ W \in Nat /\ L \in Nat /\ B = C + 1
    BY <1>1
  <2> QED
    BY <2>1
<1>9. r.rule = "column" => T <= k /\ k < C
  BY <1>1, <1>3
<1>10. r.rule \in {"*", "count"} => Special(s) /\ T = k /\ C = k + 1
  <2>1. r.rule \in {"*", "count"} => Special(s)
    BY <1>4 DEF Special
  <2> QED
    BY <1>1, <1>4, <1>8, <2>1
<1>11. r.rule \in Conditional => B <= k /\ k < W
  BY <1>1, <1>6
<1>12. r.rule \in Known \ {"describe", "list", "connect", "disconnect"}
  BY <1>2, <1>7 DEF Final
<1>13. /\ r.rule = "column" => ~Special(s) /\ T <= k /\ k < C /\ r.name = s.cols[k - T + 1]
       /\ r.rule \in Conditional => B <= k /\ k < W /\ r = Reduction(s.where[k - B + 1])
                                    /\ k - B + 1 \in 1 .. m
  BY <1>3, <1>6, <1>8, <1>9, <1>11, Zenon
<1> QED
  BY <1>2, <1>4, <1>5, <1>8, <1>10, <1>12, <1>13 DEF T, C, B, W, L, m

\* What a reduction of a select adds.
LEMMA PartsStep ==
  ASSUME NEW s, IsStatement(s), s.kind = "select", NEW k \in Nat, NEW i, i = k + 1, NEW r, RuleIs(s, i, r),
         r.rule # "select"
  PROVE  /\ Columns(s, k) \in Nat /\ Items(s, k) \in Nat
         /\ IF r.rule = "column"
              THEN Columns(s, k + 1) = Columns(s, k) + 1 /\ r.name = s.cols[Columns(s, k) + 1]
              ELSE Columns(s, k + 1) = Columns(s, k)
         /\ IF r.rule \in Conditional
              THEN /\ Items(s, k + 1) = Items(s, k) + 1 /\ Items(s, k) + 1 \in 1 .. Len(s.where)
                   /\ r = Reduction(s.where[Items(s, k) + 1])
              ELSE Items(s, k + 1) = Items(s, k)
         /\ LimitAt(s, k + 1) = IF r.rule \in {"top", "limit"} THEN r.n ELSE LimitAt(s, k)
         /\ r.rule = "limit" => LimitAt(s, k) = s.top.n
         /\ k + 1 > WhereEnd(s) /\ s.limit # -1 => r.rule = "limit"
         /\ r.rule = "top" => r.n = s.top.n /\ r.percent = s.top.percent
         /\ r.rule # "top" /\ k = 0 => s.top.n = -1
         /\ (k + 1 >= ColumnEnd(s) /\ Special(s)) <=> ((k >= ColumnEnd(s) /\ Special(s)) \/ r.rule \in {"*", "count"})
         /\ r.rule \in {"*", "count"} => s.cols = <<r.rule>>
         /\ (k + 1 >= TableEnd(s)) <=> (k >= TableEnd(s) \/ r.rule = "table")
         /\ r.rule = "table" => ~(k >= TableEnd(s)) /\ r.name = s.from
<1> DEFINE T == TopEnd(s)
           C == ColumnEnd(s)
           B == TableEnd(s)
           W == WhereEnd(s)
           L == LimitEnd(s)
<1>1. /\ T \in Nat /\ T \in {0, 1} /\ (T = 1 <=> s.top.n # -1) /\ C \in Nat /\ B \in Nat /\ W \in Nat /\ L \in Nat
      /\ T + 1 <= C /\ (Special(s) => C = T + 1)
      /\ B = C + 1 /\ B <= W /\ L \in {W, W + 1} /\ (L = W <=> s.limit = -1)
  <2>1. /\ T \in Nat /\ T \in {0, 1} /\ (T = 1 <=> s.top.n # -1) /\ C \in Nat /\ B \in Nat /\ W \in Nat /\ L \in Nat
        /\ Special(s) => C = T + 1
        /\ ~Special(s) => C = T + Len(s.cols)
        /\ Len(s.cols) \in Nat /\ Len(s.cols) >= 1 /\ Len(s.where) \in Nat
        /\ B = C + 1 /\ W = B + Len(s.where) /\ L \in {W, W + 1} /\ (L = W <=> s.limit = -1)
    BY EndsAre
  <2> HIDE DEF T, C, B, W, L
  <2> QED
    BY <2>1
<1>2. /\ r.rule \in Known \ {"describe", "list", "connect", "disconnect"}
      /\ r.rule = "top" => k = 0 /\ T = 1 /\ r.n = s.top.n /\ r.percent = s.top.percent
      /\ r.rule = "column" => ~Special(s) /\ T <= k /\ k < C /\ r.name = s.cols[k - T + 1]
      /\ r.rule \in {"*", "count"} => s.cols = <<r.rule>> /\ Special(s) /\ T = k /\ C = k + 1
      /\ r.rule = "table" => k = C /\ B = k + 1 /\ r.name = s.from
      /\ r.rule \in Conditional => B <= k /\ k < W /\ r = Reduction(s.where[k - B + 1])
                                   /\ k - B + 1 \in 1 .. Len(s.where)
      /\ r.rule = "limit" => k = W /\ s.limit # -1 /\ r.n = s.limit
  BY PlaceOf
<1>3. r.rule \in {"top", "column", "*", "count", "table", "limit"} \/ r.rule \in Conditional
  BY <1>2 DEF Known, Final
<1>4. \A x \in Conditional : x \notin {"top", "column", "*", "count", "table", "limit"}
  BY DEF Conditional
<1> HIDE DEF T, C, B, W, L
<1>5. \/ r.rule = "top" /\ k < T
      \/ r.rule = "column" /\ T <= k /\ k < C /\ ~Special(s)
      \/ r.rule \in {"*", "count"} /\ T = k /\ C = k + 1 /\ Special(s)
      \/ r.rule = "table" /\ k = C
      \/ r.rule \in Conditional /\ B <= k /\ k < W
      \/ r.rule = "limit" /\ k = W /\ s.limit # -1
  BY <1>1, <1>2, <1>3
<1>6. /\ Part(k, T, C) \in Nat /\ Part(k, B, W) \in Nat
      /\ T <= k /\ k < C => Part(k, T, C) = k - T /\ Part(k + 1, T, C) = Part(k, T, C) + 1
      /\ ~(T <= k /\ k < C) => Part(k + 1, T, C) = Part(k, T, C)
      /\ B <= k /\ k < W => Part(k, B, W) = k - B /\ Part(k + 1, B, W) = Part(k, B, W) + 1
      /\ ~(B <= k /\ k < W) => Part(k + 1, B, W) = Part(k, B, W)
  <2>1. T <= C
    BY <1>1
  <2>2. /\ Part(k, T, C) \in Nat
        /\ T <= k /\ k < C => Part(k, T, C) = k - T /\ Part(k + 1, T, C) = Part(k, T, C) + 1
        /\ ~(T <= k /\ k < C) => Part(k + 1, T, C) = Part(k, T, C)
    BY <1>1, <2>1, PartStep, ZenonT(60)
  <2>3. /\ Part(k, B, W) \in Nat
        /\ B <= k /\ k < W => Part(k, B, W) = k - B /\ Part(k + 1, B, W) = Part(k, B, W) + 1
        /\ ~(B <= k /\ k < W) => Part(k + 1, B, W) = Part(k, B, W)
    BY <1>1, PartStep, ZenonT(60)
  <2> QED
    BY <2>2, <2>3
<1>7. /\ Columns(s, k) \in Nat /\ Items(s, k) \in Nat
      /\ IF r.rule = "column"
           THEN Columns(s, k + 1) = Columns(s, k) + 1 /\ r.name = s.cols[Columns(s, k) + 1]
           ELSE Columns(s, k + 1) = Columns(s, k)
  <2>1. Columns(s, k) = (IF Special(s) THEN 0 ELSE Part(k, T, C))
        /\ Columns(s, k + 1) = (IF Special(s) THEN 0 ELSE Part(k + 1, T, C)) /\ Items(s, k) = Part(k, B, W)
    BY DEF Columns, Items, T, C, B, W
  <2>2. r.rule = "column" <=> (T <= k /\ k < C /\ ~Special(s))
    BY <1>1, <1>4, <1>5
  <2> QED
    BY <1>2, <1>6, <2>1, <2>2
<1>8. IF r.rule \in Conditional
        THEN /\ Items(s, k + 1) = Items(s, k) + 1 /\ Items(s, k) + 1 \in 1 .. Len(s.where)
             /\ r = Reduction(s.where[Items(s, k) + 1])
        ELSE Items(s, k + 1) = Items(s, k)
  <2>1. Items(s, k) = Part(k, B, W) /\ Items(s, k + 1) = Part(k + 1, B, W)
    BY DEF Items, B, W
  <2>2. r.rule \in Conditional <=> (B <= k /\ k < W)
    BY <1>1, <1>4, <1>5
  <2> QED
    BY <1>2, <1>6, <2>1, <2>2
<1>9. /\ LimitAt(s, k + 1) = IF r.rule \in {"top", "limit"} THEN r.n ELSE LimitAt(s, k)
      /\ r.rule = "limit" => LimitAt(s, k) = s.top.n
      /\ k + 1 > W /\ s.limit # -1 => r.rule = "limit"
      /\ r.rule # "top" /\ k = 0 => s.top.n = -1
  <2>1. /\ LimitAt(s, k) = IF s.limit # -1 /\ k > W THEN s.limit ELSE IF k >= 1 THEN s.top.n ELSE -1
        /\ LimitAt(s, k + 1) = IF s.limit # -1 /\ k + 1 > W THEN s.limit ELSE IF k + 1 >= 1 THEN s.top.n ELSE -1
    BY DEF LimitAt, W
  <2>2. r.rule # "top" /\ k = 0 => s.top.n = -1
    BY <1>1, <1>5
  <2>3. CASE r.rule = "top"
    BY <1>1, <1>2, <1>5, <2>1, <2>3
  <2>4. CASE r.rule = "limit"
    BY <1>1, <1>2, <1>5, <2>1, <2>4
  <2>5. CASE r.rule \notin {"top", "limit"}
    <3>1. k < W
      BY <1>1, <1>5, <2>5
    <3>2. LimitAt(s, k + 1) = s.top.n /\ LimitAt(s, k) = s.top.n
      BY <1>1, <2>1, <2>2, <2>5, <3>1
    <3> QED
      BY <1>1, <2>2, <2>5, <3>1, <3>2
  <2> QED
    BY <2>2, <2>3, <2>4, <2>5
<1>10. /\ (k + 1 >= C /\ Special(s)) <=> ((k >= C /\ Special(s)) \/ r.rule \in {"*", "count"})
       /\ (k + 1 >= B) <=> (k >= B \/ r.rule = "table")
       /\ r.rule = "table" => ~(k >= B)
  <2>1. (k + 1 >= C /\ Special(s)) <=> ((k >= C /\ Special(s)) \/ r.rule \in {"*", "count"})
    BY <1>1, <1>4, <1>5
  <2>2. (k + 1 >= B) <=> (k >= B \/ r.rule = "table")
    BY <1>1, <1>4, <1>5
  <2>3. r.rule = "table" => ~(k >= B)
    BY <1>1, <1>2
  <2> QED
    BY <2>1, <2>2, <2>3
<1> QED
  BY <1>2, <1>7, <1>8, <1>9, <1>10 DEF T, C, B, W

\* The operands on the stack behind i items of a condition.
LEMMA CountStep ==
  ASSUME NEW S, NEW i \in Nat
  PROVE  /\ Cardinality({j \in 1 .. i : j \in S}) \in Nat
         /\ Cardinality({j \in 1 .. i + 1 : j \in S})
              = Cardinality({j \in 1 .. i : j \in S}) + IF i + 1 \in S THEN 1 ELSE 0
<1> DEFINE A == {j \in 1 .. i : j \in S}
           B == {j \in 1 .. i + 1 : j \in S}
<1>1. IsFiniteSet(A) /\ Cardinality(A) \in Nat
  <2>1. IsFiniteSet(1 .. i)
    BY FS_Interval
  <2>2. A \subseteq 1 .. i
    OBVIOUS
  <2> QED
    BY <2>1, <2>2, FS_Subset, FS_CardinalityType
<1>2. CASE i + 1 \in S
  <2>1. B = A \cup {i + 1} /\ i + 1 \notin A
    BY <1>2
  <2> HIDE DEF A, B
  <2>2. Cardinality(B) = Cardinality(A) + 1
    BY <1>1, <2>1, FS_AddElement
  <2> QED
    BY <1>1, <1>2, <2>2 DEF A, B
<1>3. CASE i + 1 \notin S
  <2>1. B = A
    BY <1>3
  <2> QED
    BY <1>1, <1>3, <2>1
<1> QED
  BY <1>2, <1>3

LiteralTest(c) == c.k \notin Operators \cup {"strptime"}
LEMMA DepthStep ==
  ASSUME NEW where, NEW i \in Nat
  PROVE  /\ Depth(where, 0) = 0
         /\ Depth(where, i) \in Int
         /\ Depth(where, i + 1) = Depth(where, i) + (IF LiteralTest(where[i + 1]) THEN 1 ELSE 0)
                                    - (IF where[i + 1].k \in {"and", "or"} THEN 1 ELSE 0)
<1> DEFINE A == {j \in 1 .. i + 1 : LiteralTest(where[j])}
           B == {j \in 1 .. i + 1 : where[j].k \in {"and", "or"}}
<1>1. \A n \in {i, i + 1} :
        Depth(where, n) = Cardinality({j \in 1 .. n : j \in A}) - Cardinality({j \in 1 .. n : j \in B})
  <2> SUFFICES ASSUME NEW n \in {i, i + 1}
               PROVE  Depth(where, n) = Cardinality({j \in 1 .. n : j \in A}) - Cardinality({j \in 1 .. n : j \in B})
    OBVIOUS
  <2>1. n \in Nat /\ \A j \in 1 .. n : j \in 1 .. i + 1
    OBVIOUS
  <2>2. {j \in 1 .. n : j \in A} = {j \in 1 .. n : where[j].k \notin Operators \cup {"strptime"}}
    BY <2>1 DEF LiteralTest
  <2>3. {j \in 1 .. n : j \in B} = {j \in 1 .. n : where[j].k \in {"and", "or"}}
    BY <2>1
  <2> HIDE DEF A, B
  <2> QED
    BY <2>2, <2>3 DEF Depth
<1>2. i + 1 \in A <=> LiteralTest(where[i + 1])
  OBVIOUS
<1>3. i + 1 \in B <=> where[i + 1].k \in {"and", "or"}
  OBVIOUS
<1> HIDE DEF A, B
<1>4. /\ Cardinality({j \in 1 .. i : j \in A}) \in Nat /\ Cardinality({j \in 1 .. i : j \in B}) \in Nat
      /\ Cardinality({j \in 1 .. i + 1 : j \in A})
           = Cardinality({j \in 1 .. i : j \in A}) + IF i + 1 \in A THEN 1 ELSE 0
      /\ Cardinality({j \in 1 .. i + 1 : j \in B})
           = Cardinality({j \in 1 .. i : j \in B}) + IF i + 1 \in B THEN 1 ELSE 0
  BY CountStep
<1>5. Depth(where, 0) = 0
  <2>1. 1 .. 0 = {}
    OBVIOUS
  <2>2. Depth(where, 0) = Cardinality({}) - Cardinality({})
    <3>1. {j \in 1 .. 0 : where[j].k \notin Operators \cup {"strptime"}} = {}
          /\ {j \in 1 .. 0 : where[j].k \in {"and", "or"}} = {}
      BY <2>1
    <3> QED
      BY <3>1 DEF Depth
  <2> QED
    BY <2>2, FS_EmptySet
<1> DEFINE x == Cardinality({j \in 1 .. i : j \in A})
           y == Cardinality({j \in 1 .. i : j \in B})
           u == Cardinality({j \in 1 .. i + 1 : j \in A})
           v == Cardinality({j \in 1 .. i + 1 : j \in B})
<1>6. /\ x \in Nat /\ y \in Nat
      /\ u = x + (IF LiteralTest(where[i + 1]) THEN 1 ELSE 0)
      /\ v = y + (IF where[i + 1].k \in {"and", "or"} THEN 1 ELSE 0)
      /\ Depth(where, i) = x - y /\ Depth(where, i + 1) = u - v
  BY <1>1, <1>2, <1>3, <1>4
<1> HIDE DEF x, y, u, v
<1>7. Depth(where, i) \in Int
  BY <1>6
<1>8. Depth(where, i + 1) = Depth(where, i) + (IF LiteralTest(where[i + 1]) THEN 1 ELSE 0)
                              - (IF where[i + 1].k \in {"and", "or"} THEN 1 ELSE 0)
  <2>1. CASE LiteralTest(where[i + 1])
    BY <1>6, <2>1
  <2>2. CASE ~LiteralTest(where[i + 1])
    BY <1>6, <2>2
  <2> QED
    BY <2>1, <2>2
<1> QED
  BY <1>5, <1>7, <1>8

\* What the MdbSQL r holds when the first k reductions of the statement s are done without an
\* error: the columns and the table named so far, the limit read last, as many nodes on the
\* stack as the condition has operands open; and whatever would make the statement
\* unanswerable was not among them.
Progress(r, s, k) ==
  /\ s.kind = "select" =>
       /\ r.limit = LimitAt(s, k)
       /\ k >= 1 /\ s.top.percent => s.top.n \in 0 .. 100
       /\ s.limit # -1 /\ k > WhereEnd(s) => s.top.n = -1
       /\ IsSeq(r.columns) /\ Len(r.columns) = Columns(s, k)
       /\ \A i \in 1 .. Len(r.columns) : r.columns[i] = s.cols[i]
       /\ r.all <=> (s.cols = <<"*">> /\ k >= ColumnEnd(s))
       /\ r.count <=> (s.cols = <<"count">> /\ k >= ColumnEnd(s))
       /\ r.tables = IF k >= TableEnd(s) THEN <<s.from>> ELSE <<>>
       /\ IsSeq(r.stack) /\ Len(r.stack) = Depth(s.where, Items(s, k))
       /\ r.tree # 0 <=> Items(s, k) > 0
       /\ \A j \in 1 .. Items(s, k) : s.where[j].k \notin Operators => Literate(s.where[j])
  /\ s.kind = "describe" => r.columns = <<>> /\ r.tables = IF k >= 1 THEN <<s.from>> ELSE <<>>
  /\ s.kind = "list" => r.columns = <<>>

\* What a reduction of a select does without an error.
Advances(r, p, s, k, g) ==
  /\ p.limit = IF g.rule \in {"top", "limit"} THEN g.n ELSE r.limit
  /\ g.rule = "top" /\ g.percent => g.n \in 0 .. 100
  /\ g.rule = "limit" => r.limit = -1
  /\ p.columns = IF g.rule = "column" THEN Append(r.columns, g.name) ELSE r.columns
  /\ p.all <=> (r.all \/ g.rule = "*")
  /\ p.count <=> (r.count \/ g.rule = "count")
  /\ p.tables = IF g.rule = "table" THEN Append(r.tables, g.name) ELSE r.tables
  /\ IsSeq(p.stack)
  /\ IF g.rule \in Conditional
       THEN LET c == s.where[Items(s, k) + 1] IN
            /\ Len(p.stack) = Len(r.stack) + (IF LiteralTest(c) THEN 1 ELSE 0) - (IF c.k \in {"and", "or"} THEN 1 ELSE 0)
            /\ p.tree # 0
            /\ c.k \notin Operators => Literate(c)
     ELSE p.stack = r.stack /\ p.tree = r.tree

LEMMA AdvancesProgress ==
  ASSUME NEW s, IsStatement(s), s.kind = "select", NEW k \in Nat, NEW i, i = k + 1, NEW g, RuleIs(s, i, g),
         g.rule # "select", NEW r, Progress(r, s, k), NEW p, Advances(r, p, s, k, g)
  PROVE  Progress(p, s, i)
<1>1. /\ Columns(s, k) \in Nat /\ Items(s, k) \in Nat
      /\ IF g.rule = "column"
           THEN Columns(s, k + 1) = Columns(s, k) + 1 /\ g.name = s.cols[Columns(s, k) + 1]
           ELSE Columns(s, k + 1) = Columns(s, k)
      /\ IF g.rule \in Conditional
           THEN Items(s, k + 1) = Items(s, k) + 1 /\ Items(s, k) + 1 \in 1 .. Len(s.where)
           ELSE Items(s, k + 1) = Items(s, k)
  BY PartsStep
<1>2. /\ LimitAt(s, k + 1) = IF g.rule \in {"top", "limit"} THEN g.n ELSE LimitAt(s, k)
      /\ g.rule = "limit" => LimitAt(s, k) = s.top.n
      /\ k + 1 > WhereEnd(s) /\ s.limit # -1 => g.rule = "limit"
      /\ g.rule = "top" => g.n = s.top.n /\ g.percent = s.top.percent
      /\ g.rule # "top" /\ k = 0 => s.top.n = -1
  BY PartsStep
<1>3. /\ (k + 1 >= ColumnEnd(s) /\ Special(s)) <=> ((k >= ColumnEnd(s) /\ Special(s)) \/ g.rule \in {"*", "count"})
      /\ g.rule \in {"*", "count"} => s.cols = <<g.rule>>
      /\ (k + 1 >= TableEnd(s)) <=> (k >= TableEnd(s) \/ g.rule = "table")
      /\ g.rule = "table" => ~(k >= TableEnd(s)) /\ g.name = s.from
  BY PartsStep
<1>4. p.limit = LimitAt(s, i)
  BY <1>2 DEF Progress, Advances
<1>5. i >= 1 /\ s.top.percent => s.top.n \in 0 .. 100
  <2>1. CASE g.rule = "top"
    BY <1>2, <2>1 DEF Advances
  <2>2. CASE g.rule # "top" /\ k = 0
    BY <1>2, <2>2 DEF IsStatement
  <2>3. CASE k # 0
    BY <2>3 DEF Progress
  <2> QED
    BY <2>1, <2>2, <2>3
<1>6. s.limit # -1 /\ i > WhereEnd(s) => s.top.n = -1
  BY <1>2 DEF Progress, Advances
<1>7. /\ IsSeq(p.columns) /\ Len(p.columns) = Columns(s, i)
      /\ \A j \in 1 .. Len(p.columns) : p.columns[j] = s.cols[j]
  <2>1. IsSeq(r.columns) /\ Len(r.columns) = Columns(s, k)
        /\ \A j \in 1 .. Len(r.columns) : r.columns[j] = s.cols[j]
    BY DEF Progress
  <2>2. CASE g.rule = "column"
    <3> DEFINE cols == r.columns
               n == Len(cols)
    <3>1. p.columns = Append(cols, g.name)
      BY <2>2 DEF Advances
    <3>2. IsSeq(p.columns) /\ Len(p.columns) = Len(cols) + 1 /\ p.columns[Len(cols) + 1] = g.name
          /\ \A j \in 1 .. Len(cols) : p.columns[j] = cols[j]
      BY <2>1, <3>1, AppendSeq
    <3>3. n = Columns(s, k) /\ n \in Nat /\ Columns(s, i) = n + 1 /\ g.name = s.cols[n + 1]
      BY <1>1, <2>1, <2>2
    <3>4. Len(p.columns) = n + 1 /\ p.columns[n + 1] = g.name /\ \A j \in 1 .. n : p.columns[j] = s.cols[j]
      BY <2>1, <3>2
    <3> HIDE DEF n
    <3> QED
      BY <3>2, <3>3, <3>4
  <2>3. CASE g.rule # "column"
    BY <1>1, <2>1, <2>3 DEF Advances
  <2> QED
    BY <2>2, <2>3
<1>8. /\ p.all <=> (s.cols = <<"*">> /\ i >= ColumnEnd(s))
      /\ p.count <=> (s.cols = <<"count">> /\ i >= ColumnEnd(s))
  <2>1. <<"*">> # <<"count">>
    OBVIOUS
  <2>2. /\ r.all <=> (s.cols = <<"*">> /\ k >= ColumnEnd(s))
        /\ r.count <=> (s.cols = <<"count">> /\ k >= ColumnEnd(s))
    BY DEF Progress
  <2>3. (p.all <=> (r.all \/ g.rule = "*")) /\ (p.count <=> (r.count \/ g.rule = "count"))
    BY DEF Advances
  <2>4. (g.rule = "*" => s.cols = <<"*">>) /\ (g.rule = "count" => s.cols = <<"count">>)
    BY <1>3
  <2>5. s.cols \in {<<"*">>, <<"count">>} => ((i >= ColumnEnd(s)) <=> (k >= ColumnEnd(s) \/ g.rule \in {"*", "count"}))
    BY <1>3 DEF Special
  <2> QED
    BY <2>1, <2>2, <2>3, <2>4, <2>5
<1>9. p.tables = IF i >= TableEnd(s) THEN <<s.from>> ELSE <<>>
  <2>1. CASE g.rule = "table"
    <3>1. p.tables = Append(r.tables, s.from) /\ r.tables = <<>> /\ i >= TableEnd(s)
      BY <1>3, <2>1 DEF Progress, Advances
    <3> QED
      BY <3>1
  <2>2. CASE g.rule # "table"
    BY <1>3, <2>2 DEF Progress, Advances
  <2> QED
    BY <2>1, <2>2
<1>10. /\ IsSeq(p.stack) /\ Len(p.stack) = Depth(s.where, Items(s, i))
       /\ p.tree # 0 <=> Items(s, i) > 0
       /\ \A j \in 1 .. Items(s, i) : s.where[j].k \notin Operators => Literate(s.where[j])
  <2> DEFINE n == Items(s, k)
             c == s.where[n + 1]
  <2>1. /\ IsSeq(r.stack) /\ Len(r.stack) = Depth(s.where, n)
        /\ r.tree # 0 <=> n > 0
        /\ \A j \in 1 .. n : s.where[j].k \notin Operators => Literate(s.where[j])
    BY DEF Progress
  <2>2. n \in Nat
    BY <1>1
  <2>3. CASE g.rule \in Conditional
    <3>1. /\ IsSeq(p.stack)
          /\ Len(p.stack) = Len(r.stack) + (IF LiteralTest(c) THEN 1 ELSE 0) - (IF c.k \in {"and", "or"} THEN 1 ELSE 0)
          /\ p.tree # 0
          /\ c.k \notin Operators => Literate(c)
      BY <2>3 DEF Advances
    <3>2. Items(s, i) = n + 1
      BY <1>1, <2>3
    <3> HIDE DEF n
    <3>3. Len(p.stack) = Depth(s.where, n + 1)
      BY <2>1, <2>2, <3>1, DepthStep
    <3>4. n + 1 > 0 /\ \A j \in 1 .. n + 1 : j \in 1 .. n \/ j = n + 1
      BY <2>2
    <3> QED
      BY <2>1, <3>1, <3>2, <3>3, <3>4
  <2>4. CASE g.rule \notin Conditional
    BY <1>1, <2>1, <2>4 DEF Advances
  <2> QED
    BY <2>3, <2>4
<1> QED
  BY <1>4, <1>5, <1>6, <1>7, <1>8, <1>9, <1>10 DEF Progress

-----------------------------------------------------------------------------
(* What a query answers *)

LEMMA MinIn == ASSUME NEW S, S \subseteq Nat, S # {} PROVE Min(S) \in S
<1>1. \E x \in S : \A y \in S : x <= y
  BY LeastExists
<1> QED
  BY <1>1, Zenon DEF Min

\* The table that a name stands for: the first of its name with a definition.
LEMMA FoundIs ==
  ASSUME IsCatalog(catalog), NEW name
  PROVE  /\ Named(name) = {} => Found(name) = {}
         /\ Named(name) # {} =>
              LET t == catalog[Min(Named(name))] IN
              /\ t.state \in {"ok", "no columns"}
              /\ t.state = "no columns" => Found(name) = {}
              /\ t.state = "ok" => /\ Found(name) = {t}
                                   /\ IsSeq(t.order) /\ t.order # <<>> /\ ToSet(t.order) = DOMAIN t.types
<1>1. Named(name) = {} => Found(name) = {}
  BY DEF Found
<1>2. ASSUME Named(name) # {}
      PROVE  LET t == catalog[Min(Named(name))] IN
             /\ t.state \in {"ok", "no columns"}
             /\ t.state = "no columns" => Found(name) = {}
             /\ t.state = "ok" => /\ Found(name) = {t}
                                  /\ IsSeq(t.order) /\ t.order # <<>> /\ ToSet(t.order) = DOMAIN t.types
  <2> DEFINE m == Min(Named(name))
             t == catalog[m]
  <2>1. IsSeq(catalog) /\ DOMAIN catalog = 1 .. Len(catalog) /\ Len(catalog) \in Nat
    BY SeqFacts DEF IsCatalog, IsSeq
  <2>2. Named(name) \subseteq 1 .. Len(catalog) /\ \A i \in Named(name) : catalog[i].state # "bad"
    BY <2>1 DEF Named
  <2>3. m \in Named(name)
    <3>1. Named(name) \subseteq Nat
      BY <2>1, <2>2
    <3> QED
      BY <1>2, <3>1, MinIn
  <2>4. Found(name) = {catalog[i] : i \in {j \in Named(name) : j = m /\ catalog[j].state = "ok"}}
    BY DEF Found
  <2> HIDE DEF m
  <2>5. t \in ToSet(catalog)
    BY <2>1, <2>2, <2>3 DEF ToSet
  <2>6. t.state \in {"ok", "no columns"}
    BY <2>2, <2>3, <2>5 DEF IsCatalog
  <2>7. t.state = "ok" => IsSeq(t.order) /\ t.order # <<>> /\ ToSet(t.order) = DOMAIN t.types
    <3>1. t.state = "ok" => t.order \in Seq(STRING) /\ t.order # <<>> /\ ToSet(t.order) = DOMAIN t.types
      BY <2>5 DEF IsCatalog
    <3> QED
      BY <3>1, SeqHere
  <2>8. t.state = "no columns" => Found(name) = {}
    BY <2>4
  <2>9. t.state = "ok" => Found(name) = {t}
    BY <2>3, <2>4
  <2> QED
    BY <2>6, <2>7, <2>8, <2>9 DEF m
<1> QED
  BY <1>1, <1>2

\* The kind of an item and the rule of its reduction.
LEMMA ReductionOf ==
  ASSUME NEW s, IsStatement(s), s.kind = "select", NEW j \in 1 .. Len(s.where)
  PROVE  LET c == s.where[j]  g == Reduction(c) IN
         /\ g.rule \in {"not", "and", "or", "strptime"} => c.k = g.rule
         /\ g.rule = "const" => c.k = "const" /\ g.op = c.op /\ g.left = c.left /\ g.right = c.right
         /\ g.rule = "sarg" => c.k \in {"cmp", "flip", "null"} /\ g.col = c.col /\ g.op = OpOf(c)
         /\ c.k = "not" => Depth(s.where, j - 1) >= 1
         /\ c.k \in {"and", "or"} => Depth(s.where, j - 1) >= 2
         /\ c \in ToSet(s.where)
<1> DEFINE c == s.where[j]
           g == Reduction(c)
<1>1. DOMAIN s.where = 1 .. Len(s.where) /\ c \in ToSet(s.where)
  BY PartLengths, SeqFacts
<1>2. /\ c.k \in Operators \cup {"cmp", "flip", "null", "const", "strptime"}
      /\ c.k = "not" => Depth(s.where, j - 1) >= 1
      /\ c.k \in {"and", "or"} => Depth(s.where, j - 1) >= 2
  BY <1>1 DEF IsStatement, IsCondition
<1> HIDE DEF c
<1>3. CASE c.k \in {"not", "and", "or", "strptime"}
  <2>1. g = [rule |-> c.k]
    BY <1>3 DEF Reduction
  <2> QED
    BY <1>1, <1>2, <1>3, <2>1 DEF c
<1>4. CASE c.k = "const"
  <2>1. g = [rule |-> "const", op |-> c.op, left |-> c.left, right |-> c.right]
    BY <1>4 DEF Reduction
  <2> QED
    BY <1>1, <1>2, <1>4, <2>1 DEF c
<1>5. CASE c.k \in {"cmp", "flip"}
  <2>1. g = [rule |-> "sarg", col |-> c.col, op |-> OpOf(c), lit |-> c.lit]
    BY <1>5 DEF Reduction
  <2> QED
    BY <1>1, <1>2, <1>5, <2>1 DEF c
<1>6. CASE c.k = "null"
  <2>1. g = [rule |-> "sarg", col |-> c.col, op |-> c.op, lit |-> NoNode.lit] /\ OpOf(c) = c.op
    BY <1>6 DEF Reduction, OpOf
  <2> QED
    BY <1>1, <1>2, <1>6, <2>1 DEF c
<1> QED
  BY <1>2, <1>3, <1>4, <1>5, <1>6 DEF Operators

LEMMA NonEmpty == ASSUME NEW s, IsSeq(s) PROVE (s # <<>> <=> Len(s) >= 1) /\ (Len(s) = 0 <=> s = <<>>) /\ Len(s) \in Nat
<1>1. s \in Seq(ToSet(s))
  BY DEF IsSeq
<1>2. Len(s) \in Nat /\ (Len(s) = 0 <=> s = <<>>)
  BY <1>1, EmptySeq
<1> DEFINE n == Len(s)
<1>3. n \in Nat /\ (n = 0 <=> s = <<>>)
  BY <1>2
<1> HIDE DEF n
<1>4. s # <<>> <=> n >= 1
  BY <1>3
<1> QED
  BY <1>2, <1>4 DEF n

\* An item that a select cannot answer.
LEMMA NotLiterate ==
  ASSUME stmt.kind = "select", NEW c \in ToSet(stmt.where), c.k \notin Operators, ~Literate(c)
  PROVE  ~Answerable(stmt)
<1>1. c \in Leaves(stmt.where)
  BY DEF Leaves
<1> QED
  BY <1>1 DEF Answerable

\* A node pushed over a stack x is a reduction of the item c of the condition.
LEMMA PushAdvances ==
  ASSUME NEW r, NEW x, DOMAIN x = Fields, x.columns = r.columns, x.tables = r.tables, x.limit = r.limit,
         x.all = r.all, x.count = r.count, IsSeq(x.stack),
         NEW n, n # 0, NEW s, NEW k, NEW g, g.rule \in Conditional, NEW c, c = s.where[Items(s, k) + 1],
         Len(x.stack) + 1 = Len(r.stack) + (IF LiteralTest(c) THEN 1 ELSE 0) - (IF c.k \in {"and", "or"} THEN 1 ELSE 0),
         c.k \notin Operators => Literate(c)
  PROVE  Advances(r, mdb_sql_push_node(x, n), s, k, g)
<1> DEFINE p == mdb_sql_push_node(x, n)
<1>1. /\ p.stack = <<n>> \o x.stack /\ p.tree = n /\ p.columns = x.columns /\ p.tables = x.tables
      /\ p.all = x.all /\ p.count = x.count /\ p.limit = x.limit
  BY PushIs
<1>2. IsSeq(<<n>> \o x.stack) /\ Len(<<n>> \o x.stack) = Len(x.stack) + 1
  BY PushSeq
<1>3. g.rule \notin {"top", "limit", "column", "*", "count", "table"}
  BY DEF Conditional
<1> HIDE DEF p
<1>4. Advances(r, p, s, k, g)
  BY <1>1, <1>2, <1>3 DEF Advances
<1> QED
  BY <1>4 DEF p

NoError(r) == r.err = ""

LEMMA ItemAdvances ==
  ASSUME ParseInv, TreesInv, NoError(q), Progress(q, stmt, Done), stmt.kind = "select",
         RuleIs(stmt, Done + 1, Head(todo)), Head(todo).rule \in Conditional, NEW name \in {"and", "or"}, NEW oper,
         mdb_sql_add_sarg \/ mdb_sql_eval_expr \/ mdb_sql_strptime \/ mdb_sql_add_not \/ AddBinary(name, oper),
         IsStatement(stmt), Done \in Nat, CurInv, ~q.cur
  PROVE  \/ ~NoError(q') /\ ~Answerable(stmt)
         \/ NoError(q') /\ Advances(q, q', stmt, Done, Head(todo))
<1> DEFINE g == Head(todo)
           j == Items(stmt, Done) + 1
           c == stmt.where[j]
           S == q.stack
           n == Len(S)
<1>1. j \in 1 .. Len(stmt.where) /\ g = Reduction(c) /\ Items(stmt, Done) \in Nat /\ j - 1 = Items(stmt, Done)
  <2> DEFINE i == Done + 1
  <2>1. RuleIs(stmt, i, g) /\ i = Done + 1 /\ g.rule # "select"
    BY DEF Conditional
  <2> HIDE DEF i
  <2>2. /\ Items(stmt, Done) \in Nat
        /\ g.rule \in Conditional => j \in 1 .. Len(stmt.where) /\ g = Reduction(c)
    BY <2>1, PartsStep
  <2> DEFINE m == Items(stmt, Done)
  <2>3. m \in Nat /\ j = m + 1
    BY <2>2
  <2> HIDE DEF m
  <2>4. j - 1 = m
    BY <2>3
  <2> QED
    BY <2>2, <2>4 DEF m
<1>2. /\ g.rule \in {"not", "and", "or", "strptime"} => c.k = g.rule
      /\ g.rule = "const" => c.k = "const" /\ g.op = c.op /\ g.left = c.left /\ g.right = c.right
      /\ g.rule = "sarg" => c.k \in {"cmp", "flip", "null"}
      /\ c.k = "not" => Depth(stmt.where, j - 1) >= 1
      /\ c.k \in {"and", "or"} => Depth(stmt.where, j - 1) >= 2
      /\ c \in ToSet(stmt.where)
  <2> HIDE DEF j
  <2> QED
    BY <1>1, ReductionOf
<1>3. /\ IsSeq(S) /\ n \in Nat /\ n = Depth(stmt.where, j - 1)
      /\ c.k = "not" => n >= 1
      /\ c.k \in {"and", "or"} => n >= 2
  <2>1. IsSeq(S) /\ n \in Nat /\ n = Depth(stmt.where, j - 1)
    BY <1>1, SeqFacts DEF Progress
  <2> HIDE DEF n, c, j
  <2> QED
    BY <1>2, <2>1
<1>4. DOMAIN q = Fields /\ IsSeq(heap) /\ Len(heap) \in Nat
  BY SeqFacts DEF CurInv, TreesInv, Forest
<1>5. ASSUME NEW node, AddNode(node) PROVE Len(heap') # 0
  <2> DEFINE m == Len(heap)
  <2>1. Len(heap') = m + 1 /\ m \in Nat
    BY <1>4, <1>5, AppendSeq DEF AddNode
  <2> HIDE DEF m
  <2> QED
    BY <2>1
<1>6. ASSUME NEW x, DOMAIN x = Fields, x.columns = q.columns, x.tables = q.tables, x.limit = q.limit,
             x.all = q.all, x.count = q.count, NoError(x), IsSeq(x.stack), NEW node, AddNode(node),
             q' = mdb_sql_push_node(x, Len(heap')),
             \/ LiteralTest(c) /\ c.k \notin {"and", "or"} /\ x.stack = S
             \/ c.k = "not" /\ Len(x.stack) = n - 1
             \/ c.k \in {"and", "or"} /\ Len(x.stack) = n - 2,
             c.k \notin Operators => Literate(c)
      PROVE  NoError(q') /\ Advances(q, q', stmt, Done, g)
  <2> DEFINE new == Len(heap')
             weight == (IF LiteralTest(c) THEN 1 ELSE 0) - (IF c.k \in {"and", "or"} THEN 1 ELSE 0)
             m == Len(x.stack)
  <2>1. new # 0
    BY <1>5, <1>6
  <2>2. LET p == mdb_sql_push_node(x, new) IN p.err = x.err
    BY <1>6, PushIs
  <2>5. \/ weight = 1 /\ m = n
        \/ weight = 0 /\ m = n - 1
        \/ weight = -1 /\ m = n - 2
    BY <1>6 DEF LiteralTest, Operators
  <2>6. m + 1 = n + (IF LiteralTest(c) THEN 1 ELSE 0) - (IF c.k \in {"and", "or"} THEN 1 ELSE 0)
    <3>1. n \in Nat
      BY <1>3
    <3> HIDE DEF m, n
    <3> QED
      BY <1>6, <2>5, <3>1 DEF LiteralTest, Operators
  <2> HIDE DEF new, g, weight
  <2>3. Advances(q, mdb_sql_push_node(x, new), stmt, Done, g)
    <3>1. g.rule \in Conditional
      BY DEF g
    <3>2. Len(x.stack) + 1 = Len(q.stack) + (IF LiteralTest(c) THEN 1 ELSE 0) - (IF c.k \in {"and", "or"} THEN 1 ELSE 0)
      BY <2>6
    <3>3. c = stmt.where[Items(stmt, Done) + 1]
      OBVIOUS
    <3> HIDE DEF c, j
    <3> QED
      BY <1>6, <2>1, <3>1, <3>2, <3>3, PushAdvances
  <2>4. q' = mdb_sql_push_node(x, new)
    BY <1>6 DEF new
  <2> QED
    BY <1>6, <2>2, <2>3, <2>4 DEF NoError
<1>7. ASSUME NEW e, ResetWith(e), e # "" PROVE ~NoError(q')
  BY <1>7, ResetWithIs DEF NoError
<1> HIDE DEF c, j, n
<1>8. CASE mdb_sql_add_sarg
  <2>1. g.rule = "sarg" /\ \E node : AddNode(node) /\ q' = mdb_sql_push_node(q, Len(heap'))
    BY <1>8 DEF mdb_sql_add_sarg, Reducing
  <2>2. LiteralTest(c) /\ c.k \notin {"and", "or"} /\ Literate(c)
    BY <1>2, <2>1 DEF LiteralTest, Literate, Operators
  <2> QED
    BY <1>3, <1>4, <1>6, <2>1, <2>2
<1>9. CASE mdb_sql_eval_expr
  <2>1. g.rule = "const"
    BY <1>9 DEF mdb_sql_eval_expr, Reducing
  <2>2. c.k = "const" /\ g.op = c.op /\ g.left = c.left /\ g.right = c.right
    BY <1>2, <2>1
  <2> DEFINE bad == \/ (g.left.t = "text") # (g.right.t = "text")
                    \/ ~(g.left.t = "text") /\ g.op \in {"LIKE", "ILIKE"}
  <2>3. \/ bad /\ ResetWith("literals")
        \/ ~bad /\ \E node : AddNode(node) /\ q' = mdb_sql_push_node(q, Len(heap'))
    BY <1>9 DEF mdb_sql_eval_expr
  <2>4. bad <=> ~Literate(c)
    BY <2>2 DEF Literate
  <2>5. LiteralTest(c) /\ c.k \notin {"and", "or"} /\ c.k \notin Operators
    BY <2>2 DEF LiteralTest, Operators
  <2> HIDE DEF bad
  <2>6. CASE bad /\ ResetWith("literals")
    <3>1. ~NoError(q')
      BY <1>7, <2>6
    <3> QED
      BY <1>2, <2>4, <2>5, <2>6, <3>1, NotLiterate
  <2> QED
    BY <1>3, <1>4, <1>6, <2>3, <2>4, <2>5, <2>6
<1>10. CASE mdb_sql_strptime
  <2>1. g.rule = "strptime" /\ ResetWith("strptime")
    BY <1>10 DEF mdb_sql_strptime, Reducing
  <2>2. c.k \notin Operators /\ ~Literate(c) /\ ~NoError(q')
    BY <1>2, <1>7, <2>1 DEF Operators, Literate
  <2> QED
    BY <1>2, <2>2, NotLiterate
<1>11. CASE mdb_sql_add_not
  <2>1. g.rule = "not" /\ c.k = "not"
    BY <1>2, <1>11 DEF mdb_sql_add_not, Reducing
  <2>2. S # <<>>
    BY <1>3, <2>1, NonEmpty DEF n
  <2> DEFINE x == mdb_sql_pop_node(q)
  <2>3. /\ DOMAIN x = Fields /\ x.stack = Front(S) /\ NoError(x) /\ x.columns = q.columns
        /\ x.tables = q.tables /\ x.all = q.all /\ x.count = q.count /\ x.limit = q.limit
    BY <1>4, PopIs DEF NoError
  <2>4. IsSeq(x.stack) /\ Len(x.stack) = n - 1
    BY <1>3, <2>2, <2>3, FrontSeq DEF n
  <2>5. \E node : AddNode(node) /\ q' = mdb_sql_push_node(x, Len(heap'))
    BY <1>11, <2>2 DEF mdb_sql_add_not
  <2>6. ~LiteralTest(c) /\ c.k \notin {"and", "or"} /\ c.k \in Operators
    BY <2>1 DEF LiteralTest, Operators
  <2> HIDE DEF x
  <2> QED
    BY <1>6, <2>1, <2>3, <2>4, <2>5, <2>6
<1>12. CASE AddBinary(name, oper)
  <2>1. g.rule \in {"and", "or"} /\ c.k \in {"and", "or"}
    BY <1>2, <1>12 DEF AddBinary, Reducing
  <2>2. n >= 2 /\ ~(n < 2) /\ n >= 1 /\ n - 1 >= 1 /\ (n - 1) - 1 = n - 2
    BY <1>3, <2>1
  <2>8. S # <<>>
    BY <1>3, <2>2, NonEmpty DEF n
  <2> DEFINE y == mdb_sql_pop_node(q)
             x == mdb_sql_pop_node(y)
  <2>3. /\ DOMAIN y = Fields /\ y.stack = Front(S) /\ NoError(y) /\ y.columns = q.columns
        /\ y.tables = q.tables /\ y.all = q.all /\ y.count = q.count /\ y.limit = q.limit
    BY <1>4, PopIs DEF NoError
  <2>4. IsSeq(y.stack) /\ Len(y.stack) = n - 1
    BY <1>3, <2>3, <2>8, FrontSeq DEF n
  <2>9. y.stack # <<>>
    BY <2>2, <2>4, NonEmpty
  <2>5. \E node : AddNode(node) /\ q' = mdb_sql_push_node(x, Len(heap'))
    BY <1>12, <2>2 DEF AddBinary, n
  <2> HIDE DEF y
  <2>10. /\ DOMAIN x = Fields /\ x.stack = Front(y.stack) /\ NoError(x) /\ x.columns = q.columns
         /\ x.tables = q.tables /\ x.all = q.all /\ x.count = q.count /\ x.limit = q.limit
    BY <2>3, PopIs DEF NoError
  <2>11. IsSeq(x.stack) /\ Len(x.stack) = n - 2
    BY <2>2, <2>4, <2>9, <2>10, FrontSeq
  <2>6. ~LiteralTest(c) /\ c.k \in Operators
    BY <2>1 DEF LiteralTest, Operators
  <2> HIDE DEF x
  <2> QED
    BY <1>6, <2>1, <2>5, <2>6, <2>10, <2>11
<1> QED
  BY <1>8, <1>9, <1>10, <1>11, <1>12

\* The reductions of a select outside of its condition.
LEMMA OtherAdvances ==
  ASSUME NoError(q), Progress(q, stmt, Done), stmt.kind = "select", IsStatement(stmt), Done \in Nat,
         RuleIs(stmt, Done + 1, Head(todo)), CurInv,
         \/ mdb_sql_add_limit \/ mdb_sql_get_limit \/ mdb_sql_add_column \/ mdb_sql_all_columns
         \/ mdb_sql_sel_count \/ mdb_sql_add_table
  PROVE  \/ ~NoError(q') /\ ~Answerable(stmt)
         \/ NoError(q') /\ Advances(q, q', stmt, Done, Head(todo))
<1> DEFINE g == Head(todo)
           i == Done + 1
<1>1. g.rule \in {"top", "limit", "column", "*", "count", "table"} /\ g.rule \notin Conditional /\ g.rule # "select"
  BY DEF Reducing, mdb_sql_add_limit, mdb_sql_get_limit, mdb_sql_add_column, mdb_sql_all_columns,
         mdb_sql_sel_count, mdb_sql_add_table, Conditional
<1>2. RuleIs(stmt, i, g)
  OBVIOUS
<1>3. i = Done + 1
  OBVIOUS
<1>4. DOMAIN q = Fields /\ IsSeq(q.stack) /\ q.limit = LimitAt(stmt, Done)
  BY DEF CurInv, Progress
<1> HIDE DEF i
<1>5. /\ g.rule = "limit" => LimitAt(stmt, Done) = stmt.top.n
      /\ g.rule = "top" => g.n = stmt.top.n /\ g.percent = stmt.top.percent
  BY <1>1, <1>2, <1>3, PartsStep
<1>6. g.rule = "limit" => stmt.limit # -1
  BY <1>2, Zenon DEF RuleIs
<1>7. CASE mdb_sql_add_limit
  <2>1. /\ g.rule = "top"
        /\ q' = [q EXCEPT !.limit = g.n, !.percent = g.percent,
                   !.err = IF g.percent /\ g.n \notin 0 .. 100 THEN "percent" ELSE @]
    BY <1>7 DEF mdb_sql_add_limit, Reducing
  <2> HIDE DEF g
  <2>2. /\ q'.limit = g.n /\ q'.columns = q.columns /\ q'.all = q.all /\ q'.count = q.count /\ q'.tables = q.tables
        /\ q'.stack = q.stack /\ q'.tree = q.tree
        /\ q'.err = IF g.percent /\ g.n \notin 0 .. 100 THEN "percent" ELSE q.err
    BY <1>4, <2>1 DEF Fields
  <2>3. CASE g.percent /\ g.n \notin 0 .. 100
    <3>1. ~NoError(q')
      BY <2>2, <2>3 DEF NoError
    <3>2. ~Answerable(stmt)
      BY <1>5, <2>1, <2>3 DEF Answerable
    <3> QED
      BY <3>1, <3>2
  <2>4. CASE ~(g.percent /\ g.n \notin 0 .. 100)
    <3>1. NoError(q')
      BY <2>2, <2>4 DEF NoError
    <3>2. Advances(q, q', stmt, Done, g)
      BY <1>1, <1>4, <2>1, <2>2, <2>4 DEF Advances
    <3> QED
      BY <3>1, <3>2 DEF g
  <2> QED
    BY <2>3, <2>4
<1>8. CASE mdb_sql_get_limit
  <2>1. g.rule = "limit"
    BY <1>8 DEF mdb_sql_get_limit, Reducing
  <2>2. CASE q.limit # -1
    <3>1. q'.err = "top and limit"
      BY <1>4, <1>8, <2>2 DEF mdb_sql_get_limit, Fields
    <3>2. ~NoError(q')
      BY <3>1 DEF NoError
    <3>3. stmt.top.n # -1 /\ stmt.limit # -1
      BY <1>4, <1>5, <1>6, <2>1, <2>2
    <3>4. ~Answerable(stmt)
      BY <3>3 DEF Answerable
    <3> QED
      BY <3>2, <3>4
  <2>3. CASE q.limit = -1
    <3>1. q' = [q EXCEPT !.limit = g.n, !.percent = FALSE]
      BY <1>8, <2>3 DEF mdb_sql_get_limit
    <3> HIDE DEF g
    <3>2. /\ q'.limit = g.n /\ q'.columns = q.columns /\ q'.all = q.all /\ q'.count = q.count
          /\ q'.tables = q.tables /\ q'.stack = q.stack /\ q'.tree = q.tree /\ q'.err = q.err
      BY <1>4, <3>1 DEF Fields
    <3>3. Advances(q, q', stmt, Done, g)
      BY <1>1, <1>4, <2>1, <2>3, <3>2 DEF Advances
    <3> QED
      BY <3>2, <3>3 DEF NoError, g
  <2> QED
    BY <2>2, <2>3
<1>9. CASE mdb_sql_add_column
  <2>1. g.rule = "column" /\ q' = [q EXCEPT !.columns = Append(@, g.name)]
    BY <1>9 DEF mdb_sql_add_column, Reducing
  <2> HIDE DEF g
  <2>2. /\ q'.limit = q.limit /\ q'.columns = Append(q.columns, g.name) /\ q'.all = q.all /\ q'.count = q.count
        /\ q'.tables = q.tables /\ q'.stack = q.stack /\ q'.tree = q.tree /\ q'.err = q.err
    BY <1>4, <2>1 DEF Fields
  <2>3. Advances(q, q', stmt, Done, g)
    BY <1>1, <1>4, <2>1, <2>2 DEF Advances
  <2> QED
    BY <2>2, <2>3 DEF NoError, g
<1>10. CASE mdb_sql_all_columns \/ mdb_sql_sel_count
  <2>1. \/ g.rule = "*" /\ q' = [q EXCEPT !.all = TRUE]
        \/ g.rule = "count" /\ q' = [q EXCEPT !.count = TRUE]
    BY <1>10 DEF mdb_sql_all_columns, mdb_sql_sel_count, Reducing
  <2> HIDE DEF g
  <2>2. /\ q'.limit = q.limit /\ q'.columns = q.columns
        /\ q'.tables = q.tables /\ q'.stack = q.stack /\ q'.tree = q.tree /\ q'.err = q.err
        /\ g.rule = "*" => q'.all = TRUE /\ q'.count = q.count
        /\ g.rule = "count" => q'.all = q.all /\ q'.count = TRUE
    BY <1>4, <2>1 DEF Fields
  <2>3. Advances(q, q', stmt, Done, g)
    BY <1>1, <1>4, <2>1, <2>2 DEF Advances
  <2> QED
    BY <2>2, <2>3 DEF NoError, g
<1>11. CASE mdb_sql_add_table
  <2>1. g.rule = "table" /\ q' = [q EXCEPT !.tables = Append(@, g.name)]
    BY <1>11 DEF mdb_sql_add_table, Reducing
  <2> HIDE DEF g
  <2>2. /\ q'.limit = q.limit /\ q'.columns = q.columns /\ q'.all = q.all /\ q'.count = q.count
        /\ q'.tables = Append(q.tables, g.name) /\ q'.stack = q.stack /\ q'.tree = q.tree /\ q'.err = q.err
    BY <1>4, <2>1 DEF Fields
  <2>3. Advances(q, q', stmt, Done, g)
    BY <1>1, <1>4, <2>1, <2>2 DEF Advances
  <2> QED
    BY <2>2, <2>3 DEF NoError, g
<1> QED
  BY <1>7, <1>8, <1>9, <1>10, <1>11

LEMMA SameSeq ==
  ASSUME NEW s, NEW t, IsSeq(s), IsSeq(t), Len(s) = Len(t), \A i \in 1 .. Len(s) : s[i] = t[i]
  PROVE  s = t
<1>1. s \in Seq(ToSet(s) \cup ToSet(t)) /\ t \in Seq(ToSet(s) \cup ToSet(t))
  BY DEF IsSeq
<1> QED
  BY <1>1, SeqEqual

\* A select is reduced when it has been read to its end.
LEMMA AllRead ==
  ASSUME NEW s, IsStatement(s), s.kind = "select", NEW k \in Nat, NEW i, i = k + 1, NEW g, RuleIs(s, i, g),
         g.rule = "select", NEW r, Progress(r, s, k)
  PROVE  /\ r.tables = <<s.from>>
         /\ r.columns = IF Special(s) THEN <<>> ELSE s.cols
         /\ r.all <=> s.cols = <<"*">>
         /\ r.count <=> s.cols = <<"count">>
         /\ r.tree # 0 <=> s.where # <<>>
         /\ \A l \in Leaves(s.where) : Literate(l)
         /\ s.top.percent => s.top.n \in 0 .. 100
         /\ s.top.n = -1 \/ s.limit = -1
<1> DEFINE T == TopEnd(s)
           C == ColumnEnd(s)
           B == TableEnd(s)
           W == WhereEnd(s)
           L == LimitEnd(s)
           m == Len(s.where)
           n == Len(s.cols)
<1>1. k = L
  BY PlaceOf
<1>2. /\ T \in {0, 1}
      /\ ~Special(s) => C = T + n
      /\ B = C + 1 /\ W = B + m /\ L \in {W, W + 1} /\ (L = W <=> s.limit = -1)
      /\ C \in Nat /\ B \in Nat /\ W \in Nat /\ m \in Nat /\ n \in Nat
  BY EndsAre
<1> HIDE DEF T, C, B, W, L, m, n
<1>3. T \in Nat /\ k >= W /\ k >= B /\ k >= C /\ k >= 1 /\ (s.limit # -1 => k > W)
  BY <1>1, <1>2
<1>4. Items(s, k) = m
  <2>1. Items(s, k) = Part(k, B, W)
    BY DEF Items, B, W
  <2>2. B <= W /\ W - B = m
    BY <1>2
  <2>3. Part(k, B, W) = W - B
    <3>1. B \in Nat /\ W \in Nat /\ B <= W /\ k >= W
      BY <1>2, <1>3, <2>2
    <3> QED
      BY <3>1 DEF Part
  <2> QED
    BY <2>1, <2>2, <2>3
<1>5. ~Special(s) => Columns(s, k) = n
  <2> SUFFICES ASSUME ~Special(s) PROVE Columns(s, k) = n
    OBVIOUS
  <2>1. Columns(s, k) = Part(k, T, C)
    BY DEF Columns, T, C
  <2>2. T <= C /\ C - T = n
    BY <1>2, <1>3
  <2>3. Part(k, T, C) = C - T
    <3>1. T \in Nat /\ C \in Nat /\ T <= C /\ k >= C
      BY <1>2, <1>3, <2>2
    <3> QED
      BY <3>1 DEF Part
  <2> QED
    BY <2>1, <2>2, <2>3
<1>6. r.tables = <<s.from>>
  BY <1>3 DEF Progress, B
<1>7. (r.all <=> s.cols = <<"*">>) /\ (r.count <=> s.cols = <<"count">>)
  BY <1>3 DEF Progress, C
<1>8. s.top.percent => s.top.n \in 0 .. 100
  BY <1>3 DEF Progress
<1>9. s.top.n = -1 \/ s.limit = -1
  BY <1>3 DEF Progress, W
<1>10. IsSeq(s.where) /\ DOMAIN s.where = 1 .. m
  BY PartLengths, SeqFacts DEF m
<1>11. r.tree # 0 <=> s.where # <<>>
  <2>1. r.tree # 0 <=> m > 0
    BY <1>4 DEF Progress
  <2>2. s.where # <<>> <=> m >= 1
    BY <1>10, NonEmpty DEF m
  <2> QED
    BY <1>2, <2>1, <2>2
<1>12. \A l \in Leaves(s.where) : Literate(l)
  <2>1. \A j \in 1 .. m : s.where[j].k \notin Operators => Literate(s.where[j])
    BY <1>4 DEF Progress
  <2> QED
    BY <1>10, <2>1 DEF Leaves, ToSet
<1>13. r.columns = IF Special(s) THEN <<>> ELSE s.cols
  <2>1. IsSeq(r.columns) /\ Len(r.columns) = Columns(s, k) /\ \A j \in 1 .. Len(r.columns) : r.columns[j] = s.cols[j]
    BY DEF Progress
  <2>2. CASE Special(s)
    BY <2>1, <2>2, NonEmpty DEF Columns
  <2>3. CASE ~Special(s)
    <3>1. IsSeq(s.cols)
      BY SeqHere DEF IsStatement
    <3>2. Len(r.columns) = Len(s.cols)
      BY <1>5, <2>1, <2>3 DEF n
    <3> QED
      BY <2>1, <2>3, <3>1, <3>2, SameSeq
  <2> QED
    BY <2>2, <2>3
<1> QED
  BY <1>6, <1>7, <1>8, <1>9, <1>11, <1>12, <1>13

LEMMA NoJoin == ASSUME NEW s, IsSeq(s) PROVE <<>> \o s = s /\ s \o <<>> = s
<1>1. s \in Seq(ToSet(s)) /\ <<>> \in Seq(ToSet(s))
  BY DEF IsSeq
<1> QED
  BY <1>1, ConcatEmptySeq

\* A temporary table answers with its columns.
LEMMA TempAnswers ==
  ASSUME CurInv, NoError(q), q.columns = <<>>, NEW cols, IsSeq(cols), cols # <<>>, NEW rows, SetTemp(cols, rows)
  PROVE  /\ NoError(q') /\ q'.cur = TRUE /\ IsSeq(q'.columns) /\ q'.columns # <<>>
         /\ ToSet(q'.columns) \subseteq DOMAIN table'.types
<1>1. /\ q'.cur = TRUE /\ q'.columns = q.columns \o cols /\ q'.err = q.err
      /\ table'.types = [c \in ToSet(cols) |-> "TEXT"]
  BY SetTempIs DEF CurInv
<1>2. q'.columns = cols
  BY <1>1, NoJoin
<1> QED
  BY <1>1, <1>2 DEF NoError

\* The end of a select.
LEMMA SelectAnswers ==
  ASSUME CurInv, ~q.cur, NoError(q), Progress(q, stmt, Done), stmt.kind = "select", IsStatement(stmt), IsCatalog(catalog),
         Done \in Nat, RuleIs(stmt, Done + 1, Head(todo)), Whole(stmt), mdb_sql_select
  PROVE  \/ ~NoError(q') /\ ~Answerable(stmt)
         \/ /\ NoError(q') /\ q'.cur = TRUE /\ IsSeq(q'.columns)
            /\ ToSet(q'.columns) \subseteq DOMAIN table'.types
            /\ q'.columns # <<>> <=> Answerable(stmt)
<1> DEFINE name == stmt.from
           t == catalog[Min(Named(name))]
<1>0. DOMAIN q = Fields
  BY DEF CurInv
<1>1. /\ q.tables = <<name>>
      /\ q.columns = IF Special(stmt) THEN <<>> ELSE stmt.cols
      /\ q.all <=> stmt.cols = <<"*">>
      /\ q.count <=> stmt.cols = <<"count">>
      /\ q.tree # 0 <=> stmt.where # <<>>
      /\ \A l \in Leaves(stmt.where) : Literate(l)
      /\ stmt.top.percent => stmt.top.n \in 0 .. 100
      /\ stmt.top.n = -1 \/ stmt.limit = -1
  <2> DEFINE i == Done + 1
  <2>1. RuleIs(stmt, i, Head(todo)) /\ i = Done + 1 /\ Head(todo).rule = "select"
    BY DEF mdb_sql_select, Reducing
  <2> HIDE DEF i
  <2> QED
    BY <2>1, AllRead
<1>2. q.tables # <<>> /\ q.tables[1] = name
  BY <1>1
<1>3. ASSUME NEW e, e # "", ResetWith(e) PROVE ~NoError(q')
  BY <1>3, ResetWithIs DEF NoError
<1>4. /\ Named(name) = {} => Found(name) = {}
      /\ Named(name) # {} =>
           /\ t.state \in {"ok", "no columns"}
           /\ t.state = "no columns" => Found(name) = {}
           /\ t.state = "ok" => /\ Found(name) = {t}
                                /\ IsSeq(t.order) /\ t.order # <<>> /\ ToSet(t.order) = DOMAIN t.types
  BY FoundIs
<1>5. \/ Named(name) = {} /\ ResetWith("table")
      \/ Named(name) # {} /\ t.state = "no columns" /\ q' = mdb_sql_reset([q EXCEPT !.err = "columns"])
      \/ Named(name) # {} /\ t.state # "no columns" /\ Select(t)
  BY <1>2 DEF mdb_sql_select
<1> HIDE DEF t
<1>6. Found(name) = {} => ~Answerable(stmt)
  BY DEF Answerable
<1>7. CASE Named(name) = {} /\ ResetWith("table")
  BY <1>3, <1>4, <1>6, <1>7
<1>8. CASE Named(name) # {} /\ t.state = "no columns" /\ q' = mdb_sql_reset([q EXCEPT !.err = "columns"])
  <2>1. DOMAIN [q EXCEPT !.err = "columns"] = Fields /\ [q EXCEPT !.err = "columns"].err = "columns"
    BY <1>0 DEF Fields
  <2>2. q'.err = "columns"
    BY <1>8, <2>1, ResetIs
  <2> QED
    BY <1>4, <1>6, <1>8, <2>2 DEF NoError
<1>9. CASE Named(name) # {} /\ t.state # "no columns" /\ Select(t)
  <2>1. Found(name) = {t} /\ IsSeq(t.order) /\ t.order # <<>> /\ ToSet(t.order) = DOMAIN t.types
    BY <1>4, <1>9
  <2>2. Answerable(stmt) <=> /\ Special(stmt) \/ ToSet(stmt.cols) \subseteq DOMAIN t.types
                             /\ stmt.cols = <<"count">> => stmt.where = <<>>
    BY <1>1, <2>1 DEF Answerable, Special
  <2> DEFINE cols == q.columns \o (IF q.all THEN t.order ELSE <<>>)
  <2>3. IsSeq(stmt.cols) /\ stmt.cols # <<>>
    BY SeqHere DEF IsStatement
  <2>4. cols = IF stmt.cols = <<"*">> THEN t.order ELSE IF stmt.cols = <<"count">> THEN <<>> ELSE stmt.cols
    <3>1. <<"*">> # <<"count">>
      OBVIOUS
    <3>2. CASE stmt.cols = <<"*">>
      BY <1>1, <2>1, <3>2, NoJoin DEF Special
    <3>3. CASE stmt.cols = <<"count">>
      BY <1>1, <3>1, <3>3, NoJoin, NoSeq DEF Special
    <3>4. CASE stmt.cols # <<"*">> /\ stmt.cols # <<"count">>
      BY <1>1, <2>3, <3>4, NoJoin DEF Special
    <3> QED
      BY <3>1, <3>2, <3>3, <3>4
  <2>5. IsSeq(cols)
    BY <2>1, <2>3, <2>4, NoSeq
  <2>6. \/ q.count /\ q.tree = 0 /\ SetTemp(<<"count">>, <<TempRow(<<"count">>, <<t.nrows>>)>>)
        \/ ~(q.count /\ q.tree = 0) /\ ~(ToSet(cols) \subseteq DOMAIN t.types) /\ ResetWith("column")
        \/ /\ ~(q.count /\ q.tree = 0) /\ ToSet(cols) \subseteq DOMAIN t.types
           /\ table'.types = t.types
           /\ \E limit : q' = [q EXCEPT !.columns = cols, !.tree = 0, !.cur = TRUE, !.limit = limit, !.percent = FALSE]
    BY <1>9, NoTableIs DEF Select, TableFields
  <2> HIDE DEF cols
  <2>7. ToSet(<<>>) = {}
    BY DEF ToSet
  <2>8. CASE q.count /\ q.tree = 0 /\ SetTemp(<<"count">>, <<TempRow(<<"count">>, <<t.nrows>>)>>)
    <3>1. stmt.cols = <<"count">> /\ stmt.where = <<>> /\ Special(stmt)
      BY <1>1, <2>8 DEF Special
    <3>2. Answerable(stmt) /\ q.columns = <<>>
      BY <1>1, <2>2, <3>1
    <3>3. IsSeq(<<"count">>) /\ <<"count">> # <<>>
      BY OneSeq
    <3> QED
      BY <2>8, <3>2, <3>3, TempAnswers
  <2>9. CASE ~(q.count /\ q.tree = 0) /\ ~(ToSet(cols) \subseteq DOMAIN t.types) /\ ResetWith("column")
    <3>1. ~Special(stmt) /\ cols = stmt.cols
      BY <2>1, <2>4, <2>7, <2>9 DEF Special
    <3> QED
      BY <1>3, <2>2, <2>9, <3>1
  <2>10. CASE /\ ~(q.count /\ q.tree = 0) /\ ToSet(cols) \subseteq DOMAIN t.types
              /\ table'.types = t.types
              /\ \E limit : q' = [q EXCEPT !.columns = cols, !.tree = 0, !.cur = TRUE, !.limit = limit, !.percent = FALSE]
    <3>1. q'.columns = cols /\ q'.cur = TRUE /\ q'.err = q.err
      BY <1>0, <2>10 DEF Fields
    <3>2. cols # <<>> <=> Answerable(stmt)
      <4>1. CASE stmt.cols = <<"*">>
        <5>1. <<"*">> # <<"count">>
          OBVIOUS
        <5> QED
          BY <2>1, <2>2, <2>4, <4>1, <5>1 DEF Special
      <4>2. CASE stmt.cols = <<"count">>
        <5>1. <<"*">> # <<"count">>
          OBVIOUS
        <5> QED
          BY <1>1, <2>2, <2>4, <2>10, <4>2, <5>1
      <4>3. CASE stmt.cols # <<"*">> /\ stmt.cols # <<"count">>
        BY <2>2, <2>3, <2>4, <2>10, <4>3
      <4> QED
        BY <4>1, <4>2, <4>3
    <3> QED
      BY <2>5, <2>10, <3>1, <3>2 DEF NoError
  <2> QED
    BY <2>6, <2>8, <2>9, <2>10
<1> QED
  BY <1>5, <1>7, <1>8, <1>9

\* The end of a DESCRIBE TABLE and of a LIST TABLES.
LEMMA OthersAnswer ==
  ASSUME CurInv, ~q.cur, NoError(q), Progress(q, stmt, Done), IsStatement(stmt), IsCatalog(catalog),
         Done \in Nat, RuleIs(stmt, Done + 1, Head(todo)), Whole(stmt),
         mdb_sql_describe_table \/ mdb_sql_listtables
  PROVE  \/ ~NoError(q') /\ ~Answerable(stmt)
         \/ /\ NoError(q') /\ q'.cur = TRUE /\ IsSeq(q'.columns)
            /\ ToSet(q'.columns) \subseteq DOMAIN table'.types
            /\ q'.columns # <<>> <=> Answerable(stmt)
<1> DEFINE i == Done + 1
           name == stmt.from
           t == catalog[Min(Named(name))]
<1>0. DOMAIN q = Fields
  BY DEF CurInv
<1>1. RuleIs(stmt, i, Head(todo)) /\ i = Done + 1
  OBVIOUS
<1> HIDE DEF i
<1>2. CASE mdb_sql_listtables
  <2>1. Head(todo).rule = "list"
    BY <1>2 DEF mdb_sql_listtables, Reducing
  <2>2. stmt.kind = "list"
    BY <1>1, <2>1 DEF RuleIs, Final
  <2>3. q.columns = <<>> /\ Answerable(stmt)
    BY <2>2 DEF Progress, Answerable
  <2>4. IsSeq(<<"Tables">>) /\ <<"Tables">> # <<>>
    BY OneSeq
  <2>5. \E rows : SetTemp(<<"Tables">>, rows)
    BY <1>2 DEF mdb_sql_listtables
  <2> QED
    BY <2>3, <2>4, <2>5, TempAnswers
<1>3. CASE mdb_sql_describe_table
  <2> DEFINE cols == <<"Column Name", "Type", "Size">>
  <2>1. Head(todo).rule = "describe"
    BY <1>3 DEF mdb_sql_describe_table, Reducing
  <2>2. stmt.kind = "describe" /\ i = 2
    BY <1>1, <2>1 DEF RuleIs, Final
  <2>3. q.columns = <<>> /\ q.tables = <<name>> /\ q.tables[1] = name
    <3>1. Done >= 1
      BY <1>1, <2>2
    <3> QED
      BY <2>2, <3>1 DEF Progress
  <2>4. IsSeq(cols) /\ cols # <<>>
    <3>1. cols \in Seq({"Column Name", "Type", "Size"})
      OBVIOUS
    <3>2. IsSeq(cols)
      BY <3>1, SeqHere
    <3>3. Len(cols) = 3
      OBVIOUS
    <3> QED
      BY <3>2, <3>3, NonEmpty
  <2>5. \/ Named(name) = {} /\ ResetWith("table")
        \/ Named(name) # {} /\ t.state = "no columns" /\ q' = mdb_sql_reset([q EXCEPT !.err = "columns"])
        \/ Named(name) # {} /\ t.state # "no columns" /\ \E rows : SetTemp(cols, rows)
    BY <1>3, <2>3 DEF mdb_sql_describe_table
  <2>6. /\ Named(name) = {} => Found(name) = {}
        /\ Named(name) # {} =>
             /\ t.state \in {"ok", "no columns"}
             /\ t.state = "no columns" => Found(name) = {}
             /\ t.state = "ok" => Found(name) = {t}
    BY FoundIs
  <2> HIDE DEF t, cols
  <2>7. Answerable(stmt) <=> Found(name) # {}
    BY <2>2 DEF Answerable
  <2>8. CASE Named(name) = {} /\ ResetWith("table")
    <3>1. q'.err = "table"
      BY <2>8, ResetWithIs
    <3> QED
      BY <2>6, <2>7, <2>8, <3>1 DEF NoError
  <2>9. CASE Named(name) # {} /\ t.state = "no columns" /\ q' = mdb_sql_reset([q EXCEPT !.err = "columns"])
    <3>1. DOMAIN [q EXCEPT !.err = "columns"] = Fields /\ [q EXCEPT !.err = "columns"].err = "columns"
      BY <1>0 DEF Fields
    <3>2. q'.err = "columns"
      BY <2>9, <3>1, ResetIs
    <3> QED
      BY <2>6, <2>7, <2>9, <3>2 DEF NoError
  <2>10. CASE Named(name) # {} /\ t.state # "no columns" /\ \E rows : SetTemp(cols, rows)
    <3>1. Answerable(stmt)
      BY <2>6, <2>7, <2>10
    <3> QED
      BY <2>3, <2>4, <2>10, <3>1, TempAnswers
  <2> QED
    BY <2>5, <2>8, <2>9, <2>10
<1> QED
  BY <1>2, <1>3

\* The last reduction of a statement decides it; a statement has a reduction.
LEMMA LastRule ==
  ASSUME NEW s, IsStatement(s)
  PROVE  /\ Len(Rules(s)) \in Nat /\ Len(Rules(s)) >= 1 /\ Rules(s)[Len(Rules(s))].rule \in Final
         /\ Parse(s) # <<>>
<1>1. Len(Rules(s)) \in Nat /\ Len(Rules(s)) >= 1 /\ Rules(s)[Len(Rules(s))].rule \in Final
  <2>1. CASE s.kind = "select"
    <3>1. Len(Rules(s)) = LimitEnd(s) + 1 /\ Rules(s)[LimitEnd(s) + 1] = [rule |-> "select"] /\ LimitEnd(s) \in Nat
      BY <2>1, SelectRules, EndsAre
    <3>2. Rules(s)[Len(Rules(s))] = [rule |-> "select"]
      BY <3>1
    <3> QED
      BY <3>1, <3>2 DEF Final
  <2>2. CASE s.kind = "describe"
    <3>1. Rules(s) = <<TableRule(s), [rule |-> "describe"]>>
      BY <2>2 DEF Rules
    <3>2. Len(Rules(s)) = 2 /\ Rules(s)[2] = [rule |-> "describe"]
      BY <3>1
    <3> QED
      BY <3>2 DEF Final
  <2>3. CASE s.kind = "connect"
    <3>1. Len(Rules(s)) = 1 /\ Rules(s)[1] = [rule |-> "connect", found |-> s.found]
      BY <2>3, OneSeq DEF Rules
    <3> QED
      BY <3>1 DEF Final
  <2>4. CASE s.kind \in {"list", "disconnect"}
    <3>1. Len(Rules(s)) = 1 /\ Rules(s)[1] = [rule |-> s.kind]
      BY <2>4, OneSeq DEF Rules
    <3> QED
      BY <2>4, <3>1 DEF Final
  <2> QED
    BY <2>1, <2>2, <2>3, <2>4 DEF IsStatement
<1>2. CASE Whole(s)
  <2>1. Parse(s) = Rules(s) /\ IsSeq(Rules(s))
    BY <1>2, RulesAre DEF Parse
  <2> QED
    BY <1>1, <2>1, NonEmpty
<1>3. CASE ~Whole(s)
  <2> DEFINE prefix == SubSeq(Rules(s), 1, s.cut)
  <2>1. s.cut \in 0 .. Len(Rules(s))
    BY <1>1, <1>3 DEF Whole, IsStatement
  <2>2. IsSeq(prefix) /\ Len(prefix) = s.cut
    BY <2>1, RulesAre, PrefixSeq
  <2> HIDE DEF prefix
  <2>3. Parse(s) = Append(prefix, [rule |-> "error"])
    BY <1>3 DEF Parse, prefix
  <2>4. IsSeq(Parse(s)) /\ Len(Parse(s)) = s.cut + 1
    BY <2>2, <2>3, AppendSeq
  <2>5. Len(Parse(s)) >= 1
    BY <1>1, <2>1, <2>4
  <2>6. Parse(s) # <<>>
    BY <2>4, <2>5, NonEmpty
  <2> QED
    BY <1>1, <2>6
<1> QED
  BY <1>1, <1>2, <1>3

\* The reduction behind which nothing is left to do, and one that ends a whole statement.
LEMMA LastIsFinal ==
  ASSUME TodoInv, pc = "parse", todo # <<>>
  PROVE  /\ Tail(todo) = <<>> => Head(todo).rule \in Final \cup {"error"}
         /\ RuleIs(stmt, Done + 1, Head(todo)) /\ Head(todo).rule \in Final => Whole(stmt)
         /\ Head(todo).rule = "error" => ~Whole(stmt)
         /\ Head(todo).rule # "error" => RuleIs(stmt, Done + 1, Head(todo))
<1> DEFINE i == Done + 1
<1>1. IsStatement(stmt)
  BY Described
<1>2. /\ i \in 1 .. Len(Parse(stmt)) /\ IsSeq(Parse(stmt))
      /\ \/ /\ RuleIs(stmt, i, Head(todo))
            /\ IF Whole(stmt) THEN Len(Parse(stmt)) = Len(Rules(stmt))
               ELSE i < Len(Rules(stmt)) /\ i < Len(Parse(stmt))
         \/ Head(todo) = [rule |-> "error"] /\ i = Len(Parse(stmt)) /\ ~Whole(stmt)
      /\ Tail(todo) = <<>> <=> i = Len(Parse(stmt))
  BY NextRule
<1>3. Head(todo) = Parse(stmt)[i]
  <2>1. IsSeq(todo) /\ \A j \in 1 .. Len(todo) : todo[j] = Parse(stmt)[Done + j]
    BY DEF TodoInv
  <2>2. Head(todo) = todo[1] /\ Len(todo) >= 1 /\ Len(todo) \in Nat
    BY <2>1, TailSeq, SeqFacts
  <2> QED
    BY <2>1, <2>2
<1>4. /\ Len(Rules(stmt)) \in Nat /\ Rules(stmt)[Len(Rules(stmt))].rule \in Final
      /\ Len(Parse(stmt)) \in Nat
  BY <1>1, <1>2, LastRule, SeqFacts
<1>5. RuleIs(stmt, i, Head(todo)) /\ Head(todo).rule \in Final => i = Len(Rules(stmt))
  BY DEF RuleIs
<1>6. RuleIs(stmt, i, Head(todo)) => Head(todo).rule # "error"
  BY DEF RuleIs, Known, Conditional, Final
<1> DEFINE all == Len(Rules(stmt))
           n   == Len(Parse(stmt))
<1>7. Whole(stmt) => Parse(stmt) = Rules(stmt)
  BY DEF Parse
<1> HIDE DEF i, all, n
<1>8. ASSUME Tail(todo) = <<>> PROVE Head(todo).rule \in Final \cup {"error"}
  <2>1. i = n
    BY <1>2, <1>8 DEF n
  <2>2. CASE Head(todo) = [rule |-> "error"]
    BY <2>2
  <2>3. CASE Head(todo) # [rule |-> "error"]
    <3>1. IF Whole(stmt) THEN n = all ELSE i < all /\ i < n
      BY <1>2, <2>3 DEF n, all
    <3>2. ~(i < n)
      BY <1>4, <2>1 DEF n
    <3>3. Whole(stmt) /\ i = all
      BY <2>1, <3>1, <3>2
    <3> QED
      BY <1>3, <1>4, <1>7, <3>3 DEF all
  <2> QED
    BY <2>2, <2>3
<1>9. ASSUME RuleIs(stmt, i, Head(todo)), Head(todo).rule \in Final PROVE Whole(stmt)
  <2>1. i = all
    BY <1>5, <1>9 DEF all
  <2>2. ~(i < all)
    BY <1>4, <2>1 DEF all
  <2>3. Head(todo) # [rule |-> "error"]
    BY <1>6, <1>9
  <2> QED
    BY <1>2, <2>2, <2>3 DEF all
<1>10. Head(todo).rule = "error" => ~Whole(stmt)
  BY <1>2, <1>6
<1>11. Head(todo).rule # "error" => RuleIs(stmt, i, Head(todo))
  BY <1>2
<1> QED
  BY <1>8, <1>9, <1>10, <1>11 DEF i

\* What a statement can be answered with does not change.
LEMMA AnswerSame ==
  ASSUME UNCHANGED <<stmt, catalog>>
  PROVE  Answerable(stmt)' <=> Answerable(stmt)
<1>1. Named(stmt.from)' = Named(stmt.from)
  BY DEF Named
<1>2. Found(stmt.from)' = Found(stmt.from)
  <2> DEFINE first(S) == Min(S)
             t == stmt.from
  <2> HIDE DEF first
  <2>1. Found(t) = {catalog[i] : i \in {j \in Named(t) : j = first(Named(t)) /\ catalog[j].state = "ok"}}
    BY DEF Found, first
  <2>2. Found(t)' = {catalog[i] : i \in {j \in Named(t) : j = first(Named(t)) /\ catalog[j].state = "ok"}}
    BY <1>1 DEF Found, first
  <2> QED
    BY <2>1, <2>2
<1>3. Whole(stmt)' <=> Whole(stmt)
  BY DEF Whole, Rules, TopRules, ColumnRules, TableRule, WhereRules, LimitRules
<1> QED
  BY <1>2, <1>3 DEF Answerable

\* An error stays, and the handle, but for CONNECT and DISCONNECT.
LEMMA ReduceKeepsError ==
  ASSUME ParseInv, Reduce
  PROVE  /\ q'.mdb = q.mdb \/ (Head(todo).rule \in {"connect", "disconnect"} /\ q'.cur = FALSE)
         /\ NoError(q') => NoError(q)
<1>1. ~q.cur /\ q.cur = FALSE /\ DOMAIN q = Fields /\ CurInv
  <2>1. todo # <<>>
    BY ReducesOne DEF Reducing
  <2> QED
    BY <2>1 DEF ParseInv, CurInv
<1>2. ASSUME q'.mdb = q.mdb, q'.err = q.err \/ ~NoError(q')
      PROVE  q'.mdb = q.mdb /\ (NoError(q') => NoError(q))
  BY <1>2 DEF NoError
<1>3. ASSUME NEW e, e # "", ResetWith(e) PROVE q'.mdb = q.mdb /\ ~NoError(q')
  BY <1>1, <1>3, ResetWithIs DEF NoError
<1>4. ASSUME q' = mdb_sql_reset([q EXCEPT !.err = "columns"]) PROVE q'.mdb = q.mdb /\ ~NoError(q')
  <2>1. DOMAIN [q EXCEPT !.err = "columns"] = Fields /\ [q EXCEPT !.err = "columns"].err = "columns"
        /\ [q EXCEPT !.err = "columns"].mdb = q.mdb
    BY <1>1 DEF Fields
  <2>2. q'.err = "columns" /\ q'.mdb = q.mdb
    BY <1>4, <2>1, ResetIs
  <2> QED
    BY <2>2 DEF NoError
<1>5. ASSUME NEW cols, NEW rows, SetTemp(cols, rows) PROVE q'.mdb = q.mdb /\ q'.err = q.err
  BY <1>1, <1>5, SetTempIs
<1>6. CASE mdb_sql_add_limit \/ mdb_sql_get_limit
  <2>1. q'.mdb = q.mdb /\ (q'.err = q.err \/ q'.err \in {"percent", "top and limit"})
    BY <1>1, <1>6 DEF mdb_sql_add_limit, mdb_sql_get_limit, Fields
  <2> QED
    BY <1>2, <2>1 DEF NoError
<1>7. CASE mdb_sql_add_column \/ mdb_sql_all_columns \/ mdb_sql_sel_count \/ mdb_sql_add_table
  <2>1. q'.mdb = q.mdb /\ q'.err = q.err
    BY <1>1, <1>7 DEF mdb_sql_add_column, mdb_sql_all_columns, mdb_sql_sel_count, mdb_sql_add_table, Fields
  <2> QED
    BY <1>2, <2>1
<1>8. CASE mdb_sql_add_sarg \/ mdb_sql_eval_expr \/ mdb_sql_strptime \/ mdb_sql_add_not
           \/ AddBinary("and", "AND") \/ AddBinary("or", "OR") \/ yyerrlab
  <2>1. \/ \E e \in {"literals", "strptime", "parse", "syntax"} : ResetWith(e)
        \/ \E n : q' = mdb_sql_push_node(q, n)
        \/ \E n : q' = mdb_sql_push_node(mdb_sql_pop_node(q), n)
        \/ \E n : q' = mdb_sql_push_node(mdb_sql_pop_node(mdb_sql_pop_node(q)), n)
    BY <1>8 DEF mdb_sql_add_sarg, mdb_sql_eval_expr, mdb_sql_strptime, mdb_sql_add_not, AddBinary, yyerrlab
  <2>2. ASSUME NEW x, NEW n, DOMAIN x = Fields, x.mdb = q.mdb, x.err = q.err, q' = mdb_sql_push_node(x, n)
        PROVE  q'.mdb = q.mdb /\ q'.err = q.err
    BY <2>2 DEF mdb_sql_push_node, Fields
  <2>3. /\ DOMAIN mdb_sql_pop_node(q) = Fields /\ mdb_sql_pop_node(q).mdb = q.mdb /\ mdb_sql_pop_node(q).err = q.err
    BY <1>1 DEF mdb_sql_pop_node, Fields
  <2>4. ASSUME NEW x, DOMAIN x = Fields, x.mdb = q.mdb, x.err = q.err
        PROVE  LET y == mdb_sql_pop_node(x) IN DOMAIN y = Fields /\ y.mdb = q.mdb /\ y.err = q.err
    BY <2>4 DEF mdb_sql_pop_node, Fields
  <2>5. CASE \E e \in {"literals", "strptime", "parse", "syntax"} : ResetWith(e)
    BY <1>3, <2>5
  <2>6. CASE \E n : q' = mdb_sql_push_node(q, n)
    BY <1>1, <1>2, <2>2, <2>6
  <2>7. CASE \E n : q' = mdb_sql_push_node(mdb_sql_pop_node(q), n)
    BY <1>2, <2>2, <2>3, <2>7
  <2>8. CASE \E n : q' = mdb_sql_push_node(mdb_sql_pop_node(mdb_sql_pop_node(q)), n)
    BY <1>2, <2>2, <2>3, <2>4, <2>8
  <2> QED
    BY <2>1, <2>5, <2>6, <2>7, <2>8
<1>9. CASE mdb_sql_open
  <2>1. /\ Head(todo).rule = "connect" /\ q'.cur = FALSE
        /\ q'.err = q.err \/ q'.err = "locate"
    BY <1>1, <1>9 DEF mdb_sql_open, Reducing, Fields
  <2> QED
    BY <2>1 DEF NoError
<1>10. CASE mdb_sql_close
  <2>1. Head(todo).rule = "disconnect" /\ q'.cur = FALSE /\ q'.err = q.err
    BY <1>1, <1>10 DEF mdb_sql_close, Reducing, Fields
  <2> QED
    BY <2>1 DEF NoError
<1>11. CASE mdb_sql_listtables
  BY <1>2, <1>5, <1>11 DEF mdb_sql_listtables
<1>12. CASE mdb_sql_describe_table
  <2>1. \/ ResetWith("table")
        \/ q' = mdb_sql_reset([q EXCEPT !.err = "columns"])
        \/ \E cols, rows : SetTemp(cols, rows)
    BY <1>12 DEF mdb_sql_describe_table
  <2> QED
    BY <1>2, <1>3, <1>4, <1>5, <2>1
<1>13. CASE mdb_sql_select
  <2>1. \/ UNCHANGED q
        \/ ResetWith("table")
        \/ q' = mdb_sql_reset([q EXCEPT !.err = "columns"])
        \/ Select(catalog[Min(Named(q.tables[1]))])
    BY <1>13 DEF mdb_sql_select
  <2>2. ASSUME NEW t, Select(t) PROVE q'.mdb = q.mdb /\ (NoError(q') => NoError(q))
    <3> DEFINE cols == q.columns \o (IF q.all THEN t.order ELSE <<>>)
    <3> HIDE DEF cols
    <3>1. \/ \E rows : SetTemp(<<"count">>, rows)
          \/ ResetWith("column")
          \/ \E limit : q' = [q EXCEPT !.columns = cols, !.tree = 0, !.cur = TRUE, !.limit = limit, !.percent = FALSE]
      BY <2>2 DEF Select, cols
    <3>2. CASE \E limit : q' = [q EXCEPT !.columns = cols, !.tree = 0, !.cur = TRUE, !.limit = limit, !.percent = FALSE]
      <4>1. q'.mdb = q.mdb /\ q'.err = q.err
        BY <1>1, <3>2 DEF Fields
      <4> QED
        BY <1>2, <4>1
    <3> QED
      BY <1>2, <1>3, <1>5, <3>1, <3>2
  <2> QED
    BY <1>2, <1>3, <1>4, <2>1, <2>2
<1> QED
  BY <1>6, <1>7, <1>8, <1>9, <1>10, <1>11, <1>12, <1>13 DEF Reduce, mdb_sql_add_and, mdb_sql_add_or

\* What the end of a parse has left for a query to answer with.
Finished ==
  IF q.cur THEN /\ IsSeq(q.columns) /\ ToSet(q.columns) \subseteq DOMAIN table.types
                /\ q.columns # <<>> <=> Answerable(stmt)
  ELSE ~Answerable(stmt)

\* A statement with an error is one that cannot be answered, unless its database was not
\* found; one without is read as far as it has been parsed, and at the end it has a table
\* whose columns it selects if and only if it can be answered.
AnswerInv ==
  /\ pc = "parse" /\ todo # <<>> => q.mdb # 0
  /\ q.cur => q.mdb # 0
  /\ pc \in {"parse", "opened"} /\ ~NoError(q) => (pc = "opened" /\ q.err = "locate") \/ ~Answerable(stmt)
  /\ pc = "parse" /\ NoError(q) =>
       /\ todo = <<>> => Finished
       /\ todo # <<>> => Progress(q, stmt, Done)
  /\ pc = "opened" /\ NoError(q) => q.cur /\ Finished /\ Len(q.values) = Len(q.columns)
  /\ pc \in {"query", "fetch", "end"} =>
       q.cur /\ IsSeq(q.columns) /\ ToSet(q.columns) \subseteq DOMAIN table.types
       /\ Len(q.values) = Len(q.columns)

\* A reduction takes a statement without an error one step further, or finds that it cannot
\* be answered.
LEMMA ReduceAnswers ==
  ASSUME ParseInv, TreesInv, Reduce, NoError(q), Progress(q, stmt, Done)
  PROVE  \/ ~NoError(q') /\ ~Answerable(stmt)
         \/ NoError(q') /\ todo' # <<>> /\ Progress(q', stmt, Done + 1)
         \/ /\ NoError(q') /\ todo' = <<>>
            /\ IF q'.cur THEN /\ IsSeq(q'.columns) /\ ToSet(q'.columns) \subseteq DOMAIN table'.types
                              /\ q'.columns # <<>> <=> Answerable(stmt)
               ELSE ~Answerable(stmt)
<1> DEFINE g == Head(todo)
           i == Done + 1
<1>1. pc = "parse" /\ todo # <<>> /\ todo' = Tail(todo) /\ TodoInv /\ CurInv
  BY ReducesOne DEF Reducing, ParseInv
<1>2. ~q.cur /\ q.cur = FALSE /\ DOMAIN q = Fields
  BY <1>1 DEF CurInv
<1>3. IsStatement(stmt) /\ IsCatalog(catalog) /\ Done \in Nat /\ i = Done + 1
  BY <1>1, Described, NextRule
<1>4. /\ g.rule \in Final \cup {"error"} <=> todo' = <<>>
      /\ RuleIs(stmt, i, g) /\ g.rule \in Final => Whole(stmt)
      /\ g.rule = "error" => ~Whole(stmt)
      /\ g.rule # "error" => RuleIs(stmt, i, g)
  BY <1>1, LastIsFinal, NextRule
<1> HIDE DEF g, i
<1>5. ASSUME stmt.kind = "select", RuleIs(stmt, i, g), g.rule \notin Final \cup {"error"},
             \/ ~NoError(q') /\ ~Answerable(stmt)
             \/ NoError(q') /\ Advances(q, q', stmt, Done, g)
      PROVE  \/ ~NoError(q') /\ ~Answerable(stmt)
             \/ NoError(q') /\ todo' # <<>> /\ Progress(q', stmt, i)
  <2>1. g.rule # "select"
    BY <1>5 DEF Final
  <2>2. Advances(q, q', stmt, Done, g) => Progress(q', stmt, i)
    BY <1>3, <1>5, <2>1, AdvancesProgress
  <2> QED
    BY <1>4, <1>5, <2>2
<1>6. ASSUME NEW name \in {"and", "or"}, NEW oper,
             mdb_sql_add_sarg \/ mdb_sql_eval_expr \/ mdb_sql_strptime \/ mdb_sql_add_not \/ AddBinary(name, oper)
      PROVE  \/ ~NoError(q') /\ ~Answerable(stmt)
             \/ NoError(q') /\ todo' # <<>> /\ Progress(q', stmt, i)
  <2>1. g.rule \in Conditional
    BY <1>6 DEF mdb_sql_add_sarg, mdb_sql_eval_expr, mdb_sql_strptime, mdb_sql_add_not, AddBinary, Reducing,
                Conditional, g
  <2>2. g.rule \notin Final \cup {"error"}
    BY <2>1 DEF Conditional, Final
  <2>3. RuleIs(stmt, i, g) /\ stmt.kind = "select"
    BY <1>4, <2>1, <2>2 DEF RuleIs
  <2>4. \/ ~NoError(q') /\ ~Answerable(stmt)
        \/ NoError(q') /\ Advances(q, q', stmt, Done, g)
    BY <1>1, <1>2, <1>3, <1>6, <2>1, <2>3, ItemAdvances DEF g, i
  <2> QED
    BY <1>5, <2>2, <2>3, <2>4
<1>7. ASSUME \/ mdb_sql_add_limit \/ mdb_sql_get_limit \/ mdb_sql_add_column \/ mdb_sql_all_columns
             \/ mdb_sql_sel_count \/ mdb_sql_add_table,
             stmt.kind = "select"
      PROVE  \/ ~NoError(q') /\ ~Answerable(stmt)
             \/ NoError(q') /\ todo' # <<>> /\ Progress(q', stmt, i)
  <2>1. g.rule \in {"top", "limit", "column", "*", "count", "table"}
    BY <1>7 DEF Reducing, mdb_sql_add_limit, mdb_sql_get_limit, mdb_sql_add_column, mdb_sql_all_columns,
                mdb_sql_sel_count, mdb_sql_add_table, g
  <2>2. g.rule \notin Final \cup {"error"}
    BY <2>1 DEF Final
  <2>3. RuleIs(stmt, i, g)
    BY <1>4, <2>2
  <2>4. \/ ~NoError(q') /\ ~Answerable(stmt)
        \/ NoError(q') /\ Advances(q, q', stmt, Done, g)
    BY <1>1, <1>3, <1>7, <2>3, OtherAdvances DEF g, i
  <2> QED
    BY <1>5, <1>7, <2>2, <2>3, <2>4
<1>8. ASSUME \/ mdb_sql_add_limit \/ mdb_sql_get_limit \/ mdb_sql_add_column \/ mdb_sql_all_columns
             \/ mdb_sql_sel_count \/ mdb_sql_add_table,
             stmt.kind # "select"
      PROVE  NoError(q') /\ todo' # <<>> /\ Progress(q', stmt, i)
  <2>1. g.rule \in {"top", "limit", "column", "*", "count", "table"}
    BY <1>8 DEF Reducing, mdb_sql_add_limit, mdb_sql_get_limit, mdb_sql_add_column, mdb_sql_all_columns,
                mdb_sql_sel_count, mdb_sql_add_table, g
  <2>2. g.rule \notin Final \cup {"error"}
    BY <2>1 DEF Final
  <2>3. g.rule = "table" /\ g.name = stmt.from /\ stmt.kind = "describe" /\ i = 1
    <3>1. RuleIs(stmt, i, g)
      BY <1>4, <2>2
    <3> QED
      BY <1>8, <2>1, <3>1 DEF RuleIs
  <2>4. q' = [q EXCEPT !.tables = Append(@, g.name)]
    BY <1>8, <2>3 DEF Reducing, mdb_sql_add_limit, mdb_sql_get_limit, mdb_sql_add_column, mdb_sql_all_columns,
                mdb_sql_sel_count, mdb_sql_add_table, g
  <2>5. q'.tables = Append(q.tables, g.name) /\ q'.columns = q.columns /\ q'.err = q.err
    BY <1>2, <2>4 DEF Fields
  <2>6. Done = 0
    BY <1>3, <2>3
  <2>7. q.tables = <<>> /\ q.columns = <<>>
    BY <2>3, <2>6 DEF Progress
  <2>8. q'.tables = <<stmt.from>>
    BY <2>3, <2>5, <2>7
  <2>9. Progress(q', stmt, i)
    BY <2>3, <2>5, <2>7, <2>8 DEF Progress
  <2> QED
    BY <1>4, <2>2, <2>5, <2>9 DEF NoError
<1>9. ASSUME yyerrlab PROVE ~NoError(q') /\ ~Answerable(stmt)
  <2>1. g.rule = "error" /\ ResetWith("syntax")
    BY <1>9 DEF yyerrlab, Reducing, g
  <2>2. q'.err = "syntax"
    BY <1>1, <1>2, <2>1, ResetWithIs
  <2> QED
    BY <1>4, <2>1, <2>2 DEF NoError, Answerable
<1>10. ASSUME mdb_sql_open \/ mdb_sql_close PROVE todo' = <<>> /\ q'.cur = FALSE /\ ~Answerable(stmt)
  <2>1. g.rule \in {"connect", "disconnect"} /\ q'.cur = FALSE
    BY <1>2, <1>10 DEF mdb_sql_open, mdb_sql_close, Reducing, Fields, g
  <2>2. g.rule \in Final /\ g.rule # "error"
    BY <2>1 DEF Final
  <2>3. stmt.kind \in {"connect", "disconnect"}
    BY <1>4, <2>1, <2>2 DEF RuleIs
  <2> QED
    BY <1>4, <2>1, <2>2, <2>3 DEF Answerable
<1>11. ASSUME mdb_sql_listtables \/ mdb_sql_describe_table \/ mdb_sql_select
       PROVE  /\ todo' = <<>>
              /\ \/ ~NoError(q') /\ ~Answerable(stmt)
                 \/ /\ NoError(q') /\ q'.cur = TRUE /\ IsSeq(q'.columns)
                    /\ ToSet(q'.columns) \subseteq DOMAIN table'.types
                    /\ q'.columns # <<>> <=> Answerable(stmt)
  <2>1. g.rule \in {"list", "describe", "select"} /\ (mdb_sql_select => g.rule = "select")
    BY <1>11 DEF mdb_sql_listtables, mdb_sql_describe_table, mdb_sql_select, Reducing, g
  <2>2. g.rule \in Final /\ g.rule # "error"
    BY <2>1 DEF Final
  <2>3. RuleIs(stmt, i, g) /\ Whole(stmt) /\ todo' = <<>> /\ (mdb_sql_select => stmt.kind = "select")
    BY <1>4, <2>1, <2>2 DEF RuleIs
  <2>4. CASE mdb_sql_select
    BY <1>1, <1>2, <1>3, <2>3, <2>4, SelectAnswers DEF g, i
  <2>5. CASE mdb_sql_describe_table \/ mdb_sql_listtables
    BY <1>1, <1>2, <1>3, <2>3, <2>5, OthersAnswer DEF g, i
  <2> QED
    BY <1>11, <2>3, <2>4, <2>5
<1>12. \/ \E name \in {"and", "or"}, oper \in {"AND", "OR"} :
            mdb_sql_add_sarg \/ mdb_sql_eval_expr \/ mdb_sql_strptime \/ mdb_sql_add_not \/ AddBinary(name, oper)
       \/ mdb_sql_add_limit \/ mdb_sql_get_limit \/ mdb_sql_add_column \/ mdb_sql_all_columns
       \/ mdb_sql_sel_count \/ mdb_sql_add_table
       \/ yyerrlab
       \/ mdb_sql_open \/ mdb_sql_close
       \/ mdb_sql_listtables \/ mdb_sql_describe_table \/ mdb_sql_select
  BY DEF Reduce, mdb_sql_add_and, mdb_sql_add_or
<1> QED
  BY <1>6, <1>7, <1>8, <1>9, <1>10, <1>11, <1>12 DEF i

LEMMA ReduceKeepsAnswer ==
  ASSUME ParseInv, TreesInv, AnswerInv, Reduce
  PROVE  AnswerInv'
<1>1. pc = "parse" /\ todo # <<>> /\ todo' = Tail(todo) /\ UNCHANGED <<stmt, catalog, pc>> /\ pc' = "parse"
  BY ReducesOne DEF Reducing
<1>2. Done' = Done + 1
  BY ReducesOne, ReducingKeepsTodo DEF ParseInv
<1>3. Answerable(stmt)' <=> Answerable(stmt)
  BY <1>1, AnswerSame
<1>4. q.mdb # 0
  BY <1>1 DEF AnswerInv
<1>5. Head(todo).rule \in {"connect", "disconnect"} => todo' = <<>>
  BY <1>1, NextRule DEF ParseInv, Final
<1>6. (todo' # <<>> => q'.mdb # 0) /\ (q'.cur => q'.mdb # 0)
  BY <1>4, <1>5, ReduceKeepsError
<1>7. NoError(q') => NoError(q)
  BY ReduceKeepsError
<1>8. ~NoError(q) => ~Answerable(stmt)
  BY <1>1 DEF AnswerInv
<1>9. NoError(q) => Progress(q, stmt, Done)
  BY <1>1 DEF AnswerInv
<1>10. CASE ~NoError(q)
  BY <1>1, <1>3, <1>6, <1>7, <1>8, <1>10 DEF AnswerInv
<1>11. CASE NoError(q)
  <2>1. \/ ~NoError(q') /\ ~Answerable(stmt)
        \/ NoError(q') /\ todo' # <<>> /\ Progress(q', stmt, Done + 1)
        \/ /\ NoError(q') /\ todo' = <<>>
           /\ IF q'.cur THEN /\ IsSeq(q'.columns) /\ ToSet(q'.columns) \subseteq DOMAIN table'.types
                             /\ q'.columns # <<>> <=> Answerable(stmt)
              ELSE ~Answerable(stmt)
    BY <1>9, <1>11, ReduceAnswers
  <2>2. CASE ~NoError(q') /\ ~Answerable(stmt)
    BY <1>1, <1>3, <1>6, <2>2 DEF AnswerInv
  <2>3. CASE NoError(q') /\ todo' # <<>> /\ Progress(q', stmt, Done + 1)
    <3>1. Progress(q, stmt, Done)'
      BY <1>1, <1>2, <2>3 DEF Progress
    <3> QED
      BY <1>1, <1>6, <2>3, <3>1 DEF AnswerInv
  <2>4. CASE /\ NoError(q') /\ todo' = <<>>
             /\ IF q'.cur THEN /\ IsSeq(q'.columns) /\ ToSet(q'.columns) \subseteq DOMAIN table'.types
                               /\ q'.columns # <<>> <=> Answerable(stmt)
                ELSE ~Answerable(stmt)
    <3>1. Finished'
      BY <1>3, <2>4 DEF Finished, IsSeq
    <3> QED
      BY <1>1, <1>6, <2>4, <3>1 DEF AnswerInv
  <2> QED
    BY <2>1, <2>2, <2>3, <2>4
<1> QED
  BY <1>10, <1>11

\* Nothing is read before the first reduction.
LEMMA NothingRead ==
  ASSUME NEW s, IsStatement(s), NEW r, r = [mdb_sql_init EXCEPT !.mdb = 1]
  PROVE  Progress(r, s, 0) /\ NoError(r)
<1>1. /\ r.limit = -1 /\ r.columns = <<>> /\ r.all = FALSE /\ r.count = FALSE /\ r.tables = <<>>
      /\ r.stack = <<>> /\ r.tree = 0
  BY DEF mdb_sql_init
<1>2. NoError(r)
  BY DEF mdb_sql_init, NoError
<1>3. CASE s.kind = "select"
  <2> DEFINE T == TopEnd(s)
             C == ColumnEnd(s)
             B == TableEnd(s)
             W == WhereEnd(s)
             n == Len(s.cols)
             m == Len(s.where)
  <2>1. /\ T \in {0, 1} /\ (Special(s) => C = T + 1) /\ (~Special(s) => C = T + n)
        /\ B = C + 1 /\ W = B + m /\ n \in Nat /\ n >= 1 /\ m \in Nat
    BY <1>3, EndsAre
  <2>2. Columns(s, 0) = IF Special(s) THEN 0 ELSE IF 0 <= T THEN 0 ELSE IF 0 >= C THEN C - T ELSE 0 - T
    BY DEF Columns, Part
  <2>3. Items(s, 0) = IF 0 <= B THEN 0 ELSE IF 0 >= W THEN W - B ELSE 0 - B
    BY DEF Items, Part
  <2>4. LimitAt(s, 0) = IF s.limit # -1 /\ 0 > W THEN s.limit ELSE -1
    BY DEF LimitAt
  <2>5. (0 >= ColumnEnd(s) <=> 0 >= C) /\ (0 >= TableEnd(s) <=> 0 >= B) /\ (0 > WhereEnd(s) <=> 0 > W)
    OBVIOUS
  <2> HIDE DEF T, C, B, W, n, m
  <2>6. T >= 0 /\ C >= 1 /\ B >= 1 /\ W >= 1 /\ T \in Int /\ C \in Int /\ B \in Int /\ W \in Int
    BY <2>1
  <2>7. Columns(s, 0) = 0 /\ Items(s, 0) = 0 /\ LimitAt(s, 0) = -1
    BY <2>2, <2>3, <2>4, <2>6
  <2>8. ~(0 >= ColumnEnd(s)) /\ ~(0 >= TableEnd(s)) /\ ~(0 > WhereEnd(s))
    BY <2>5, <2>6
  <2>9. Depth(s.where, 0) = 0
    BY DepthStep
  <2>10. IsSeq(<<>>) /\ Len(<<>>) = 0
    BY NoSeq
  <2> QED
    BY <1>1, <1>2, <1>3, <2>7, <2>8, <2>9, <2>10 DEF Progress
<1>4. CASE s.kind # "select"
  BY <1>1, <1>2, <1>4 DEF Progress
<1> QED
  BY <1>3, <1>4

LEMMA OpenKeepsAnswer ==
  ASSUME ParseInv, cmdb_query_open
  PROVE  AnswerInv'
<1>1. PICK s \in Queries, found \in BOOLEAN :
         /\ stmt' = s.stmt
         /\ IF found THEN /\ q' = [mdb_sql_init EXCEPT !.mdb = 1]
                          /\ pc' = "parse" /\ todo' = Parse(s.stmt)
            ELSE q' = [mdb_sql_init EXCEPT !.err = "locate"] /\ pc' = "opened"
  BY DEF cmdb_query_open
<1>2. IsStatement(s.stmt)
  BY QueriesAssumption
<1>3. CASE found
  <2>1. todo' # <<>> /\ Len(Parse(s.stmt)) \in Nat
    BY <1>1, <1>2, <1>3, LastRule, ParseAt, SeqFacts
  <2>2. Done' = 0
    BY <1>1, <1>3, <2>1 DEF Done
  <2>3. Progress(q', stmt', 0) /\ NoError(q')
    BY <1>1, <1>2, <1>3, NothingRead
  <2>4. q'.mdb = 1 /\ q'.cur = FALSE
    BY <1>1, <1>3 DEF mdb_sql_init
  <2>5. Progress(q, stmt, Done)'
    BY <2>2, <2>3 DEF Progress
  <2> QED
    BY <1>1, <1>3, <2>1, <2>3, <2>4, <2>5 DEF AnswerInv
<1>4. CASE ~found
  <2>1. q'.cur = FALSE /\ q'.err = "locate" /\ pc' = "opened"
    BY <1>1, <1>4 DEF mdb_sql_init
  <2>2. ~NoError(q')
    BY <2>1 DEF NoError
  <2> QED
    BY <2>1, <2>2 DEF AnswerInv
<1> QED
  BY <1>3, <1>4

\* The buffers are as many as the columns.
LEMMA BoundAll ==
  ASSUME NEW x, IsSeq(x), NEW v, DOMAIN v = DOMAIN x, v = [i \in DOMAIN x |-> v[i]]
  PROVE  Len(v) = Len(x)
<1>1. Len(x) \in Nat /\ DOMAIN x = 1 .. Len(x)
  BY SeqFacts
<1>2. DOMAIN v = 1 .. Len(x) /\ v = [i \in 1 .. Len(x) |-> v[i]]
  BY <1>1
<1> QED
  BY <1>1, <1>2, SeqMade

LEMMA RunKeepsAnswer ==
  ASSUME ParseInv, AnswerInv, mdb_sql_run_query
  PROVE  AnswerInv'
<1>1. pc = "parse" /\ todo = <<>> /\ pc' = "opened" /\ UNCHANGED <<stmt, catalog, todo>>
  BY DEF mdb_sql_run_query
<1>2. Answerable(stmt)' <=> Answerable(stmt)
  BY <1>1, AnswerSame
<1>3. /\ ~NoError(q) => ~Answerable(stmt)
      /\ NoError(q) => Finished
      /\ q.cur => q.mdb # 0
  BY <1>1 DEF AnswerInv
<1>4. DOMAIN q = Fields /\ DOMAIN table = TableFields
  BY DEF ParseInv, CurInv
<1>5. CASE q.cur
  <2>1. mdb_sql_bind_all
    BY <1>5 DEF mdb_sql_run_query
  <2>2. /\ q'.values = [i \in DOMAIN q.columns |-> Empty]
        /\ q'.cur = q.cur /\ q'.mdb = q.mdb /\ q'.err = q.err /\ q'.columns = q.columns
        /\ table'.types = table.types
    BY <1>4, <2>1 DEF mdb_sql_bind_all, Fields, TableFields
  <2>3. NoError(q') <=> NoError(q)
    BY <2>2 DEF NoError
  <2>4. ASSUME NoError(q) PROVE q'.cur /\ Finished' /\ Len(q'.values) = Len(q'.columns)
    <3>1. /\ IsSeq(q.columns) /\ ToSet(q.columns) \subseteq DOMAIN table.types
          /\ q.columns # <<>> <=> Answerable(stmt)
      BY <1>3, <1>5, <2>4 DEF Finished
    <3>2. Finished'
      BY <1>2, <1>5, <2>2, <3>1 DEF Finished, IsSeq
    <3>3. Len(q'.values) = Len(q.columns)
      <4> DEFINE x == q.columns
                 v == q'.values
      <4>1. IsSeq(x) /\ DOMAIN v = DOMAIN x /\ v = [i \in DOMAIN x |-> v[i]]
        BY <2>2, <3>1
      <4> HIDE DEF x, v
      <4>2. Len(v) = Len(x)
        BY <4>1, BoundAll
      <4> QED
        BY <4>2 DEF x, v
    <3> QED
      BY <1>5, <2>2, <3>2, <3>3
  <2> QED
    BY <1>1, <1>2, <1>3, <1>5, <2>2, <2>3, <2>4 DEF AnswerInv
<1>6. CASE ~q.cur
  <2>1. q'.err = "no result" /\ q'.cur = q.cur
    BY <1>4, <1>6 DEF mdb_sql_run_query, Fields
  <2>2. ~NoError(q')
    BY <2>1 DEF NoError
  <2>3. ~Answerable(stmt)
    BY <1>3, <1>6 DEF Finished
  <2> QED
    BY <1>1, <1>2, <1>6, <2>1, <2>2, <2>3 DEF AnswerInv
<1> QED
  BY <1>5, <1>6

LEMMA FetchKeepsAnswer ==
  ASSUME ParseInv, AnswerInv, mdb_sql_fetch_row
  PROVE  AnswerInv'
<1>1. pc = "fetch" /\ pc' \in {"query", "end"} /\ UNCHANGED <<table, stmt, catalog, todo>>
  BY DEF mdb_sql_fetch_row
<1>2. /\ q.cur /\ IsSeq(q.columns) /\ ToSet(q.columns) \subseteq DOMAIN table.types
      /\ Len(q.values) = Len(q.columns) /\ q.mdb # 0
  BY <1>1 DEF AnswerInv
<1>3. DOMAIN q = Fields
  BY DEF ParseInv, CurInv
<1> DEFINE x == q.columns
           v == [i \in DOMAIN q.columns |-> _mdb_attempt_bind(got, i)]
<1>4. /\ q'.cur = q.cur /\ q'.mdb = q.mdb /\ q'.columns = q.columns
      /\ q'.values \in {q.values, v}
  BY <1>3 DEF mdb_sql_fetch_row, Fields
<1>5. Len(v) = Len(x)
  <2>1. IsSeq(x) /\ DOMAIN v = DOMAIN x /\ v = [i \in DOMAIN x |-> v[i]]
    BY <1>2
  <2> HIDE DEF x, v
  <2> QED
    BY <2>1, BoundAll
<1> HIDE DEF v
<1>6. Len(q'.values) = Len(q'.columns)
  BY <1>2, <1>4, <1>5 DEF x
<1> QED
  BY <1>1, <1>2, <1>4, <1>6 DEF AnswerInv, IsSeq

\* A query is opened if and only if its statement can be answered: every error on the way
\* is one of those that make it unanswerable, and an unanswerable statement ends with an
\* error or without columns (mdb_sql_run_query, OpenQuery).  An open query has a handle, a
\* table with the columns it selects, and a buffer for each.
THEOREM QueryAnswers == Spec => []OpenAnswers
<1>1. ASSUME Init PROVE AnswerInv
  <2>1. pc = "none" /\ q.cur = FALSE
    BY <1>1 DEF Init, mdb_sql_init
  <2> QED
    BY <2>1 DEF AnswerInv
<1>2. ASSUME ParseInv, TreesInv, AnswerInv, [Next]_vars PROVE AnswerInv'
  <2>1. CASE UNCHANGED vars
    <3>1. UNCHANGED <<stmt, catalog, pc, todo, q, table>>
      BY <2>1 DEF vars
    <3>2. Answerable(stmt)' <=> Answerable(stmt)
      BY <3>1, AnswerSame
    <3>3. Done' = Done
      BY <3>1 DEF Done, Parse, Whole, Rules, TopRules, ColumnRules, TableRule, WhereRules, LimitRules
    <3>4. (Finished' <=> Finished) /\ (Progress(q, stmt, Done)' <=> Progress(q, stmt, Done))
      BY <3>1, <3>2, <3>3 DEF Finished, Progress, IsSeq
    <3> QED
      BY <1>2, <3>1, <3>2, <3>4 DEF AnswerInv, IsSeq
  <2>2. CASE cmdb_query_open
    BY <1>2, <2>2, OpenKeepsAnswer
  <2>3. CASE Reduce
    BY <1>2, <2>3, ReduceKeepsAnswer
  <2>4. CASE mdb_sql_run_query
    BY <1>2, <2>4, RunKeepsAnswer
  <2>5. ASSUME Exit PROVE q'.cur = FALSE
    BY <2>5 DEF Exit, mdb_sql_init
  <2>6. CASE OpenQuery
    <3>1. CASE Exit /\ pc' = "failed"
      BY <2>5, <3>1 DEF AnswerInv
    <3>2. CASE pc' = "query" /\ UNCHANGED <<q, table>> /\ NoError(q)
      <4>1. pc = "opened"
        BY <2>6 DEF OpenQuery
      <4>2. q.cur /\ q.mdb # 0 /\ Finished /\ Len(q.values) = Len(q.columns)
        BY <1>2, <3>2, <4>1 DEF AnswerInv
      <4> QED
        BY <3>2, <4>2 DEF AnswerInv, Finished, IsSeq
    <3> QED
      BY <2>6, <3>1, <3>2 DEF OpenQuery, NoError
  <2>7. CASE cmdb_query_next \/ FetchStep
    <3>1. pc \in {"query", "fetch"} /\ pc' = "fetch" /\ UNCHANGED <<q, table>>
      BY <2>7 DEF cmdb_query_next, FetchStep, ScanStep, query
    <3> QED
      BY <1>2, <3>1 DEF AnswerInv, IsSeq
  <2>8. CASE mdb_sql_fetch_row
    BY <1>2, <2>8, FetchKeepsAnswer
  <2>9. CASE cmdb_query_close
    <3>1. q'.cur = FALSE /\ pc' = "closed"
      BY <2>5, <2>9 DEF cmdb_query_close
    <3> QED
      BY <3>1 DEF AnswerInv
  <2> QED
    BY <1>2, <2>1, <2>2, <2>3, <2>4, <2>6, <2>7, <2>8, <2>9 DEF Next
<1>3. ASSUME AnswerInv PROVE OpenAnswers
  <2>1. ASSUME pc = "opened" PROVE (NoError(q) /\ q.columns # <<>>) <=> (q.err # "locate" /\ Answerable(stmt))
    <3>1. CASE NoError(q)
      <4>1. q.err # "locate"
        BY <3>1 DEF NoError
      <4>2. q.columns # <<>> <=> Answerable(stmt)
        BY <1>3, <2>1, <3>1 DEF AnswerInv, Finished
      <4> QED
        BY <3>1, <4>1, <4>2
    <3>2. CASE ~NoError(q)
      BY <1>3, <2>1, <3>2 DEF AnswerInv
    <3> QED
      BY <3>1, <3>2
  <2>2. pc \in {"query", "fetch", "end"} =>
          q.cur /\ q.mdb # 0 /\ Len(q.values) = Len(q.columns) /\ ToSet(q.columns) \subseteq DOMAIN table.types
    BY <1>3 DEF AnswerInv
  <2> QED
    BY <2>1, <2>2 DEF OpenAnswers, NoError
<1> QED
  BY <1>1, <1>2, <1>3, QueryParsed, QueryTrees, PTL DEF Spec

-----------------------------------------------------------------------------
(* The tree of a condition *)

\* The function that gives the nodes of a tree in postfix form, over the first N nodes.
Posted(nodes, N, f) == f = [k \in 0 .. N |-> PostfixAt(nodes, f, k)]

LEMMA PostfixExists ==
  ASSUME NEW nodes, NEW N \in Nat, Ordered(nodes, N)
  PROVE  \E f : Posted(nodes, N, f)
<1> DEFINE S == {m \in Nat : m <= N => \E f : Posted(nodes, m, f)}
<1>1. 0 \in S
  <2> DEFINE f == [k \in 0 .. 0 |-> <<>>]
  <2>1. f = [k \in 0 .. 0 |-> PostfixAt(nodes, f, k)]
    BY \A k \in 0 .. 0 : k = 0 DEF PostfixAt
  <2> QED
    BY <2>1 DEF Posted
<1>2. ASSUME NEW m \in Nat, m \in S PROVE m + 1 \in S
  <2> SUFFICES ASSUME m + 1 <= N PROVE \E f : Posted(nodes, m + 1, f)
    OBVIOUS
  <2>1. PICK f : f = [k \in 0 .. m |-> PostfixAt(nodes, f, k)]
    BY <1>2 DEF Posted
  <2> DEFINE g == [k \in 0 .. m + 1 |-> IF k = m + 1 THEN PostfixAt(nodes, f, k) ELSE f[k]]
  <2>2. \A k \in 0 .. m : f[k] = PostfixAt(nodes, f, k)
    BY <2>1
  <2>3. ASSUME NEW k \in 0 .. m + 1 PROVE PostfixAt(nodes, g, k) = PostfixAt(nodes, f, k)
    <3>1. CASE k = 0
      BY <3>1 DEF PostfixAt
    <3>2. CASE k # 0
      <4>1. nodes[k].left \in 0 .. k - 1 /\ nodes[k].right \in 0 .. k - 1
        BY <3>2 DEF Ordered
      <4>2. g[nodes[k].left] = f[nodes[k].left] /\ g[nodes[k].right] = f[nodes[k].right]
        BY <4>1
      <4> QED
        BY <4>2, SMTT(20) DEF PostfixAt
    <3> QED
      BY <3>1, <3>2
  <2>4. g = [k \in 0 .. m + 1 |-> PostfixAt(nodes, g, k)]
    <3> HIDE DEF g
    <3>1. g = [k \in 0 .. m + 1 |-> IF k = m + 1 THEN PostfixAt(nodes, f, k) ELSE f[k]]
      BY DEF g
    <3>2. \A k \in 0 .. m + 1 : g[k] = PostfixAt(nodes, g, k)
      BY <2>2, <2>3, <3>1
    <3> QED
      BY <3>1, <3>2
  <2> QED
    BY <2>4 DEF Posted
<1>3. Nat \subseteq S
  <2> HIDE DEF S
  <2> QED
    BY <1>1, <1>2, NatInduct
<1> QED
  BY <1>3

LEMMA PostfixIs ==
  ASSUME NEW nodes, Len(nodes) \in Nat, Ordered(nodes, Len(nodes))
  PROVE  /\ Postfix(nodes, 0) = <<>>
         /\ \A n \in 1 .. Len(nodes) :
              Postfix(nodes, n) = Postfix(nodes, nodes[n].left) \o Postfix(nodes, nodes[n].right) \o <<n>>
<1> DEFINE post == CHOOSE f : Posted(nodes, Len(nodes), f)
<1>1. \A n : Postfix(nodes, n) = post[n]
  BY DEF Postfix, Posted
<1>2. ASSUME NEW f, Posted(nodes, Len(nodes), f)
      PROVE  /\ f[0] = <<>>
             /\ \A n \in 1 .. Len(nodes) : f[n] = f[nodes[n].left] \o f[nodes[n].right] \o <<n>>
  <2>1. \A k \in 0 .. Len(nodes) : f[k] = PostfixAt(nodes, f, k)
    BY <1>2 DEF Posted
  <2>2. f[0] = <<>>
    <3>1. f[0] = PostfixAt(nodes, f, 0)
      BY <2>1
    <3> QED
      BY <3>1 DEF PostfixAt
  <2>3. ASSUME NEW n \in 1 .. Len(nodes)
        PROVE  f[n] = f[nodes[n].left] \o f[nodes[n].right] \o <<n>>
    <3>1. f[n] = PostfixAt(nodes, f, n) /\ n # 0
      BY <2>1
    <3> QED
      BY <3>1 DEF PostfixAt
  <2> QED
    BY <2>2, <2>3
<1>3. Posted(nodes, Len(nodes), post)
  BY PostfixExists
<1> HIDE DEF post
<1> QED
  BY <1>1, <1>2, <1>3

LEMMA SeqIn ==
  ASSUME NEW S, NEW s, IsSeq(s), \A j \in 1 .. Len(s) : s[j] \in S
  PROVE  s \in Seq(S)
<1>1. Len(s) \in Nat /\ s \in [1 .. Len(s) -> ToSet(s)]
  BY DEF IsSeq
<1>2. s \in [1 .. Len(s) -> S]
  BY <1>1
<1> QED
  BY <1>1, <1>2

\* The postfix form of a tree is a sequence of nodes.
LEMMA PostfixIn ==
  ASSUME NEW nodes, Len(nodes) \in Nat, Ordered(nodes, Len(nodes))
  PROVE  \A n \in 0 .. Len(nodes) :
           IsSeq(Postfix(nodes, n)) /\ \A j \in 1 .. Len(Postfix(nodes, n)) : Postfix(nodes, n)[j] \in 1 .. Len(nodes)
<1> DEFINE P(n) == Postfix(nodes, n)
           Good(n) == IsSeq(P(n)) /\ \A j \in 1 .. Len(P(n)) : P(n)[j] \in 1 .. Len(nodes)
           S == {m \in Nat : \A n \in 0 .. m : n <= Len(nodes) => Good(n)}
<1>1. /\ P(0) = <<>>
      /\ \A n \in 1 .. Len(nodes) : P(n) = P(nodes[n].left) \o P(nodes[n].right) \o <<n>>
  BY PostfixIs
<1> HIDE DEF P
<1>2. Good(0)
  BY <1>1, NoSeq
<1>3. ASSUME NEW n \in 1 .. Len(nodes), \A m \in 0 .. n - 1 : Good(m) PROVE Good(n)
  <2> DEFINE A == P(nodes[n].left)
             B == P(nodes[n].right)
             C == <<n>>
  <2>1. nodes[n].left \in 0 .. n - 1 /\ nodes[n].right \in 0 .. n - 1
    BY DEF Ordered
  <2>2. /\ IsSeq(A) /\ \A j \in 1 .. Len(A) : A[j] \in 1 .. Len(nodes)
        /\ IsSeq(B) /\ \A j \in 1 .. Len(B) : B[j] \in 1 .. Len(nodes)
    BY <1>3, <2>1
  <2>3. P(n) = A \o B \o C
    BY <1>1
  <2>4. C \in Seq(1 .. Len(nodes))
    OBVIOUS
  <2> HIDE DEF A, B, C
  <2>5. A \in Seq(1 .. Len(nodes)) /\ B \in Seq(1 .. Len(nodes))
    <3> DEFINE N == 1 .. Len(nodes)
    <3>1. /\ IsSeq(A) /\ \A j \in 1 .. Len(A) : A[j] \in N
          /\ IsSeq(B) /\ \A j \in 1 .. Len(B) : B[j] \in N
      BY <2>2
    <3> HIDE DEF N
    <3>2. A \in Seq(N) /\ B \in Seq(N)
      BY <3>1, SeqIn
    <3> QED
      BY <3>2 DEF N
  <2>6. P(n) \in Seq(1 .. Len(nodes))
    BY <2>3, <2>4, <2>5
  <2> QED
    BY <2>6, SeqHere
<1>4. 0 \in S
  <2> HIDE DEF Good
  <2> QED
    BY <1>2
<1>5. ASSUME NEW m \in Nat, m \in S PROVE m + 1 \in S
  <2> HIDE DEF Good
  <2> QED
    BY <1>3, <1>5
<1>6. Nat \subseteq S
  <2> HIDE DEF S
  <2> QED
    BY <1>4, <1>5, NatInduct
<1>7. \A n \in 0 .. Len(nodes) : Good(n)
  <2> HIDE DEF Good
  <2> QED
    BY <1>6
<1> QED
  BY <1>7 DEF P

\* New nodes behind the others leave the trees of those.
LEMMA PostfixKept ==
  ASSUME NEW h, Len(h) \in Nat, Ordered(h, Len(h)), NEW g, Len(g) \in Nat, Ordered(g, Len(g)), Len(h) <= Len(g),
         \A n \in 1 .. Len(h) : g[n].left = h[n].left /\ g[n].right = h[n].right
  PROVE  \A n \in 0 .. Len(h) : Postfix(g, n) = Postfix(h, n)
<1> DEFINE Good(n) == Postfix(g, n) = Postfix(h, n)
           S == {m \in Nat : \A n \in 0 .. m : n <= Len(h) => Good(n)}
<1>1. Good(0)
  BY PostfixIs
<1>2. ASSUME NEW n \in 1 .. Len(h), \A m \in 0 .. n - 1 : Good(m) PROVE Good(n)
  <2>1. h[n].left \in 0 .. n - 1 /\ h[n].right \in 0 .. n - 1
    BY DEF Ordered
  <2>2. n \in 1 .. Len(g) /\ g[n].left = h[n].left /\ g[n].right = h[n].right
    OBVIOUS
  <2>3. Postfix(g, h[n].left) = Postfix(h, h[n].left) /\ Postfix(g, h[n].right) = Postfix(h, h[n].right)
    BY <1>2, <2>1
  <2>4. Postfix(h, n) = Postfix(h, h[n].left) \o Postfix(h, h[n].right) \o <<n>>
    BY PostfixIs
  <2>5. Postfix(g, n) = Postfix(g, g[n].left) \o Postfix(g, g[n].right) \o <<n>>
    BY <2>2, PostfixIs
  <2> QED
    BY <2>2, <2>3, <2>4, <2>5
<1>3. 0 \in S
  <2> HIDE DEF Good
  <2> QED
    BY <1>1
<1>4. ASSUME NEW m \in Nat, m \in S PROVE m + 1 \in S
  <2> HIDE DEF Good
  <2> QED
    BY <1>2, <1>4
<1>5. Nat \subseteq S
  <2> HIDE DEF S
  <2> QED
    BY <1>3, <1>4, NatInduct
<1>6. \A n \in 0 .. Len(h) : Good(n)
  <2> HIDE DEF Good
  <2> QED
    BY <1>5, SMTT(20)
<1> QED
  BY <1>6

\* The tree under n, among the nodes h, stands for the items of a condition from a + 1 to b.
Matches(h, n, where, a, b) ==
  /\ n \in 0 .. Len(h)
  /\ Len(Postfix(h, n)) = b - a
  /\ \A j \in 1 .. b - a : Stands(h[Postfix(h, n)[j]], where[a + j])

LEMMA MatchesNone ==
  ASSUME NEW h, Len(h) \in Nat, Ordered(h, Len(h)), NEW where, NEW a \in Nat
  PROVE  Matches(h, 0, where, a, a)
<1>1. Postfix(h, 0) = <<>> /\ Len(<<>>) = 0 /\ a - a = 0
  BY PostfixIs
<1>2. 1 .. 0 = {}
  OBVIOUS
<1> QED
  BY <1>1, <1>2 DEF Matches

\* New nodes, and new columns and literals in the old ones, leave what a tree stands for.
LEMMA MatchesKept ==
  ASSUME NEW h, Len(h) \in Nat, Ordered(h, Len(h)), NEW g, Len(g) \in Nat, Ordered(g, Len(g)), Len(h) <= Len(g),
         \A n \in 1 .. Len(h) : /\ g[n].left = h[n].left /\ g[n].right = h[n].right
                                /\ g[n].op = h[n].op /\ g[n].name = h[n].name,
         NEW n, NEW where, NEW a, NEW b, Matches(h, n, where, a, b)
  PROVE  Matches(g, n, where, a, b)
<1> DEFINE P == Postfix(h, n)
<1>1. n \in 0 .. Len(h) /\ Len(P) = b - a /\ \A j \in 1 .. b - a : Stands(h[P[j]], where[a + j])
  BY DEF Matches
<1>2. Postfix(g, n) = P
  BY <1>1, PostfixKept
<1>3. \A j \in 1 .. Len(P) : P[j] \in 1 .. Len(h)
  BY <1>1, PostfixIn
<1> HIDE DEF P
<1>4. ASSUME NEW j \in 1 .. b - a PROVE Stands(g[P[j]], where[a + j])
  <2>1. Stands(h[P[j]], where[a + j]) /\ P[j] \in 1 .. Len(h)
    BY <1>1, <1>3
  <2> QED
    BY <2>1 DEF Stands
<1>5. n \in 0 .. Len(g)
  BY <1>1
<1> QED
  BY <1>1, <1>2, <1>4, <1>5 DEF Matches

\* A node stands for the item behind those that its children stand for.
LEMMA MatchesJoin ==
  ASSUME NEW g, Len(g) \in Nat, Ordered(g, Len(g)), NEW n \in 1 .. Len(g), NEW where,
         NEW a \in Nat, NEW b \in Nat, NEW c \in Nat, a <= b, b <= c,
         Matches(g, g[n].left, where, a, b), Matches(g, g[n].right, where, b, c), Stands(g[n], where[c + 1])
  PROVE  Matches(g, n, where, a, c + 1)
<1> DEFINE L == Postfix(g, g[n].left)
           R == Postfix(g, g[n].right)
           U == L \o R
           E == <<n>>
           P == U \o E
<1>1. Postfix(g, n) = P
  BY PostfixIs
<1>2. /\ IsSeq(L) /\ Len(L) = b - a /\ \A j \in 1 .. b - a : Stands(g[L[j]], where[a + j])
      /\ IsSeq(R) /\ Len(R) = c - b /\ \A j \in 1 .. c - b : Stands(g[R[j]], where[b + j])
  BY PostfixIn DEF Matches
<1>3. IsSeq(E) /\ Len(E) = 1 /\ E[1] = n
  BY OneSeq
<1> HIDE DEF L, R, E
<1>4. /\ IsSeq(U) /\ Len(U) = Len(L) + Len(R)
      /\ \A i \in 1 .. Len(L) : U[i] = L[i]
      /\ \A i \in 1 .. Len(R) : U[Len(L) + i] = R[i]
  <2>1. IsSeq(L) /\ IsSeq(R)
    BY <1>2
  <2> QED
    BY <2>1, JoinSeq
<1> HIDE DEF U
<1>5. /\ IsSeq(P) /\ Len(P) = Len(U) + Len(E)
      /\ \A i \in 1 .. Len(U) : P[i] = U[i]
      /\ \A i \in 1 .. Len(E) : P[Len(U) + i] = E[i]
  <2>1. IsSeq(U) /\ IsSeq(E)
    BY <1>3, <1>4
  <2> QED
    BY <2>1, JoinSeq
<1> HIDE DEF P
<1>6. /\ Len(P) = (c + 1) - a /\ Len(U) = c - a
      /\ \A i \in 1 .. b - a : P[i] = L[i]
      /\ \A i \in 1 .. c - b : P[(b - a) + i] = R[i]
      /\ P[(c - a) + 1] = n
  <2>1. Len(U) = c - a /\ Len(P) = (c + 1) - a
    BY <1>2, <1>3, <1>4, <1>5
  <2>2. \A i \in 1 .. b - a : i \in 1 .. Len(L) /\ i \in 1 .. Len(U)
    BY <1>2, <2>1
  <2>3. \A i \in 1 .. c - b : i \in 1 .. Len(R) /\ (b - a) + i \in 1 .. Len(U)
    BY <1>2, <2>1
  <2>4. \A i \in 1 .. b - a : P[i] = L[i]
    BY <1>4, <1>5, <2>2
  <2>5. \A i \in 1 .. c - b : P[(b - a) + i] = R[i]
    BY <1>2, <1>4, <1>5, <2>3
  <2>6. P[(c - a) + 1] = n
    BY <1>3, <1>5, <2>1
  <2> QED
    BY <2>1, <2>4, <2>5, <2>6
<1>7. ASSUME NEW j \in 1 .. (c + 1) - a PROVE Stands(g[P[j]], where[a + j])
  <2>1. CASE j <= b - a
    <3>1. j \in 1 .. b - a
      BY <2>1
    <3> QED
      BY <1>2, <1>6, <3>1
  <2>2. CASE b - a < j /\ j <= c - a
    <3> DEFINE k == j - (b - a)
    <3>1. k \in 1 .. c - b /\ j = (b - a) + k /\ b + k = a + j
      BY <2>2
    <3> HIDE DEF k
    <3>2. P[(b - a) + k] = R[k] /\ Stands(g[R[k]], where[b + k])
      BY <1>2, <1>6, <3>1
    <3> QED
      BY <3>1, <3>2
  <2>3. CASE c - a < j
    <3>1. j = (c - a) + 1 /\ a + j = c + 1
      BY <2>3
    <3> QED
      BY <1>6, <3>1
  <2> QED
    BY <2>1, <2>2, <2>3
<1>8. n \in 0 .. Len(g)
  OBVIOUS
<1> QED
  BY <1>1, <1>6, <1>7, <1>8 DEF Matches

\* Where the stack stands behind i items of a condition, when every comparison but the
\* first is a right operand: one tree stands for them all, but that a comparison just read
\* waits above the tree for the items before it.  The newest node is the first of the stack.
Waits(where, i) == i > 1 /\ where[i].k \notin Operators
Shape(h, s, tree, where, i) ==
  /\ IsSeq(s)
  /\ i = 0 => s = <<>> /\ tree = 0
  /\ i > 0 => tree = s[1]
  /\ i > 0 /\ ~Waits(where, i) => Len(s) = 1 /\ Matches(h, s[1], where, 0, i)
  /\ Waits(where, i) => Len(s) = 2 /\ Matches(h, s[1], where, i - 1, i) /\ Matches(h, s[2], where, 0, i - 1)

\* What a new node is put over.
LEMMA Operands ==
  ASSUME NEW h, NEW s, NEW tree, NEW where, Straight(where), Len(where) \in Nat, NEW i \in Nat,
         i + 1 \in 1 .. Len(where), Shape(h, s, tree, where, i)
  PROVE  /\ where[i + 1].k \notin {"and", "or"} => (i = 0 /\ s = <<>>) \/ (i >= 1 /\ Len(s) = 1 /\ Matches(h, s[1], where, 0, i))
         /\ Len(s) >= 2 => /\ i - 1 \in Nat /\ Len(s) = 2
                           /\ Matches(h, s[1], where, i - 1, i) /\ Matches(h, s[2], where, 0, i - 1)
<1>1. CASE Waits(where, i)
  <2>1. i \in 2 .. Len(where) /\ where[i].k \notin Operators
    BY <1>1 DEF Waits
  <2>2. where[i + 1].k \in {"and", "or"}
    BY <2>1 DEF Straight
  <2>3. i - 1 \in Nat
    BY <2>1
  <2> QED
    BY <1>1, <2>2, <2>3 DEF Shape
<1>2. CASE ~Waits(where, i)
  <2>1. CASE i = 0
    <3>1. s = <<>> /\ Len(<<>>) = 0
      BY <2>1, NoSeq DEF Shape
    <3> QED
      BY <2>1, <3>1
  <2>2. CASE i # 0
    <3>1. i > 0 /\ i >= 1
      BY <2>2
    <3>2. Len(s) = 1 /\ Matches(h, s[1], where, 0, i)
      BY <1>2, <3>1 DEF Shape
    <3> QED
      BY <3>1, <3>2
  <2> QED
    BY <2>1, <2>2
<1> QED
  BY <1>1, <1>2

\* The nodes g are the nodes h and one more, and trees both.
Grows(h, d, node, g) == Forest(h, d) /\ Forest(g, d) /\ g = Append(h, node)
LEMMA Grown ==
  ASSUME NEW h, NEW d, NEW node, NEW g, Grows(h, d, node, g)
  PROVE  /\ Len(h) \in Nat /\ Ordered(h, Len(h)) /\ Len(g) \in Nat /\ Ordered(g, Len(g))
         /\ Len(g) = Len(h) + 1 /\ g[Len(g)] = node /\ Len(g) \in 1 .. Len(g)
         /\ \A n, where, a, b : Matches(h, n, where, a, b) => Matches(g, n, where, a, b)
<1> DEFINE m == Len(h)
           k == Len(g)
<1>1. m \in Nat /\ k \in Nat /\ Ordered(h, m) /\ Ordered(g, k)
  BY SeqFacts DEF Grows, Forest
<1>2. /\ k = m + 1 /\ g[m + 1] = node
      /\ \A n \in 1 .. m : g[n] = h[n]
  BY AppendSeq DEF Grows, Forest
<1>3. m <= k /\ k \in 1 .. k /\ g[k] = node
  <2> HIDE DEF m, k
  <2> QED
    BY <1>1, <1>2
<1>4. \A n \in 1 .. m : /\ g[n].left = h[n].left /\ g[n].right = h[n].right
                        /\ g[n].op = h[n].op /\ g[n].name = h[n].name
  BY <1>2
<1>5. ASSUME NEW n, NEW where, NEW a, NEW b, Matches(h, n, where, a, b) PROVE Matches(g, n, where, a, b)
  <2>1. Len(h) <= Len(g)
    BY <1>3
  <2> QED
    BY <1>1, <1>4, <1>5, <2>1, MatchesKept
<1> QED
  BY <1>1, <1>2, <1>3, <1>5

\* A comparison waits above the tree of the items before it.
LEMMA LeafShape ==
  ASSUME NEW h, NEW d, NEW node, NEW g, Grows(h, d, node, g),
         NEW s, NEW tree, NEW where, Straight(where), Len(where) \in Nat, NEW i \in Nat,
         i + 1 \in 1 .. Len(where), Shape(h, s, tree, where, i), where[i + 1].k \notin Operators,
         Stands(node, where[i + 1]), node.left = 0, node.right = 0
  PROVE  Shape(g, <<Len(g)>> \o s, Len(g), where, i + 1)
<1> DEFINE k == Len(g)
           u == <<k>> \o s
<1>1. /\ Ordered(g, Len(g)) /\ k \in Nat /\ g[k] = node /\ k \in 1 .. k
      /\ \A n, a, b : Matches(h, n, where, a, b) => Matches(g, n, where, a, b)
  <2>1. /\ Len(g) \in Nat /\ Ordered(g, Len(g)) /\ g[Len(g)] = node /\ Len(g) \in 1 .. Len(g)
        /\ \A n, x, a, b : Matches(h, n, x, a, b) => Matches(g, n, x, a, b)
    BY Grown
  <2> QED
    BY <2>1
<1>2. (i = 0 /\ s = <<>>) \/ (i >= 1 /\ Len(s) = 1 /\ Matches(h, s[1], where, 0, i))
  <2>1. where[i + 1].k \notin {"and", "or"}
    BY DEF Operators
  <2> QED
    BY <2>1, Operands
<1>3. Matches(g, k, where, i, i + 1)
  <2>1. Matches(g, g[k].left, where, i, i) /\ Matches(g, g[k].right, where, i, i)
    BY <1>1, MatchesNone
  <2>2. i <= i /\ Stands(g[k], where[i + 1])
    BY <1>1
  <2>3. Len(g) \in Nat /\ k \in 1 .. Len(g)
    BY <1>1
  <2> HIDE DEF k
  <2> QED
    BY <1>1, <2>1, <2>2, <2>3, MatchesJoin
<1>4. IsSeq(u) /\ Len(u) = Len(s) + 1 /\ u[1] = k /\ \A j \in 1 .. Len(s) : u[j + 1] = s[j]
  BY PushSeq DEF Shape
<1> HIDE DEF u, k
<1>5. CASE i = 0 /\ s = <<>>
  <2>1. ~Waits(where, i + 1) /\ i + 1 > 0 /\ i + 1 # 0
    BY <1>5 DEF Waits
  <2>2. Len(u) = 1
    BY <1>4, <1>5, NoSeq
  <2>3. Matches(g, u[1], where, 0, i + 1)
    BY <1>3, <1>4, <1>5
  <2> QED
    BY <1>4, <2>1, <2>2, <2>3 DEF Shape, u, k
<1>6. CASE i >= 1 /\ Len(s) = 1 /\ Matches(h, s[1], where, 0, i)
  <2>1. Waits(where, i + 1) /\ i + 1 > 0 /\ i + 1 # 0 /\ (i + 1) - 1 = i
    BY <1>6 DEF Waits
  <2>2. Len(u) = 2 /\ u[2] = s[1]
    BY <1>4, <1>6
  <2>3. Matches(g, u[1], where, i, i + 1) /\ Matches(g, u[2], where, 0, i)
    BY <1>1, <1>3, <1>4, <1>6, <2>2
  <2> QED
    BY <1>4, <2>1, <2>2, <2>3 DEF Shape, u, k
<1> QED
  BY <1>2, <1>5, <1>6

\* A node over all that is on the stack stands for all the items read.
LEMMA WholeShape ==
  ASSUME NEW g, NEW n, NEW s, IsSeq(s), Len(s) = 0, NEW where, NEW i \in Nat, where[i + 1].k \in Operators,
         Matches(g, n, where, 0, i + 1)
  PROVE  Shape(g, <<n>> \o s, n, where, i + 1)
<1> DEFINE u == <<n>> \o s
<1>1. IsSeq(u) /\ Len(u) = 1 /\ u[1] = n
  <2>1. IsSeq(u) /\ Len(u) = Len(s) + 1 /\ u[1] = n
    BY PushSeq
  <2> HIDE DEF u
  <2> QED
    BY <2>1
<1>2. ~Waits(where, i + 1) /\ i + 1 > 0 /\ i + 1 # 0
  BY DEF Waits
<1> HIDE DEF u
<1>3. Shape(g, u, n, where, i + 1)
  BY <1>1, <1>2 DEF Shape
<1> QED
  BY <1>3 DEF u

LEMMA NotShape ==
  ASSUME NEW h, NEW d, NEW node, NEW g, Grows(h, d, node, g),
         NEW s, s # <<>>, NEW tree, NEW where, Straight(where), Len(where) \in Nat, NEW i \in Nat,
         i + 1 \in 1 .. Len(where), Shape(h, s, tree, where, i), where[i + 1].k = "not",
         Stands(node, where[i + 1]), node.left = Last(s), node.right = 0
  PROVE  Shape(g, <<Len(g)>> \o Front(s), Len(g), where, i + 1)
<1> DEFINE k == Len(g)
<1>1. /\ Ordered(g, Len(g)) /\ k \in Nat /\ g[k] = node /\ k \in 1 .. k
      /\ \A n, a, b : Matches(h, n, where, a, b) => Matches(g, n, where, a, b)
  <2>1. /\ Len(g) \in Nat /\ Ordered(g, Len(g)) /\ g[Len(g)] = node /\ Len(g) \in 1 .. Len(g)
        /\ \A n, x, a, b : Matches(h, n, x, a, b) => Matches(g, n, x, a, b)
    BY Grown
  <2> QED
    BY <2>1
<1>2. i >= 1 /\ Len(s) = 1 /\ Matches(h, s[1], where, 0, i)
  BY Operands
<1>3. node.left = s[1] /\ IsSeq(Front(s)) /\ Len(Front(s)) = 0
  <2>1. IsSeq(Front(s)) /\ Len(Front(s)) = Len(s) - 1
    BY FrontSeq DEF Shape
  <2> QED
    BY <1>2, <2>1 DEF Last
<1>4. Matches(g, g[k].left, where, 0, i) /\ Matches(g, g[k].right, where, i, i)
  BY <1>1, <1>2, <1>3, MatchesNone
<1>5. Matches(g, k, where, 0, i + 1)
  <2>1. 0 \in Nat /\ 0 <= i /\ i <= i /\ Stands(g[k], where[i + 1])
    BY <1>1
  <2> HIDE DEF k
  <2>2. Len(g) \in Nat /\ k \in 1 .. Len(g)
    BY <1>1 DEF k
  <2> QED
    BY <1>1, <1>4, <2>1, <2>2, MatchesJoin
<1>6. where[i + 1].k \in Operators
  BY DEF Operators
<1> QED
  BY <1>3, <1>5, <1>6, WholeShape

LEMMA BinaryShape ==
  ASSUME NEW h, NEW d, NEW node, NEW g, Grows(h, d, node, g),
         NEW s, Len(s) >= 2, NEW tree, NEW where, Straight(where), Len(where) \in Nat, NEW i \in Nat,
         i + 1 \in 1 .. Len(where), Shape(h, s, tree, where, i), where[i + 1].k \in {"and", "or"},
         Stands(node, where[i + 1]), node.left = Last(s), node.right = Last(Front(s))
  PROVE  Shape(g, <<Len(g)>> \o Front(Front(s)), Len(g), where, i + 1)
<1> DEFINE k == Len(g)
           f == Front(s)
<1>1. /\ Ordered(g, Len(g)) /\ k \in Nat /\ g[k] = node /\ k \in 1 .. k
      /\ \A n, a, b : Matches(h, n, where, a, b) => Matches(g, n, where, a, b)
  <2>1. /\ Len(g) \in Nat /\ Ordered(g, Len(g)) /\ g[Len(g)] = node /\ Len(g) \in 1 .. Len(g)
        /\ \A n, x, a, b : Matches(h, n, x, a, b) => Matches(g, n, x, a, b)
    BY Grown
  <2> QED
    BY <2>1
<1>2. /\ i - 1 \in Nat /\ Len(s) = 2
      /\ Matches(h, s[1], where, i - 1, i) /\ Matches(h, s[2], where, 0, i - 1)
  BY Operands
<1>3. node.left = s[2] /\ node.right = s[1] /\ IsSeq(Front(f)) /\ Len(Front(f)) = 0
  <2>1. IsSeq(s) /\ s # <<>>
    <3>1. IsSeq(s) /\ Len(s) # 0
      BY <1>2 DEF Shape
    <3> QED
      BY <3>1, NonEmpty, Zenon
  <2>2. IsSeq(f) /\ Len(f) = 1 /\ f[1] = s[1]
    <3>1. /\ IsSeq(f) /\ Len(f) = Len(s) - 1
          /\ \A j \in 1 .. Len(s) - 1 : f[j] = s[j]
      BY <2>1, FrontSeq
    <3> HIDE DEF f
    <3> QED
      BY <1>2, <3>1
  <2> HIDE DEF f
  <2>3. f # <<>>
    <3>1. IsSeq(f) /\ Len(f) # 0
      BY <2>2
    <3> QED
      BY <3>1, NonEmpty, Zenon
  <2>4. IsSeq(Front(f)) /\ Len(Front(f)) = 0
    <3>1. IsSeq(Front(f)) /\ Len(Front(f)) = Len(f) - 1
      BY <2>2, <2>3, FrontSeq
    <3> QED
      BY <2>2, <3>1
  <2> QED
    BY <1>2, <2>2, <2>4 DEF Last, f
<1>4. Matches(g, g[k].left, where, 0, i - 1) /\ Matches(g, g[k].right, where, i - 1, i)
  BY <1>1, <1>2, <1>3
<1>5. Matches(g, k, where, 0, i + 1)
  <2> DEFINE b == i - 1
  <2>1. 0 \in Nat /\ b \in Nat /\ 0 <= b /\ b <= i /\ Stands(g[k], where[i + 1])
    BY <1>1, <1>2
  <2>2. Len(g) \in Nat /\ k \in 1 .. Len(g)
    BY <1>1
  <2>3. Matches(g, g[k].left, where, 0, b) /\ Matches(g, g[k].right, where, b, i)
    BY <1>4
  <2> HIDE DEF k, b
  <2> QED
    BY <1>1, <2>1, <2>2, <2>3, MatchesJoin
<1>6. where[i + 1].k \in Operators
  BY DEF Operators
<1> HIDE DEF f
<1>7. Shape(g, <<k>> \o Front(f), k, where, i + 1)
  <2> HIDE DEF k
  <2> QED
    BY <1>3, <1>5, <1>6, WholeShape
<1> QED
  BY <1>7 DEF f

\* The reduction of an item takes the stack one step further.
LEMMA ItemShape ==
  ASSUME TreesInv, TreesInv', NoError(q'), CurInv, ~q.cur,
         stmt.kind = "select", IsStatement(stmt), Straight(stmt.where), Len(stmt.where) \in Nat,
         NEW i \in Nat, i + 1 \in 1 .. Len(stmt.where), Shape(heap, q.stack, q.tree, stmt.where, i),
         Head(todo) = Reduction(stmt.where[i + 1]),
         \/ mdb_sql_add_sarg \/ mdb_sql_eval_expr \/ mdb_sql_strptime \/ mdb_sql_add_not
         \/ AddBinary("and", "AND") \/ AddBinary("or", "OR")
  PROVE  Shape(heap', q'.stack, q'.tree, stmt.where, i + 1)
<1> DEFINE c == stmt.where[i + 1]
           g == Head(todo)
           k == Len(heap')
           S == q.stack
<1>1. /\ g.rule \in {"not", "and", "or", "strptime"} => c.k = g.rule
      /\ g.rule = "const" => c.k = "const"
      /\ g.rule = "sarg" => c.k \in {"cmp", "flip", "null"} /\ g.col = c.col /\ g.op = OpOf(c)
  <2> DEFINE j == i + 1
  <2>1. j \in 1 .. Len(stmt.where) /\ g = Reduction(stmt.where[j])
    OBVIOUS
  <2> HIDE DEF j
  <2>2. /\ g.rule \in {"not", "and", "or", "strptime"} => stmt.where[j].k = g.rule
        /\ g.rule = "const" => stmt.where[j].k = "const"
        /\ g.rule = "sarg" => /\ stmt.where[j].k \in {"cmp", "flip", "null"}
                              /\ g.col = stmt.where[j].col /\ g.op = OpOf(stmt.where[j])
    BY <2>1, ReductionOf
  <2> QED
    BY <2>2 DEF j
<1>2. /\ DOMAIN q = Fields /\ IsSeq(S) /\ \A n \in 1 .. Len(S) : S[n] # 0
      /\ Forest(heap, dead) /\ Forest(heap', dead')
  BY DEF CurInv, TreesInv, Roots, Root
<1>3. ASSUME NEW node, AddNode(node) PROVE Grows(heap, dead, node, heap')
  BY <1>2, <1>3 DEF AddNode, Grows
<1>4. ASSUME NEW e, e # "", ResetWith(e) PROVE FALSE
  BY <1>4, ResetWithIs DEF NoError
<1>5. ASSUME NEW node, AddNode(node), q' = mdb_sql_push_node(q, Len(heap')), node.left = 0, node.right = 0,
             Stands(node, c), c.k \notin Operators
      PROVE  Shape(heap', q'.stack, q'.tree, stmt.where, i + 1)
  <2>1. q'.stack = <<k>> \o S /\ q'.tree = k
    BY <1>2, <1>5, PushIs
  <2>2. Grows(heap, dead, node, heap')
    BY <1>3, <1>5
  <2>3. Shape(heap', <<k>> \o S, k, stmt.where, i + 1)
    BY <1>5, <2>2, LeafShape
  <2> QED
    BY <2>1, <2>3
<1> HIDE DEF c, g
<1>6. CASE mdb_sql_add_sarg
  <2> DEFINE node == [NoNode EXCEPT !.op = g.op, !.name = g.col, !.lit = g.lit]
  <2>1. g.rule = "sarg" /\ AddNode(node) /\ q' = mdb_sql_push_node(q, Len(heap'))
    BY <1>6 DEF mdb_sql_add_sarg, Reducing, g
  <2>2. node.left = 0 /\ node.right = 0 /\ node.op = g.op /\ node.name = g.col
    BY DEF NoNode
  <2> HIDE DEF node
  <2>3. c.k \in {"cmp", "flip", "null"} /\ g.col = c.col /\ g.op = OpOf(c)
    BY <1>1, <2>1
  <2>4. Stands(node, c) /\ c.k \notin Operators
    BY <2>2, <2>3 DEF Stands, Operators
  <2> QED
    BY <1>5, <2>1, <2>2, <2>4
<1>7. CASE mdb_sql_eval_expr
  <2>1. g.rule = "const"
    BY <1>7 DEF mdb_sql_eval_expr, Reducing, g
  <2>2. \/ ResetWith("literals")
        \/ \E h : /\ AddNode([NoNode EXCEPT !.op = "EQUAL", !.lit.v = IF h THEN 2 ELSE 0])
                  /\ q' = mdb_sql_push_node(q, Len(heap'))
    BY <1>7 DEF mdb_sql_eval_expr
  <2>3. ASSUME NEW h, AddNode([NoNode EXCEPT !.op = "EQUAL", !.lit.v = IF h THEN 2 ELSE 0]),
               q' = mdb_sql_push_node(q, Len(heap'))
        PROVE  Shape(heap', q'.stack, q'.tree, stmt.where, i + 1)
    <3> DEFINE node == [NoNode EXCEPT !.op = "EQUAL", !.lit.v = IF h THEN 2 ELSE 0]
    <3>1. node.left = 0 /\ node.right = 0 /\ node.op = "EQUAL" /\ node.name = NoCol
      BY DEF NoNode
    <3>2. AddNode(node)
      BY <2>3
    <3> HIDE DEF node
    <3>3. c.k = "const"
      BY <1>1, <2>1
    <3>4. Stands(node, c) /\ c.k \notin Operators
      BY <3>1, <3>3 DEF Stands, Operators
    <3> QED
      BY <1>5, <2>3, <3>1, <3>2, <3>4
  <2> QED
    BY <1>4, <2>2, <2>3
<1>8. CASE mdb_sql_strptime
  BY <1>4, <1>8 DEF mdb_sql_strptime
<1>9. CASE mdb_sql_add_not
  <2>1. g.rule = "not" /\ c.k = "not"
    BY <1>1, <1>9 DEF mdb_sql_add_not, Reducing, g
  <2>2. S # <<>>
    BY <1>4, <1>9 DEF mdb_sql_add_not
  <2> DEFINE node == [NoNode EXCEPT !.op = "NOT", !.left = Top(q)]
  <2>3. node.op = "NOT" /\ node.left = Last(S) /\ node.right = 0
    BY DEF NoNode, Top
  <2>4. AddNode(node) /\ q' = mdb_sql_push_node(mdb_sql_pop_node(q), Len(heap'))
    BY <1>9, <2>2 DEF mdb_sql_add_not
  <2> HIDE DEF node
  <2>5. q'.stack = <<k>> \o Front(S) /\ q'.tree = k
    BY <1>2, <2>4, PushIs, PopIs, SMTT(20)
  <2>6. Last(S) # 0
    <3>1. Len(S) \in 1 .. Len(S)
      BY <1>2, <2>2, TailSeq, SeqFacts
    <3> QED
      BY <1>2, <3>1 DEF Last
  <2>7. Stands(node, c)
    BY <2>1, <2>3, <2>6 DEF Stands
  <2>8. Grows(heap, dead, node, heap')
    BY <1>3, <2>4
  <2>9. Shape(heap', <<k>> \o Front(S), k, stmt.where, i + 1)
    BY <2>1, <2>2, <2>3, <2>7, <2>8, NotShape DEF c
  <2> QED
    BY <2>5, <2>9
<1>10. ASSUME NEW name \in {"and", "or"}, NEW oper, AddBinary(name, oper), oper = IF name = "and" THEN "AND" ELSE "OR"
       PROVE  Shape(heap', q'.stack, q'.tree, stmt.where, i + 1)
  <2>1. c.k = name
    BY <1>1, <1>10 DEF AddBinary, Reducing, g
  <2>2. ~(Len(S) < 2)
    BY <1>4, <1>10 DEF AddBinary
  <2>3. Len(S) >= 2 /\ Len(S) \in Nat /\ Len(S) \in 1 .. Len(S) /\ Len(S) - 1 \in 1 .. Len(S)
    BY <1>2, <2>2, SeqFacts
  <2> DEFINE one == mdb_sql_pop_node(q)
             node == [NoNode EXCEPT !.op = oper, !.left = Top(q), !.right = Top(one)]
  <2>4. DOMAIN one = Fields /\ one.stack = Front(S)
    BY <1>2, PopIs
  <2>5. AddNode(node) /\ q' = mdb_sql_push_node(mdb_sql_pop_node(one), Len(heap'))
    BY <1>10, <2>2 DEF AddBinary
  <2> HIDE DEF one
  <2>6. node.op = oper /\ node.left = Last(S) /\ node.right = Last(Front(S))
    BY <2>4 DEF NoNode, Top
  <2> HIDE DEF node
  <2>7. q'.stack = <<k>> \o Front(Front(S)) /\ q'.tree = k
    <3> DEFINE two == mdb_sql_pop_node(one)
    <3>1. DOMAIN two = Fields /\ two.stack = Front(Front(S))
      BY <2>4, PopIs
    <3>2. q' = mdb_sql_push_node(two, k)
      BY <2>5
    <3> HIDE DEF two, k, S
    <3> QED
      BY <3>1, <3>2, PushIs
  <2>8. Last(S) # 0 /\ Last(Front(S)) # 0
    <3>1. S # <<>>
      BY <1>2, <2>3, NonEmpty
    <3>2. Len(Front(S)) = Len(S) - 1 /\ \A n \in 1 .. Len(S) - 1 : Front(S)[n] = S[n]
      BY <1>2, <3>1, FrontSeq
    <3>3. Front(S)[Len(S) - 1] = S[Len(S) - 1]
      BY <2>3, <3>2
    <3> QED
      BY <1>2, <2>3, <3>2, <3>3 DEF Last
  <2>9. Stands(node, c)
    BY <1>10, <2>1, <2>6, <2>8 DEF Stands
  <2>10. Grows(heap, dead, node, heap')
    BY <1>3, <2>5
  <2>11. stmt.where[i + 1].k \in {"and", "or"} /\ Stands(node, stmt.where[i + 1])
    BY <2>1, <2>9 DEF c
  <2>12. Shape(heap', <<k>> \o Front(Front(S)), k, stmt.where, i + 1)
    BY <2>3, <2>6, <2>10, <2>11, BinaryShape
  <2> QED
    BY <2>7, <2>12
<1>11. CASE AddBinary("and", "AND") \/ AddBinary("or", "OR")
  BY <1>10, <1>11
<1> QED
  BY <1>6, <1>7, <1>8, <1>9, <1>11

\* At the end of a select all items are read, and one tree stands for them.
LEMMA WholeTree ==
  ASSUME NEW s, IsStatement(s), s.kind = "select", Straight(s.where), NEW k \in Nat, NEW i, i = k + 1,
         NEW g, RuleIs(s, i, g), g.rule = "select", NEW h, NEW stack, NEW tree,
         Shape(h, stack, tree, s.where, Items(s, k)), tree # 0
  PROVE  Matches(h, tree, s.where, 0, Len(s.where))
<1> DEFINE B == TableEnd(s)
           W == WhereEnd(s)
           L == LimitEnd(s)
           m == Len(s.where)
<1>1. k = L
  BY PlaceOf
<1>2. /\ TopEnd(s) \in {0, 1} /\ B = ColumnEnd(s) + 1 /\ ColumnEnd(s) \in Nat
      /\ W = B + m /\ L \in {W, W + 1} /\ m \in Nat
  BY EndsAre
<1> HIDE DEF B, W, L, m
<1>3. Items(s, k) = m
  <2>1. Items(s, k) = IF k <= B THEN 0 ELSE IF k >= W THEN W - B ELSE k - B
    BY DEF Items, Part, B, W
  <2>2. B \in Nat /\ W \in Nat /\ k >= W /\ W - B = m /\ B <= W /\ (W = B <=> m = 0)
    BY <1>1, <1>2
  <2> QED
    BY <1>2, <2>1, <2>2
<1>4. ~Waits(s.where, m)
  <2> SUFFICES ASSUME m > 1, s.where[m].k \notin Operators PROVE FALSE
    BY DEF Waits
  <2>1. m \in 2 .. m /\ ~(m < m)
    BY <1>2
  <2> QED
    BY <2>1 DEF Straight, m
<1>5. Shape(h, stack, tree, s.where, m)
  BY <1>3
<1>6. m > 0
  BY <1>2, <1>5 DEF Shape
<1>7. tree = stack[1] /\ Matches(h, stack[1], s.where, 0, m)
  BY <1>4, <1>5, <1>6 DEF Shape
<1> QED
  BY <1>7 DEF m

\* The tree of an open query stands for the condition of its statement.
Shaped ==
  stmt.kind = "select" /\ Straight(stmt.where) /\ table.tree # 0
    => Matches(heap, table.tree, stmt.where, 0, Len(stmt.where))
ShapeInv ==
  /\ pc = "parse" /\ todo # <<>> /\ NoError(q) /\ stmt.kind = "select" /\ Straight(stmt.where)
       => Shape(heap, q.stack, q.tree, stmt.where, Items(stmt, Done))
  /\ pc \in {"parse", "opened"} /\ NoError(q) => Shaped
  /\ pc \in {"query", "fetch", "end"} => Shaped

\* Names of columns and new literals in the nodes leave what the tree stands for.
LEMMA SelectShapes ==
  ASSUME ParseInv, TreesInv, TreesInv', NoError(q), NoError(q'), stmt.kind = "select", Straight(stmt.where),
         IsStatement(stmt), CurInv, ~q.cur, table.tree = 0, Done \in Nat, RuleIs(stmt, Done + 1, Head(todo)),
         Shape(heap, q.stack, q.tree, stmt.where, Items(stmt, Done)), mdb_sql_select, table'.tree # 0
  PROVE  Matches(heap', table'.tree, stmt.where, 0, Len(stmt.where))
<1>1. ASSUME NEW e, e # "", ResetWith(e) PROVE FALSE
  BY <1>1, ResetWithIs DEF NoError
<1>2. ASSUME NEW cols, NEW rows, SetTemp(cols, rows) PROVE FALSE
  BY <1>2, SetTempIs DEF CurInv
<1>3. PICK t : Select(t)
  BY <1>1 DEF mdb_sql_select, KeepMemory
<1> DEFINE tree == mdb_sql_walk_tree(heap, q.tree, {})
<1> HIDE DEF tree
<1>4. heap' = Relabel(heap, tree, t) /\ table'.tree = q.tree
  <2>1. \/ \E cols, rows : SetTemp(cols, rows)
        \/ ResetWith("column")
        \/ heap' = Relabel(heap, tree, t) /\ table'.tree = q.tree
    BY <1>3, NoTableIs DEF Select, tree, TableFields, Relabel
  <2> QED
    BY <1>1, <1>2, <2>1
<1> DEFINE g == heap'
           n == q.tree
           m == Len(stmt.where)
<1>5. Matches(heap, n, stmt.where, 0, m)
  <2> DEFINE i == Done + 1
  <2>1. RuleIs(stmt, i, Head(todo)) /\ i = Done + 1 /\ Head(todo).rule = "select" /\ n # 0
    BY <1>4 DEF mdb_sql_select, Reducing
  <2> HIDE DEF i
  <2> QED
    BY <2>1, WholeTree
<1>6. /\ Forest(heap, dead) /\ Len(heap) \in Nat /\ Ordered(heap, Len(heap))
      /\ Len(g) \in Nat /\ Ordered(g, Len(g))
  BY SeqFacts DEF TreesInv, Forest
<1>7. g = Relabel(heap, tree, t)
  BY <1>4
<1> HIDE DEF g, n, m
<1>8. /\ Len(g) = Len(heap)
      /\ \A j \in 1 .. Len(heap) : /\ g[j].left = heap[j].left /\ g[j].right = heap[j].right
                                   /\ g[j].op = heap[j].op /\ g[j].name = heap[j].name
  BY <1>6, <1>7, Relabelled
<1>9. Matches(g, n, stmt.where, 0, m)
  <2>1. Len(heap) <= Len(g)
    BY <1>6, <1>8
  <2> QED
    BY <1>5, <1>6, <1>8, <2>1, MatchesKept
<1> QED
  BY <1>4, <1>9 DEF g, n, m

LEMMA ReduceKeepsShape ==
  ASSUME ParseInv, TreesInv, ShapeInv, Reduce
  PROVE  ShapeInv'
<1> DEFINE g == Head(todo)
           i == Done + 1
<1>1. pc = "parse" /\ todo # <<>> /\ todo' = Tail(todo) /\ UNCHANGED <<stmt, catalog, pc>> /\ pc' = "parse"
      /\ TodoInv /\ CurInv
  BY ReducesOne DEF Reducing, ParseInv
<1>2. Done' = i
  BY ReducesOne, ReducingKeepsTodo DEF ParseInv
<1>3. IsStatement(stmt) /\ Done \in Nat
  BY <1>1, Described, NextRule
<1>4. NoError(q') => NoError(q)
  BY ReduceKeepsError
<1>5. TreesInv'
  BY ReduceKeepsTrees
<1>6. ~q.cur /\ q.cur = FALSE /\ DOMAIN q = Fields /\ table = NoTable /\ table.tree = 0 /\ NoTable.tree = 0
  BY <1>1, NoTableIs DEF CurInv
<1>7. /\ g.rule \in Final \cup {"error"} => todo' = <<>>
      /\ g.rule # "error" => RuleIs(stmt, i, g)
  BY <1>1, LastIsFinal, NextRule
<1>8. ASSUME NoError(q'), stmt.kind = "select", Straight(stmt.where)
      PROVE  Shape(heap, q.stack, q.tree, stmt.where, Items(stmt, Done))
  BY <1>1, <1>4, <1>8 DEF ShapeInv
<1>9. \/ /\ \/ mdb_sql_add_sarg \/ mdb_sql_eval_expr \/ mdb_sql_strptime \/ mdb_sql_add_not
            \/ AddBinary("and", "AND") \/ AddBinary("or", "OR")
         /\ g.rule \in Conditional
      \/ /\ \/ mdb_sql_add_limit \/ mdb_sql_get_limit \/ mdb_sql_add_column \/ mdb_sql_all_columns
            \/ mdb_sql_sel_count \/ mdb_sql_add_table
         /\ g.rule \in {"top", "limit", "column", "*", "count", "table"}
      \/ (yyerrlab \/ mdb_sql_open \/ mdb_sql_close \/ mdb_sql_listtables \/ mdb_sql_describe_table)
         /\ g.rule \in {"error", "connect", "disconnect", "list", "describe"}
      \/ mdb_sql_select /\ g.rule = "select"
  BY DEF Reduce, Reducing, mdb_sql_add_limit, mdb_sql_get_limit, mdb_sql_add_column, mdb_sql_all_columns,
         mdb_sql_sel_count, mdb_sql_add_table, mdb_sql_add_sarg, mdb_sql_eval_expr, mdb_sql_strptime,
         mdb_sql_add_not, mdb_sql_add_and, mdb_sql_add_or, AddBinary, yyerrlab, mdb_sql_open, mdb_sql_close,
         mdb_sql_listtables, mdb_sql_describe_table, mdb_sql_select, Conditional
<1>10. ASSUME NEW e, ResetWith(e) PROVE table'.tree = 0
  BY <1>1, <1>6, <1>10, ResetWithIs
<1>11. ASSUME NEW cols, NEW rows, SetTemp(cols, rows) PROVE table'.tree = 0
  BY <1>6, <1>11, SetTempIs
<1>12. ASSUME NoError(q'), stmt.kind = "select", Straight(stmt.where), todo' # <<>>
       PROVE  Shape(heap', q'.stack, q'.tree, stmt.where, Items(stmt, i))
  <2>1. g.rule # "select" /\ RuleIs(stmt, i, g) /\ g.rule \notin Final \cup {"error"}
    BY <1>7, <1>12 DEF Final
  <2>2. /\ Items(stmt, Done) \in Nat
        /\ IF g.rule \in Conditional
             THEN /\ Items(stmt, i) = Items(stmt, Done) + 1 /\ Items(stmt, Done) + 1 \in 1 .. Len(stmt.where)
                  /\ g = Reduction(stmt.where[Items(stmt, Done) + 1])
             ELSE Items(stmt, i) = Items(stmt, Done)
    <3>1. i = Done + 1
      OBVIOUS
    <3> HIDE DEF i, g
    <3>2. /\ Items(stmt, Done) \in Nat
          /\ IF g.rule \in Conditional
               THEN /\ Items(stmt, Done + 1) = Items(stmt, Done) + 1 /\ Items(stmt, Done) + 1 \in 1 .. Len(stmt.where)
                    /\ g = Reduction(stmt.where[Items(stmt, Done) + 1])
               ELSE Items(stmt, Done + 1) = Items(stmt, Done)
      BY <1>3, <1>12, <2>1, <3>1, PartsStep
    <3> QED
      BY <3>1, <3>2
  <2>3. Shape(heap, q.stack, q.tree, stmt.where, Items(stmt, Done))
    BY <1>8, <1>12
  <2>4. Len(stmt.where) \in Nat
    BY <1>3, <1>12, EndsAre
  <2>5. ASSUME \/ mdb_sql_add_sarg \/ mdb_sql_eval_expr \/ mdb_sql_strptime \/ mdb_sql_add_not
               \/ AddBinary("and", "AND") \/ AddBinary("or", "OR"),
               g.rule \in Conditional
        PROVE  Shape(heap', q'.stack, q'.tree, stmt.where, Items(stmt, i))
    <3> DEFINE n == Items(stmt, Done)
    <3>1. n \in Nat /\ n + 1 \in 1 .. Len(stmt.where) /\ Items(stmt, i) = n + 1
          /\ Head(todo) = Reduction(stmt.where[n + 1])
      BY <2>2, <2>5
    <3>2. Shape(heap, q.stack, q.tree, stmt.where, n)
      BY <2>3
    <3> HIDE DEF n, i, g
    <3>3. Shape(heap', q'.stack, q'.tree, stmt.where, n + 1)
      BY <1>1, <1>3, <1>5, <1>6, <1>12, <2>4, <2>5, <3>1, <3>2, ItemShape
    <3> QED
      BY <3>1, <3>3
  <2>6. ASSUME \/ mdb_sql_add_limit \/ mdb_sql_get_limit \/ mdb_sql_add_column \/ mdb_sql_all_columns
               \/ mdb_sql_sel_count \/ mdb_sql_add_table,
               g.rule \in {"top", "limit", "column", "*", "count", "table"}
        PROVE  Shape(heap', q'.stack, q'.tree, stmt.where, Items(stmt, i))
    <3>1. heap' = heap /\ q'.stack = q.stack /\ q'.tree = q.tree
      BY <1>6, <2>6 DEF mdb_sql_add_limit, mdb_sql_get_limit, mdb_sql_add_column, mdb_sql_all_columns,
                        mdb_sql_sel_count, mdb_sql_add_table, KeepMemory, Fields
    <3>2. Items(stmt, i) = Items(stmt, Done)
      BY <2>2, <2>6 DEF Conditional
    <3> QED
      BY <2>3, <3>1, <3>2
  <2> QED
    BY <1>9, <2>1, <2>5, <2>6 DEF Final
<1>13. ASSUME NoError(q'), stmt.kind = "select", Straight(stmt.where), table'.tree # 0
       PROVE  Matches(heap', table'.tree, stmt.where, 0, Len(stmt.where))
  <2>1. CASE mdb_sql_select /\ g.rule = "select"
    <3>1. RuleIs(stmt, Done + 1, Head(todo))
      BY <1>7, <2>1
    <3> QED
      BY <1>1, <1>3, <1>4, <1>5, <1>6, <1>8, <1>13, <2>1, <3>1, SelectShapes
  <2>2. CASE \/ mdb_sql_add_sarg \/ mdb_sql_eval_expr \/ mdb_sql_strptime \/ mdb_sql_add_not
             \/ AddBinary("and", "AND") \/ AddBinary("or", "OR")
    <3>1. table' = table \/ \E e : ResetWith(e)
      BY <2>2 DEF mdb_sql_add_sarg, mdb_sql_eval_expr, mdb_sql_strptime, mdb_sql_add_not, AddBinary, AddNode
    <3> QED
      BY <1>6, <1>10, <1>13, <3>1
  <2>3. CASE \/ mdb_sql_add_limit \/ mdb_sql_get_limit \/ mdb_sql_add_column \/ mdb_sql_all_columns
             \/ mdb_sql_sel_count \/ mdb_sql_add_table \/ mdb_sql_open \/ mdb_sql_close
    <3>1. table' = table
      BY <2>3 DEF mdb_sql_add_limit, mdb_sql_get_limit, mdb_sql_add_column, mdb_sql_all_columns,
                  mdb_sql_sel_count, mdb_sql_add_table, KeepMemory, mdb_sql_open, mdb_sql_close
    <3> QED
      BY <1>6, <1>13, <3>1
  <2>4. CASE yyerrlab \/ mdb_sql_listtables \/ mdb_sql_describe_table
    <3>1. table' = table \/ (\E e : ResetWith(e)) \/ \E cols, rows : SetTemp(cols, rows)
      BY <2>4 DEF yyerrlab, mdb_sql_listtables, mdb_sql_describe_table
    <3> QED
      BY <1>6, <1>10, <1>11, <1>13, <3>1
  <2> QED
    BY <1>9, <2>1, <2>2, <2>3, <2>4
<1>14. Shaped' <=> (stmt.kind = "select" /\ Straight(stmt.where) /\ table'.tree # 0
                      => Matches(heap', table'.tree, stmt.where, 0, Len(stmt.where)))
  BY <1>1 DEF Shaped, Straight, Matches
<1>15. Shape(heap, q.stack, q.tree, stmt.where, Items(stmt, Done))'
         <=> Shape(heap', q'.stack, q'.tree, stmt.where, Items(stmt, i))
  BY <1>1, <1>2
<1>16. Straight(stmt.where)' <=> Straight(stmt.where)
  BY <1>1 DEF Straight
<1>17. NoError(q)' <=> NoError(q')
  BY DEF NoError
<1> QED
  BY <1>1, <1>12, <1>13, <1>14, <1>15, <1>16, <1>17 DEF ShapeInv

\* What does not touch the nodes keeps what the tree stands for.
LEMMA SameShape ==
  ASSUME Shaped, UNCHANGED <<stmt, heap>>, table'.tree = table.tree
  PROVE  Shaped'
  BY DEF Shaped

\* The tree that a query tests its rows with is the condition of its statement, node for
\* item: operators over the operands they are written for, comparisons of the columns and
\* with the operators written (mdb_sql_add_and, mdb_sql_add_or, mdb_sql_add_not,
\* mdb_sql_add_sarg), for the conditions where the order of the stack makes no difference.
THEOREM QueryTreeAsAsked == Spec => []TreeAsAsked
<1>1. ASSUME Init PROVE ShapeInv
  <2>1. pc = "none"
    BY <1>1 DEF Init
  <2> QED
    BY <2>1 DEF ShapeInv
<1>2. ASSUME ParseInv, TreesInv, ShapeInv, [Next]_vars PROVE ShapeInv'
  <2>1. CASE Reduce
    BY <1>2, <2>1, ReduceKeepsShape
  <2>2. CASE cmdb_query_open
    <3>1. PICK s \in Queries, found \in BOOLEAN :
             /\ stmt' = s.stmt
             /\ IF found THEN /\ q' = [mdb_sql_init EXCEPT !.mdb = 1]
                              /\ pc' = "parse" /\ todo' = Parse(s.stmt)
                ELSE q' = [mdb_sql_init EXCEPT !.err = "locate"] /\ pc' = "opened"
      BY <2>2 DEF cmdb_query_open
    <3>2. pc = "none" /\ table' = table /\ table.tree = 0 /\ table'.tree = 0
      BY <1>2, <2>2, NoTableIs DEF cmdb_query_open, ParseInv, CurInv
    <3>3. Shaped'
      BY <3>2 DEF Shaped
    <3>4. IsStatement(s.stmt) /\ q'.stack = <<>> /\ q'.tree = 0
      BY <3>1, QueriesAssumption DEF mdb_sql_init
    <3>5. ASSUME pc' = "parse", stmt'.kind = "select" PROVE Items(stmt', Done') = 0
      <4>1. found
        BY <3>1, <3>5
      <4>2. Len(Parse(s.stmt)) \in Nat
        BY <3>4, ParseAt, SeqFacts
      <4>3. Done' = 0
        BY <3>1, <4>1, <4>2 DEF Done
      <4>4. Items(s.stmt, 0) = 0
        <5> DEFINE B == TableEnd(s.stmt)
        <5>1. B = ColumnEnd(s.stmt) + 1 /\ ColumnEnd(s.stmt) \in Nat
          BY <3>1, <3>4, <3>5, EndsAre
        <5>2. Items(s.stmt, 0) = IF 0 <= B THEN 0 ELSE IF 0 >= WhereEnd(s.stmt) THEN WhereEnd(s.stmt) - B ELSE 0 - B
          BY DEF Items, Part
        <5> HIDE DEF B
        <5> QED
          BY <5>1, <5>2
      <4> QED
        BY <3>1, <4>3, <4>4
    <3>6. ASSUME pc' = "parse", stmt'.kind = "select"
          PROVE  Shape(heap, q.stack, q.tree, stmt.where, Items(stmt, Done))'
      <4>1. ~Waits(stmt'.where, 0)
        BY DEF Waits
      <4>2. Shape(heap', q'.stack, q'.tree, stmt'.where, 0)
        BY <3>4, <4>1, NoSeq DEF Shape
      <4> QED
        BY <3>5, <3>6, <4>2
    <3> QED
      BY <3>1, <3>3, <3>6 DEF ShapeInv
  <2>3. CASE mdb_sql_run_query
    <3>1. UNCHANGED <<stmt, heap>> /\ table'.tree = table.tree /\ pc = "parse" /\ pc' = "opened"
      BY <1>2, <2>3 DEF mdb_sql_run_query, mdb_sql_bind_all, ParseInv, CurInv, TableFields
    <3>2. NoError(q') => NoError(q)
      BY <1>2, <2>3 DEF mdb_sql_run_query, mdb_sql_bind_all, ParseInv, CurInv, Fields, NoError
    <3> QED
      BY <1>2, <3>1, <3>2, SameShape DEF ShapeInv
  <2>4. CASE OpenQuery
    <3>1. CASE pc' = "failed"
      BY <3>1 DEF ShapeInv
    <3>2. CASE pc' = "query"
      <4>1. UNCHANGED <<stmt, heap, table>> /\ pc = "opened" /\ NoError(q)
        BY <2>4, <3>2 DEF OpenQuery, NoError
      <4> QED
        BY <1>2, <3>2, <4>1, SameShape DEF ShapeInv
    <3> QED
      BY <2>4, <3>1, <3>2 DEF OpenQuery
  <2>5. CASE cmdb_query_next \/ FetchStep \/ mdb_sql_fetch_row
    <3>1. UNCHANGED <<stmt, heap, table>> /\ pc \in {"query", "fetch"} /\ pc' \in {"query", "fetch", "end"}
      BY <2>5 DEF cmdb_query_next, FetchStep, ScanStep, query, mdb_sql_fetch_row
    <3> QED
      BY <1>2, <3>1, SameShape DEF ShapeInv
  <2>6. CASE cmdb_query_close
    <3>1. pc' = "closed"
      BY <2>6 DEF cmdb_query_close
    <3> QED
      BY <3>1 DEF ShapeInv
  <2>7. CASE UNCHANGED vars
    <3>1. UNCHANGED <<stmt, heap, table, pc, todo, q, catalog>>
      BY <2>7 DEF vars
    <3>2. Done' = Done
      BY <3>1 DEF Done, Parse, Whole, Rules, TopRules, ColumnRules, TableRule, WhereRules, LimitRules
    <3>3. Shaped' <=> Shaped
      BY <3>1 DEF Shaped
    <3>4. Shape(heap, q.stack, q.tree, stmt.where, Items(stmt, Done))'
            <=> Shape(heap, q.stack, q.tree, stmt.where, Items(stmt, Done))
      BY <3>1, <3>2
    <3> QED
      BY <1>2, <3>1, <3>3, <3>4 DEF ShapeInv, Straight, NoError
  <2> QED
    BY <1>2, <2>1, <2>2, <2>3, <2>4, <2>5, <2>6, <2>7 DEF Next
<1>3. ASSUME ParseInv, ShapeInv PROVE TreeAsAsked
  <2> SUFFICES ASSUME pc \in {"query", "fetch", "end"}, stmt.kind = "select", table.tree # 0, Straight(stmt.where)
               PROVE  Same(table.tree, stmt.where)
    BY DEF TreeAsAsked
  <2>1. Matches(heap, table.tree, stmt.where, 0, Len(stmt.where))
    BY <1>3 DEF ShapeInv, Shaped
  <2>2. IsStatement(stmt)
    BY <1>3, Described DEF ParseInv
  <2>3. Len(stmt.where) \in Nat /\ DOMAIN stmt.where = 1 .. Len(stmt.where)
    BY <2>2, PartLengths, SeqFacts
  <2> DEFINE m == Len(stmt.where)
             P == Postfix(heap, table.tree)
  <2>4. Len(P) = m - 0 /\ \A j \in 1 .. m - 0 : Stands(heap[P[j]], stmt.where[0 + j])
    BY <2>1 DEF Matches
  <2>5. m \in Nat /\ DOMAIN stmt.where = 1 .. m
    BY <2>3
  <2> HIDE DEF m, P
  <2>6. Len(P) = m /\ \A j \in 1 .. m : Stands(heap[P[j]], stmt.where[j])
    BY <2>4, <2>5
  <2> QED
    BY <2>5, <2>6 DEF Same, m, P
<1> QED
  BY <1>1, <1>2, <1>3, QueryParsed, QueryTrees, PTL DEF Spec
=============================================================================
