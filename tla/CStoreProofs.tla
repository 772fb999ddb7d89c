---------------------------- MODULE CStoreProofs ----------------------------
(***************************************************************************)
(* What the C library stores, for every value of the constants: the        *)
(* handles of a file are counted, whatever the order of clones and closes; *)
(* the pages of a temporary table are sound, whatever the size of a page   *)
(* and of the rows, and the rows of a file's pages keep their contents;    *)
(* each thread has some of the options that were asked for, and one of     *)
(* them all.                                                               *)
(***************************************************************************)
EXTENDS CFile, CPage, COptions, OperatorProofs, SequenceTheorems

-----------------------------------------------------------------------------
(* Files *)

FileInv == /\ of \in [Handles -> Streams \cup {NoStream}]
        /\ refs \in [Streams -> Nat]
        /\ HandlesCounted

\* A set of handles is finite, and its size a number.
LEMMA SharersFinite ==
  ASSUME NEW f PROVE IsFiniteSet(Sharers(f)) /\ Cardinality(Sharers(f)) \in Nat
<1>1. Sharers(f) \subseteq Handles
  BY DEF Sharers
<1> QED
  BY <1>1, StreamAssumption, FS_Subset, FS_CardinalityType

\* A handle that takes up a file is one more that shares it.
LEMMA OneMore ==
  ASSUME of \in [Handles -> Streams \cup {NoStream}],
         NEW h \in Handles, of[h] = NoStream, NEW f \in Streams, of' = [of EXCEPT ![h] = f]
  PROVE  /\ of' \in [Handles -> Streams \cup {NoStream}]
         /\ Cardinality(Sharers(f)') = Cardinality(Sharers(f)) + 1
         /\ \A g \in Streams \ {f} : Sharers(g)' = Sharers(g)
<1>1. of' \in [Handles -> Streams \cup {NoStream}]
  OBVIOUS
<1>2. Sharers(f)' = Sharers(f) \cup {h} /\ h \notin Sharers(f)
  BY StreamAssumption DEF Sharers
<1>3. \A g \in Streams \ {f} : Sharers(g)' = Sharers(g)
  BY StreamAssumption DEF Sharers
<1> QED
  BY <1>1, <1>2, <1>3, SharersFinite, FS_AddElement

\* A handle that is closed is one less.
LEMMA OneLess ==
  ASSUME of \in [Handles -> Streams \cup {NoStream}],
         NEW h \in Handles, NEW f \in Streams, of[h] = f, of' = [of EXCEPT ![h] = NoStream]
  PROVE  /\ of' \in [Handles -> Streams \cup {NoStream}]
         /\ Cardinality(Sharers(f)') = Cardinality(Sharers(f)) - 1
         /\ Cardinality(Sharers(f)) > 0
         /\ \A g \in Streams \ {f} : Sharers(g)' = Sharers(g)
<1>1. of' \in [Handles -> Streams \cup {NoStream}]
  OBVIOUS
<1>2. Sharers(f)' = Sharers(f) \ {h} /\ h \in Sharers(f)
  BY StreamAssumption DEF Sharers
<1>3. \A g \in Streams \ {f} : Sharers(g)' = Sharers(g)
  BY StreamAssumption DEF Sharers
<1>4. IsFiniteSet(Sharers(f)) /\ Cardinality(Sharers(f)) \in Nat
  BY SharersFinite
<1>5. Cardinality(Sharers(f) \ {h}) = Cardinality(Sharers(f)) - 1
  BY <1>2, <1>4, FS_RemoveElement
<1>6. Cardinality(Sharers(f)) # 0
  BY <1>2, <1>4, FS_EmptySet
<1>7. Cardinality(Sharers(f)) > 0
  BY <1>4, <1>6
<1> QED
  BY <1>1, <1>2, <1>3, <1>5, <1>7

LEMMA InitFileInv == FileInit => FileInv
<1> SUFFICES ASSUME FileInit PROVE FileInv
  OBVIOUS
<1>1. of = [h \in Handles |-> NoStream] /\ refs = [f \in Streams |-> 0]
  BY DEF FileInit
<1>2. \A f \in Streams : Sharers(f) = {}
  BY <1>1, StreamAssumption DEF Sharers
<1> QED
  BY <1>1, <1>2, FS_EmptySet DEF FileInv, HandlesCounted

\* Steps that leave the handles and the counts alone.
LEMMA StillCounted ==
  ASSUME FileInv, of' = of, refs' = refs PROVE FileInv'
BY DEF FileInv, HandlesCounted, Sharers

LEMMA NextFileInv == FileInv /\ [FileNext]_fileVars => FileInv'
<1> SUFFICES ASSUME FileInv, [FileNext]_fileVars PROVE FileInv'
  OBVIOUS
<1>0. /\ of \in [Handles -> Streams \cup {NoStream}] /\ refs \in [Streams -> Nat]
      /\ \A f \in Streams : refs[f] = Cardinality(Sharers(f))
  BY DEF FileInv, HandlesCounted
<1>1. ASSUME NEW h \in Handles, NEW f \in Streams, NEW name, NEW path, NEW writable,
             Open(h, f, name, path, writable)
      PROVE  FileInv'
  <2>1. of[h] = NoStream /\ refs[f] = 0
    BY <1>1 DEF Open, IsOpen
  <2>2. \/ of' = of /\ refs' = refs
        \/ of' = [of EXCEPT ![h] = f] /\ refs' = [refs EXCEPT ![f] = 1]
    BY <1>1 DEF Open
  <2>3. CASE of' = [of EXCEPT ![h] = f] /\ refs' = [refs EXCEPT ![f] = 1]
    <3>1. /\ of' \in [Handles -> Streams \cup {NoStream}]
          /\ Cardinality(Sharers(f)') = Cardinality(Sharers(f)) + 1
          /\ \A g \in Streams \ {f} : Sharers(g)' = Sharers(g)
      BY <1>0, <2>1, <2>3, OneMore
    <3>2. Cardinality(Sharers(f)) = 0
      BY <1>0, <2>1
    <3>3. refs'[f] = 1 /\ refs' \in [Streams -> Nat] /\ \A g \in Streams \ {f} : refs'[g] = refs[g]
      BY <1>0, <2>3
    <3>4. \A g \in Streams : refs'[g] = Cardinality(Sharers(g)')
      BY <1>0, <3>1, <3>2, <3>3
    <3> QED
      BY <3>1, <3>3, <3>4 DEF FileInv, HandlesCounted
  <2> QED
    BY <2>2, <2>3, StillCounted
<1>2. ASSUME NEW h \in Handles, mdb_close(h) PROVE FileInv'
  <2>0. PICK f \in Streams : of[h] = f
    BY <1>0, <1>2 DEF mdb_close, IsOpen
  <2>1. of' = [of EXCEPT ![h] = NoStream]
    BY <1>2 DEF mdb_close
  <2>2. refs' = [refs EXCEPT ![f] = IF refs[f] > 1 THEN refs[f] - 1 ELSE 0]
    BY <1>2, <2>0 DEF mdb_close, Release
  <2>3. /\ of' \in [Handles -> Streams \cup {NoStream}]
        /\ Cardinality(Sharers(f)') = Cardinality(Sharers(f)) - 1
        /\ Cardinality(Sharers(f)) > 0
        /\ \A g \in Streams \ {f} : Sharers(g)' = Sharers(g)
    BY <1>0, <2>0, <2>1, OneLess
  <2>4. f \in Streams /\ refs[f] = Cardinality(Sharers(f)) /\ refs[f] \in Nat
    BY <1>0, <2>0
  <2>5. refs'[f] = refs[f] - 1 /\ refs' \in [Streams -> Nat]
    BY <1>0, <2>2, <2>3, <2>4
  <2>6. \A g \in Streams \ {f} : refs'[g] = refs[g]
    BY <1>0, <2>2
  <2>7. \A g \in Streams : refs'[g] = Cardinality(Sharers(g)')
    BY <1>0, <2>3, <2>4, <2>5, <2>6
  <2> QED
    BY <2>3, <2>5, <2>7 DEF FileInv, HandlesCounted
<1>3. ASSUME NEW h \in Handles, NEW g \in Handles, mdb_clone_handle(h, g) PROVE FileInv'
  <2>2. PICK f \in Streams : of[h] = f
    BY <1>0, <1>3 DEF mdb_clone_handle, IsOpen
  <2>1. of[g] = NoStream /\ of' = [of EXCEPT ![g] = f] /\ refs' = [refs EXCEPT ![f] = refs[f] + 1]
    BY <1>3, <2>2 DEF mdb_clone_handle, IsOpen
  <2>3. /\ of' \in [Handles -> Streams \cup {NoStream}]
        /\ Cardinality(Sharers(f)') = Cardinality(Sharers(f)) + 1
        /\ \A k \in Streams \ {f} : Sharers(k)' = Sharers(k)
    BY <1>0, <2>1, <2>2, OneMore
  <2>4. refs'[f] = refs[f] + 1 /\ refs' \in [Streams -> Nat]
        /\ \A k \in Streams \ {f} : refs'[k] = refs[k]
    BY <1>0, <2>1, <2>2
  <2>5. \A k \in Streams : refs'[k] = Cardinality(Sharers(k)')
    BY <1>0, <2>2, <2>3, <2>4
  <2> QED
    BY <2>3, <2>4, <2>5 DEF FileInv, HandlesCounted
<1>4. ASSUME NEW h \in Handles, NEW pg, NEW fault, mdb_read_pg(h, pg, fault) PROVE FileInv'
  BY <1>4, StillCounted DEF mdb_read_pg
<1>5. ASSUME NEW h \in Handles, NEW pg, mdb_find_pg_row(h, pg) PROVE FileInv'
  BY <1>5, StillCounted DEF mdb_find_pg_row
<1>6. ASSUME NEW h \in Handles, NEW pg, mdb_write_pg(h, pg) PROVE FileInv'
  BY <1>6, StillCounted DEF mdb_write_pg
<1>7. ASSUME NEW h \in Handles, Put(h, 1, 1) PROVE FileInv'
  BY <1>7, StillCounted DEF Put
<1>8. CASE UNCHANGED fileVars
  BY <1>8, StillCounted DEF fileVars
<1> QED
  BY <1>1, <1>2, <1>3, <1>4, <1>5, <1>6, <1>7, <1>8 DEF FileNext

\* The references of a file are its open handles, in every state (mdb_close,
\* mdb_clone_handle).
THEOREM HandlesAlwaysCounted == FileSpec => []HandlesCounted
<1>1. FileInv => HandlesCounted
  BY DEF FileInv
<1> QED
  BY <1>1, InitFileInv, NextFileInv, PTL DEF FileSpec
-----------------------------------------------------------------------------
(* Bytes, and their exclusive or *)

LEMMA PowerDef ==
  /\ Power[0] = 1
  /\ \A n \in Nat : Power[n] \in Nat \ {0} /\ Power[n + 1] = 2 * Power[n]
<1> DEFINE step == [n \in Nat |-> [p \in Nat |-> 2 * p]]
           F == [n \in Nat |-> IF n = 0 THEN 1 ELSE 2 * Power[n - 1]]
           S == {n \in Nat : Power[n] \in Nat \ {0}}
<1>1. PICK f : StepsOf(f, 1, step)
  BY StepsExist
<1>2. \A n \in Nat : f[n] = IF n = 0 THEN 1 ELSE step[n][f[n - 1]]
  BY <1>1 DEF StepsOf
<1> DEFINE T == {n \in Nat : f[n] \in Nat}
<1>3. 0 \in T /\ \A n \in Nat : n \in T => n + 1 \in T
  <2>1. f[0] = 1
    BY <1>2
  <2>2. ASSUME NEW n \in Nat, f[n] \in Nat PROVE f[n + 1] \in Nat
    <3>1. n + 1 \in Nat /\ n + 1 # 0 /\ (n + 1) - 1 = n
      OBVIOUS
    <3>2. f[n + 1] = step[n + 1][f[n]]
      BY <1>2, <3>1
    <3> QED
      BY <2>2, <3>1, <3>2
  <2> QED
    BY <2>1, <2>2
<1>4. \A n \in Nat : f[n] \in Nat
  <2>1. Nat \subseteq T
    <3> HIDE DEF T
    <3> QED
      BY <1>3, NatInduct
  <2> QED
    BY <2>1
<1>5. f = [n \in Nat |-> IF n = 0 THEN 1 ELSE 2 * f[n - 1]]
  <2>1. \A n \in Nat : n # 0 => n - 1 \in Nat /\ f[n - 1] \in Nat
    BY <1>4
  <2>2. \A n \in Nat : f[n] = IF n = 0 THEN 1 ELSE 2 * f[n - 1]
    BY <1>2, <2>1
  <2> QED
    BY <1>1, <2>2 DEF StepsOf
<1>6. Power = [n \in Nat |-> IF n = 0 THEN 1 ELSE 2 * Power[n - 1]]
  BY <1>5 DEF Power
<1>7. Power[0] = 1 /\ \A n \in Nat : Power[n + 1] = 2 * Power[n]
  BY <1>6
<1>8. \A n \in Nat : n \in S => n + 1 \in S
  BY <1>7
<1>9. Nat \subseteq S
  <2>1. 0 \in S
    BY <1>7
  <2> HIDE DEF S
  <2> QED
    BY <1>8, <2>1, NatInduct
<1> QED
  BY <1>7, <1>9

LEMMA XorOfDef ==
  \A n \in Nat, a \in Nat, b \in Nat :
    /\ XorOf[n] \in [Nat -> [Nat -> Nat]]
    /\ XorOf[n][a][b] =
         IF n = 0 THEN 0 ELSE 2 * XorOf[n - 1][a \div 2][b \div 2] + ((a + b) % 2)
<1> DEFINE A == [Nat -> [Nat -> Nat]]
           base == [a \in Nat |-> [b \in Nat |-> 0]]
           up(x) == [a \in Nat |-> [b \in Nat |-> 2 * x[a \div 2][b \div 2] + ((a + b) % 2)]]
           step == [n \in Nat |-> [x \in A |-> up(x)]]
<1>0. ASSUME NEW x \in A PROVE up(x) \in A
  <2>1. ASSUME NEW a \in Nat, NEW b \in Nat
        PROVE  2 * x[a \div 2][b \div 2] + ((a + b) % 2) \in Nat
    <3>1. a \div 2 \in Nat /\ b \div 2 \in Nat /\ (a + b) % 2 \in Nat
      OBVIOUS
    <3>2. x[a \div 2] \in [Nat -> Nat]
      BY <3>1
    <3>3. PICK k \in Nat : k = x[a \div 2][b \div 2]
      BY <3>1, <3>2
    <3>4. 2 * k + ((a + b) % 2) \in Nat
      BY <3>1
    <3> QED
      BY <3>3, <3>4
  <2> QED
    BY <2>1
<1>1. PICK f : StepsOf(f, base, step)
  <2> HIDE DEF step, base
  <2> QED
    BY StepsExist
<1>2. \A n \in Nat : f[n] = IF n = 0 THEN base ELSE step[n][f[n - 1]]
  <2> HIDE DEF base, step
  <2> QED
    BY <1>1 DEF StepsOf
<1> DEFINE T == {n \in Nat : f[n] \in A}
<1>3. \A n \in Nat : f[n] \in A
  <2>1. f[0] \in A
    <3>1. f[0] = base
      BY <1>2
    <3> QED
      BY <3>1
  <2>2. ASSUME NEW n \in Nat, f[n] \in A PROVE f[n + 1] \in A
    <3> HIDE DEF up, A, base
    <3>1. n + 1 \in Nat /\ n + 1 # 0 /\ (n + 1) - 1 = n
      OBVIOUS
    <3>2. f[n + 1] = step[n + 1][f[n]]
      BY <1>2, <3>1
    <3>3. f[n + 1] = up(f[n])
      BY <2>2, <3>1, <3>2
    <3> QED
      BY <1>0, <2>2, <3>3
  <2>3. Nat \subseteq T
    <3>1. 0 \in T /\ \A n \in Nat : n \in T => n + 1 \in T
      <4> HIDE DEF A
      <4> QED
        BY <2>1, <2>2
    <3> HIDE DEF T
    <3> QED
      BY <3>1, NatInduct
  <2> QED
    BY <2>3
<1> DEFINE body(g, n) ==
             [a \in Nat |-> [b \in Nat |->
               IF n = 0 THEN 0 ELSE 2 * g[n - 1][a \div 2][b \div 2] + ((a + b) % 2)]]
<1>4. \A n \in Nat : f[n] = body(f, n)
  <2> TAKE n \in Nat
  <2>1. CASE n = 0
    <3>1. f[n] = base
      BY <1>2, <2>1
    <3>2. body(f, n) = base
      BY <2>1
    <3> QED
      BY <3>1, <3>2
  <2>2. CASE n # 0
    <3>1. n - 1 \in Nat /\ f[n - 1] \in A
      <4>1. n - 1 \in Nat
        BY <2>2
      <4> HIDE DEF A
      <4> QED
        BY <1>3, <4>1
    <3>2. f[n] = up(f[n - 1])
      <4> HIDE DEF up, A, base
      <4>1. f[n] = step[n][f[n - 1]]
        BY <1>2, <2>2
      <4> QED
        BY <3>1, <4>1
    <3>3. body(f, n) = up(f[n - 1])
      BY <2>2
    <3> QED
      BY <3>2, <3>3
  <2> QED
    BY <2>1, <2>2
<1>5. f = [n \in Nat |-> body(f, n)]
  <2> HIDE DEF body, base, step
  <2> QED
    BY <1>1, <1>4 DEF StepsOf
<1>6. XorOf = [n \in Nat |-> body(XorOf, n)]
  <2>1. XorOf = CHOOSE g : g = [n \in Nat |-> body(g, n)]
    BY DEF XorOf
  <2> HIDE DEF body
  <2> QED
    BY <1>5, <2>1
<1>7. \A n \in Nat : XorOf[n] = body(XorOf, n)
  <2> HIDE DEF body
  <2> QED
    BY <1>6
<1> DEFINE U == {n \in Nat : XorOf[n] \in A}
<1>8. 0 \in U
  <2>1. XorOf[0] = base
    BY <1>7
  <2> QED
    BY <2>1
<1>9. ASSUME NEW n \in Nat, n \in U PROVE n + 1 \in U
  <2>1. n + 1 \in Nat /\ n + 1 # 0 /\ (n + 1) - 1 = n
    OBVIOUS
  <2>2. body(XorOf, n + 1) = up(XorOf[n])
    BY <2>1
  <2>3. XorOf[n + 1] = up(XorOf[n])
    BY <1>7, <2>1, <2>2
  <2> HIDE DEF up, A
  <2> QED
    BY <1>0, <1>9, <2>3
<1>10. \A n \in Nat : XorOf[n] \in A
  <2> HIDE DEF U
  <2>1. Nat \subseteq U
    BY <1>8, <1>9, NatInduct
  <2> QED
    BY <2>1 DEF U
<1>11. ASSUME NEW n \in Nat, NEW a \in Nat, NEW b \in Nat
       PROVE  XorOf[n][a][b] =
                IF n = 0 THEN 0 ELSE 2 * XorOf[n - 1][a \div 2][b \div 2] + ((a + b) % 2)
  <2>1. body(XorOf, n)[a][b] =
          IF n = 0 THEN 0 ELSE 2 * XorOf[n - 1][a \div 2][b \div 2] + ((a + b) % 2)
    BY Zenon
  <2>2. XorOf[n] = body(XorOf, n)
    BY <1>7, Zenon
  <2> QED
    BY <2>1, <2>2, Zenon
<1> QED
  BY <1>10, <1>11

LEMMA XorNext ==
  ASSUME NEW n \in Nat, NEW a \in Nat, NEW b \in Nat
  PROVE  XorOf[n + 1][a][b] = 2 * XorOf[n][a \div 2][b \div 2] + ((a + b) % 2)
<1>1. n + 1 \in Nat /\ n + 1 # 0 /\ (n + 1) - 1 = n
  OBVIOUS
<1>2. PICK k \in Nat : k = n + 1 /\ k # 0 /\ k - 1 = n
  BY <1>1
<1>3. XorOf[k][a][b] = IF k = 0 THEN 0 ELSE 2 * XorOf[k - 1][a \div 2][b \div 2] + ((a + b) % 2)
  BY XorOfDef, Zenon
<1> QED
  BY <1>2, <1>3

\* Exclusive or undoes itself, bit by bit.
LEMMA XorTwice ==
  \A n \in Nat : \A a, b \in 0 .. Power[n] - 1 :
    /\ XorOf[n][a][b] \in 0 .. Power[n] - 1
    /\ XorOf[n][XorOf[n][a][b]][b] = a
<1> DEFINE P(n) == \A a, b \in 0 .. Power[n] - 1 :
                     /\ XorOf[n][a][b] \in 0 .. Power[n] - 1
                     /\ XorOf[n][XorOf[n][a][b]][b] = a
           S == {n \in Nat : P(n)}
<1>1. P(0)
  <2>1. Power[0] = 1 /\ \A a \in 0 .. Power[0] - 1 : a = 0
    BY PowerDef
  <2>2. XorOf[0][0][0] = 0
    BY XorOfDef
  <2> QED
    BY <2>1, <2>2
<1>2. ASSUME NEW n \in Nat, P(n) PROVE P(n + 1)
  <2>1. Power[n] \in Nat /\ Power[n + 1] = 2 * Power[n] /\ Power[n] > 0
    BY PowerDef
  <2>2. SUFFICES ASSUME NEW a \in 0 .. Power[n + 1] - 1, NEW b \in 0 .. Power[n + 1] - 1
                 PROVE  /\ XorOf[n + 1][a][b] \in 0 .. Power[n + 1] - 1
                        /\ XorOf[n + 1][XorOf[n + 1][a][b]][b] = a
    OBVIOUS
  <2>3. PICK m \in Nat : m = Power[n]
    BY <2>1
  <2>4. a \in Nat /\ b \in Nat /\ a < 2 * m /\ b < 2 * m
    BY <2>1, <2>3
  <2>5. a \div 2 \in 0 .. m - 1 /\ b \div 2 \in 0 .. m - 1
    BY <2>3, <2>4
  <2>6. PICK x \in 0 .. m - 1 : x = XorOf[n][a \div 2][b \div 2] /\ XorOf[n][x][b \div 2] = a \div 2
    <3> HIDE <2>3
    <3> QED
      BY <1>2, <2>3, <2>5
  <2> DEFINE r == (a + b) % 2
             c == 2 * x + r
  <2>7. r \in 0 .. 1 /\ c \in Nat /\ c < 2 * m /\ c \div 2 = x /\ c % 2 = r
    <3>1. r \in 0 .. 1
      BY <2>4
    <3> HIDE DEF r
    <3> QED
      BY <2>3, <3>1
  <2>8. n + 1 \in Nat /\ n + 1 # 0 /\ (n + 1) - 1 = n
    OBVIOUS
  <2> HIDE DEF c, r
  <2>9. XorOf[n + 1][a][b] = c
    <3>1. XorOf[n + 1][a][b] = 2 * XorOf[n][a \div 2][b \div 2] + ((a + b) % 2)
      BY <2>4, <2>8, XorNext
    <3> QED
      BY <2>6, <3>1 DEF c, r
  <2>10. XorOf[n + 1][c][b] = 2 * XorOf[n][c \div 2][b \div 2] + ((c + b) % 2)
    BY <2>4, <2>7, <2>8, XorNext
  <2>11. (c + b) % 2 = a % 2
    <3>1. \A i, j \in Nat, k \in Int : (2 * k + ((i + j) % 2) + j) % 2 = i % 2
      OBVIOUS
    <3> QED
      BY <2>4, <3>1 DEF c, r
  <2>12. XorOf[n + 1][c][b] = a
    <3>1. XorOf[n + 1][c][b] = 2 * (a \div 2) + (a % 2)
      BY <2>6, <2>7, <2>10, <2>11
    <3>2. 2 * (a \div 2) + (a % 2) = a
      BY <2>4
    <3> QED
      BY <3>1, <3>2
  <2> QED
    BY <2>1, <2>3, <2>7, <2>9, <2>12
<1>3. Nat \subseteq S
  <2>1. 0 \in S /\ \A n \in Nat : n \in S => n + 1 \in S
    <3> HIDE DEF P
    <3> QED
      BY <1>1, <1>2
  <2> HIDE DEF S
  <2> QED
    BY <2>1, NatInduct
<1> QED
  BY <1>3

\* What a cipher needs to know of bytes.
LEMMA ByteFacts ==
  /\ Byte \in Nat /\ Byte > 1 /\ \A i \in 1 .. 4 : Power[Bits * (i - 1)] \in Nat \ {0}
  /\ \A a, b \in Bytes : Xor(a, b) \in Bytes /\ Xor(Xor(a, b), b) = a
<1>1. Byte \in Nat /\ Byte > 1
  <2>1. Bits - 1 \in Nat /\ (Bits - 1) + 1 = Bits
    BY ByteAssumption
  <2>2. Power[Bits] = 2 * Power[Bits - 1] /\ Power[Bits - 1] \in Nat \ {0}
    BY <2>1, PowerDef
  <2> QED
    BY <2>2 DEF Byte
<1>2. \A i \in 1 .. 4 : Power[Bits * (i - 1)] \in Nat \ {0}
  <2>1. \A i \in 1 .. 4 : Bits * (i - 1) \in Nat
    <3>1. \A i \in 1 .. 4 : i - 1 \in Nat
      OBVIOUS
    <3>2. Bits \in Nat
      BY ByteAssumption
    <3>3. \A m, k \in Nat : m * k \in Nat
      OBVIOUS
    <3> QED
      BY <3>1, <3>2, <3>3
  <2> QED
    BY <2>1, PowerDef
<1>3. \A a, b \in Bytes : Xor(a, b) \in Bytes /\ Xor(Xor(a, b), b) = a
  <2>1. Bits \in Nat
    BY ByteAssumption
  <2> QED
    BY <2>1, XorTwice DEF Xor, Bytes, Byte
<1> QED
  BY <1>1, <1>2, <1>3

-----------------------------------------------------------------------------
(* Folds *)

\* The largest element of a set of numbers up to n.
LEMMA MaxIs ==
  ASSUME NEW n \in Nat, NEW s \in SUBSET (1 .. n), NEW m \in s, \A x \in s : x <= m
  PROVE  Max(s) = m
<1>1. \A x \in s : x \in Nat /\ m >= x
  OBVIOUS
<1>2. ASSUME NEW y \in s, \A x \in s : y >= x PROVE y = m
  <2>1. y >= m /\ m >= y /\ y \in Nat /\ m \in Nat
    BY <1>1, <1>2
  <2> QED
    BY <2>1
<1>3. \A y \in s : (\A x \in s : y >= x) <=> y = m
  BY <1>1, <1>2
<1> DEFINE P(y) == \A x \in s : y >= x
<1>4. Max(s) = CHOOSE y \in s : P(y)
  BY DEF Max
<1>5. P(m)
  BY <1>1
<1>6. (CHOOSE y \in s : P(y)) \in s /\ P(CHOOSE y \in s : P(y))
  <2> HIDE DEF P
  <2> QED
    BY <1>5
<1> QED
  BY <1>3, <1>4, <1>6

\* A fold over a sequence of n elements has a value.
IsFold(it, step, base, n) ==
  it = [s \in SUBSET (1 .. n) |->
          IF s = {} THEN base ELSE step[Max(s)][it[s \ {Max(s)}]]]

LEMMA FoldExists ==
  ASSUME NEW n \in Nat, NEW A, NEW base \in A, NEW step \in [1 .. n -> [A -> A]]
  PROVE  \E it \in [SUBSET (1 .. n) -> A] : IsFold(it, step, base, n)
<1> DEFINE Made(it, m) ==
             /\ it \in [SUBSET (1 .. m) -> A] /\ it[{}] = base
             /\ \A s \in SUBSET (1 .. m) : s # {} => it[s] = step[Max(s)][it[s \ {Max(s)}]]
           N == {m \in Nat : m <= n => \E it : Made(it, m)}
<1>1. 0 \in N
  <2> DEFINE it == [s \in SUBSET (1 .. 0) |-> base]
  <2>1. \A s \in SUBSET (1 .. 0) : s = {}
    OBVIOUS
  <2>2. Made(it, 0)
    BY <2>1
  <2> QED
    BY <2>2
<1>2. ASSUME NEW m \in Nat, m \in N PROVE m + 1 \in N
  <2> SUFFICES ASSUME m + 1 <= n PROVE \E it : Made(it, m + 1)
    <3> HIDE DEF Made
    <3> QED
      OBVIOUS
  <2>1. PICK it : Made(it, m)
    <3> HIDE DEF Made
    <3>1. m <= n
      OBVIOUS
    <3> QED
      BY <1>2, <3>1
  <2> DEFINE jt == [s \in SUBSET (1 .. m + 1) |->
                      IF m + 1 \in s THEN step[m + 1][it[s \ {m + 1}]] ELSE it[s]]
  <2>2. ASSUME NEW s \in SUBSET (1 .. m + 1), m + 1 \notin s
        PROVE  s \in SUBSET (1 .. m) /\ jt[s] = it[s]
    <3>1. s \in SUBSET (1 .. m)
      BY <2>2
    <3> QED
      BY <2>2, <3>1
  <2>3. ASSUME NEW s \in SUBSET (1 .. m + 1), m + 1 \in s
        PROVE  /\ Max(s) = m + 1 /\ s \ {m + 1} \in SUBSET (1 .. m)
               /\ jt[s] = step[m + 1][jt[s \ {m + 1}]] /\ jt[s] \in A
    <3>1. Max(s) = m + 1
      <4>1. m + 1 \in Nat /\ \A x \in s : x <= m + 1
        OBVIOUS
      <4> QED
        BY <2>3, <4>1, MaxIs
    <3>2. s \ {m + 1} \in SUBSET (1 .. m) /\ s \ {m + 1} \in SUBSET (1 .. m + 1)
          /\ m + 1 \notin s \ {m + 1}
      BY <2>3
    <3>3. it[s \ {m + 1}] \in A /\ jt[s \ {m + 1}] = it[s \ {m + 1}]
      BY <2>1, <2>2, <3>2
    <3>4. jt[s] = step[m + 1][it[s \ {m + 1}]]
      BY <2>3
    <3> QED
      BY <3>1, <3>2, <3>3, <3>4
  <2>4. jt \in [SUBSET (1 .. m + 1) -> A]
    <3>1. \A s \in SUBSET (1 .. m + 1) : jt[s] \in A
      BY <2>1, <2>2, <2>3
    <3> QED
      BY <3>1
  <2>5. jt[{}] = base
    BY <2>1, <2>2
  <2>6. ASSUME NEW s \in SUBSET (1 .. m + 1), s # {}
        PROVE  jt[s] = step[Max(s)][jt[s \ {Max(s)}]]
    <3>1. CASE m + 1 \in s
      BY <2>3, <3>1
    <3>2. CASE m + 1 \notin s
      <4>1. s \in SUBSET (1 .. m) /\ jt[s] = it[s]
        BY <2>2, <3>2
      <4>2. s \ {Max(s)} \in SUBSET (1 .. m + 1) /\ m + 1 \notin s \ {Max(s)}
        BY <3>2
      <4>3. jt[s \ {Max(s)}] = it[s \ {Max(s)}]
        BY <2>2, <4>2
      <4> QED
        BY <2>1, <2>6, <4>1, <4>3
    <3> QED
      BY <3>1, <3>2
  <2> HIDE DEF jt
  <2>7. Made(jt, m + 1)
    BY <2>4, <2>5, <2>6
  <2> QED
    BY <2>7
<1>3. n \in N
  <2> HIDE DEF N
  <2> QED
    BY <1>1, <1>2, NatInduct
<1>4. PICK it : Made(it, n)
  <2> HIDE DEF Made
  <2> QED
    BY <1>3
<1>5. it = [s \in SUBSET (1 .. n) |-> it[s]]
  BY <1>4
<1>6. \A s \in SUBSET (1 .. n) : it[s] = IF s = {} THEN base ELSE step[Max(s)][it[s \ {Max(s)}]]
  BY <1>4
<1>7. IsFold(it, step, base, n)
  BY <1>5, <1>6 DEF IsFold
<1> QED
  BY <1>4, <1>7

\* A set of numbers from 1 to n has a largest one.
LEMMA MaxIn ==
  ASSUME NEW n \in Nat, NEW s \in SUBSET (1 .. n), s # {}
  PROVE  Max(s) \in s
<1> DEFINE T == {n - x : x \in s}
<1>1. T \in SUBSET Nat /\ T # {}
  <2>1. \A x \in s : n - x \in Nat
    OBVIOUS
  <2>2. PICK x \in s : TRUE
    OBVIOUS
  <2>3. n - x \in T
    BY <2>2
  <2> QED
    BY <2>1, <2>3
<1>2. PICK k \in T : \A j \in T : k <= j
  <2> HIDE DEF T
  <2> QED
    BY <1>1, LeastExists
<1>3. PICK m \in s : k = n - m
  BY <1>2
<1>4. \A x \in s : x <= m
  <2>1. \A x \in s : k <= n - x
    BY <1>2
  <2> QED
    BY <1>3, <2>1
<1> QED
  BY <1>4, MaxIs

-----------------------------------------------------------------------------
(* The cipher *)

\* RC4 takes one byte of the buffer after the other.
RC4States == [s : [Bytes -> Bytes], x : Bytes, y : Bytes, out : Seq(Bytes)]

LEMMA SwapType ==
  ASSUME NEW s \in [Bytes -> Bytes], NEW i \in Bytes, NEW j \in Bytes
  PROVE  Swap(s, i, j) \in [Bytes -> Bytes]
  BY DEF Swap

LEMMA ModType ==
  ASSUME NEW k \in Int PROVE k % Byte \in Bytes
  BY ByteFacts DEF Bytes

LEMMA RoundIs ==
  ASSUME NEW a \in RC4States, NEW byte \in Bytes
  PROVE  /\ RC4Round(a, byte) \in RC4States
         /\ \E k \in Bytes :
              \A b \in RC4States, c \in Bytes :
                b.s = a.s /\ b.x = a.x /\ b.y = a.y =>
                  LET r == RC4Round(a, byte)
                  IN  RC4Round(b, c) = [s |-> r.s, x |-> r.x, y |-> r.y,
                                        out |-> Append(b.out, Xor(c, k))]
<1> DEFINE x == (a.x + 1) % Byte
           y == (a.s[x] + a.y) % Byte
           s == Swap(a.s, x, y)
           k == s[(s[x] + s[y]) % Byte]
<1>0. /\ a.s \in [Bytes -> Bytes] /\ a.x \in Bytes /\ a.y \in Bytes /\ a.out \in Seq(Bytes)
      /\ \A b \in Bytes : b \in Int
  BY DEF RC4States, Bytes
<1>1. x \in Bytes
  BY <1>0, ModType
<1> HIDE DEF x
<1>2. y \in Bytes
  <2>1. a.s[x] \in Bytes
    BY <1>0, <1>1
  <2>2. a.s[x] + a.y \in Int
    BY <1>0, <2>1
  <2> QED
    BY <2>2, ModType
<1> HIDE DEF y
<1>3. s \in [Bytes -> Bytes]
  BY <1>0, <1>1, <1>2, SwapType
<1> HIDE DEF s
<1>4. k \in Bytes
  <2>1. s[x] \in Bytes /\ s[y] \in Bytes
    BY <1>1, <1>2, <1>3
  <2>2. (s[x] + s[y]) % Byte \in Bytes
    <3>1. s[x] + s[y] \in Int
      BY <1>0, <2>1
    <3> QED
      BY <3>1, ModType
  <2> QED
    BY <1>3, <2>2
<1>5. RC4Round(a, byte) = [s |-> s, x |-> x, y |-> y, out |-> Append(a.out, Xor(byte, k))]
  BY DEF RC4Round, k, s, y, x
<1>6. \A b \in RC4States, c \in Bytes : b.s = a.s /\ b.x = a.x /\ b.y = a.y =>
        RC4Round(b, c) = [s |-> s, x |-> x, y |-> y, out |-> Append(b.out, Xor(c, k))]
  BY DEF RC4Round, k, s, y, x
<1> HIDE DEF k
<1>7. Xor(byte, k) \in Bytes
  BY <1>4, ByteFacts
<1>8. RC4Round(a, byte) \in RC4States
  BY <1>0, <1>1, <1>2, <1>3, <1>5, <1>7 DEF RC4States
<1>9. /\ RC4Round(a, byte).s = s /\ RC4Round(a, byte).x = x /\ RC4Round(a, byte).y = y
  BY <1>5
<1> QED
  BY <1>4, <1>6, <1>8, <1>9

\* The fold of RC4 is what one gets round by round.
LEMMA RC4Rounds ==
  ASSUME NEW state \in [Bytes -> Bytes], NEW n \in Nat, NEW buffer \in [1 .. n -> Bytes],
         NEW f \in [0 .. n -> RC4States],
         f[0] = [s |-> state, x |-> 0, y |-> 0, out |-> <<>>],
         \A i \in 1 .. n : f[i] = RC4Round(f[i - 1], buffer[i])
  PROVE  RC4(state, buffer) = f[n].out
<1> DEFINE base == [s |-> state, x |-> 0, y |-> 0, out |-> <<>>]
           Body(it, s) == IF s = {} THEN base
                          ELSE RC4Round(it[s \ {Max(s)}], buffer[Max(s)])
           fold == CHOOSE it : it = [s \in SUBSET (1 .. n) |-> Body(it, s)]
           step == [i \in 1 .. n |-> [a \in RC4States |-> RC4Round(a, buffer[i])]]
<1>1. RC4(state, buffer) = fold[1 .. n].out
  BY DEF RC4, FoldLeft, MapThenFoldSet
<1>2. step \in [1 .. n -> [RC4States -> RC4States]]
  BY RoundIs
<1>3. base \in RC4States
  <2>1. 0 \in Bytes /\ <<>> \in Seq(Bytes)
    BY ByteFacts DEF Bytes
  <2> QED
    BY <2>1 DEF RC4States
<1>4. PICK it \in [SUBSET (1 .. n) -> RC4States] : IsFold(it, step, base, n)
  <2> HIDE DEF step, base
  <2> QED
    BY <1>2, <1>3, FoldExists
<1>5. \A s \in SUBSET (1 .. n) : it[s] = Body(it, s)
  <2> SUFFICES ASSUME NEW s \in SUBSET (1 .. n), s # {}
               PROVE  it[s] = RC4Round(it[s \ {Max(s)}], buffer[Max(s)])
    <3> HIDE DEF step
    <3>1. it[{}] = base
      BY <1>4 DEF IsFold
    <3> QED
      BY <3>1
  <2>1. Max(s) \in 1 .. n
    BY MaxIn
  <2>2. s \ {Max(s)} \in SUBSET (1 .. n)
    OBVIOUS
  <2>3. it[s] = step[Max(s)][it[s \ {Max(s)}]]
    <3> HIDE DEF step
    <3> QED
      BY <1>4 DEF IsFold
  <2>4. it[s \ {Max(s)}] \in RC4States
    BY <2>2
  <2> QED
    BY <2>1, <2>3, <2>4
<1>6. fold = [s \in SUBSET (1 .. n) |-> Body(fold, s)]
  <2>1. it = [s \in SUBSET (1 .. n) |-> Body(it, s)]
    <3> HIDE DEF Body
    <3> QED
      BY <1>5
  <2> HIDE DEF Body
  <2> QED
    BY <2>1
<1> HIDE DEF fold, step
<1>7. \A s \in SUBSET (1 .. n) : fold[s] = Body(fold, s)
  <2> HIDE DEF Body
  <2> QED
    BY <1>6
<1> DEFINE T == {i \in Nat : i <= n => fold[1 .. i] = f[i]}
<1>8. 0 \in T
  <2>1. 1 .. 0 = {} /\ {} \in SUBSET (1 .. n)
    OBVIOUS
  <2>2. fold[{}] = base
    BY <1>7, <2>1
  <2> QED
    BY <2>1, <2>2
<1>9. ASSUME NEW i \in Nat, i \in T PROVE i + 1 \in T
  <2> SUFFICES ASSUME i + 1 <= n PROVE fold[1 .. i + 1] = f[i + 1]
    OBVIOUS
  <2>1. i <= n /\ fold[1 .. i] = f[i]
    BY <1>9
  <2>2. 1 .. i + 1 \in SUBSET (1 .. n) /\ 1 .. i + 1 # {}
    <3>1. 1 \in 1 .. i + 1 /\ \A x \in 1 .. i + 1 : x \in 1 .. n
      OBVIOUS
    <3> QED
      BY <3>1
  <2>3. Max(1 .. i + 1) = i + 1
    <3>1. i + 1 \in 1 .. i + 1 /\ \A x \in 1 .. i + 1 : x <= i + 1
      OBVIOUS
    <3> QED
      BY <2>2, <3>1, MaxIs, ZenonT(30)
  <2>4. (1 .. i + 1) \ {i + 1} = 1 .. i
    OBVIOUS
  <2>5. fold[1 .. i + 1] = RC4Round(fold[1 .. i], buffer[i + 1])
    BY <1>7, <2>2, <2>3, <2>4
  <2>6. i + 1 \in 1 .. n /\ (i + 1) - 1 = i
    OBVIOUS
  <2> QED
    BY <2>1, <2>5, <2>6
<1>10. n \in T
  <2> HIDE DEF T
  <2> QED
    BY <1>8, <1>9, NatInduct
<1> QED
  BY <1>1, <1>10

\* What RC4 does to a byte depends on the key and its place only.
LEMMA RC4Stream ==
  ASSUME NEW state \in [Bytes -> Bytes], NEW n \in Nat
  PROVE  \E stream \in [1 .. n -> Bytes] : \A buffer \in [1 .. n -> Bytes] :
           RC4(state, buffer) = [i \in 1 .. n |-> Xor(buffer[i], stream[i])]
<1> DEFINE base == [s |-> state, x |-> 0, y |-> 0, out |-> <<>>]
           step == [i \in 1 .. n |-> [a \in RC4States |-> RC4Round(a, 0)]]
<1>0. 0 \in Bytes /\ base \in RC4States
  <2>1. 0 \in Bytes /\ <<>> \in Seq(Bytes)
    BY ByteFacts DEF Bytes
  <2> QED
    BY <2>1 DEF RC4States
<1>1. step \in [1 .. n -> [RC4States -> RC4States]]
  BY <1>0, RoundIs
<1>2. PICK it \in [SUBSET (1 .. n) -> RC4States] : IsFold(it, step, base, n)
  <2> HIDE DEF step, base
  <2> QED
    BY <1>0, <1>1, FoldExists
<1> DEFINE g(i) == it[1 .. i]
<1>3. \A i \in 0 .. n : g(i) \in RC4States
  <2>1. ASSUME NEW i \in 0 .. n PROVE 1 .. i \in SUBSET (1 .. n)
    <3>1. \A x \in 1 .. i : x \in 1 .. n
      OBVIOUS
    <3> QED
      BY <3>1
  <2> QED
    BY <1>2, <2>1
<1>4. g(0) = base
  <2>1. 1 .. 0 = {} /\ {} \in SUBSET (1 .. n)
    OBVIOUS
  <2> HIDE DEF step, base
  <2> QED
    BY <1>2, <2>1 DEF IsFold
<1>5. \A i \in 1 .. n : g(i) = RC4Round(g(i - 1), 0)
  <2> SUFFICES ASSUME NEW i \in 1 .. n PROVE g(i) = RC4Round(g(i - 1), 0)
    OBVIOUS
  <2>1. 1 .. i \in SUBSET (1 .. n) /\ 1 .. i # {} /\ (1 .. i) \ {i} = 1 .. i - 1
    <3>1. 1 \in 1 .. i /\ \A x \in 1 .. i : x \in 1 .. n
      OBVIOUS
    <3>2. (1 .. i) \ {i} = 1 .. i - 1
      OBVIOUS
    <3> QED
      BY <3>1, <3>2
  <2>2. Max(1 .. i) = i
    <3>1. i \in 1 .. i /\ \A x \in 1 .. i : x <= i
      OBVIOUS
    <3> QED
      BY <2>1, <3>1, MaxIs
  <2>3. g(i) = step[i][it[1 .. i - 1]]
    <3> HIDE DEF step, base
    <3> QED
      BY <1>2, <2>1, <2>2 DEF IsFold
  <2>4. it[1 .. i - 1] \in RC4States
    <3>1. i - 1 \in 0 .. n
      OBVIOUS
    <3> QED
      BY <1>3, <3>1
  <2> QED
    BY <2>3, <2>4
<1> HIDE DEF g, step, base
<1> DEFINE P(i, k) == \A b \in RC4States, c \in Bytes :
             b.s = g(i - 1).s /\ b.x = g(i - 1).x /\ b.y = g(i - 1).y =>
               RC4Round(b, c) = [s |-> g(i).s, x |-> g(i).x, y |-> g(i).y,
                                 out |-> Append(b.out, Xor(c, k))]
           stream == [i \in 1 .. n |-> CHOOSE k \in Bytes : P(i, k)]
<1>6. \A i \in 1 .. n : \E k \in Bytes : P(i, k)
  <2> SUFFICES ASSUME NEW i \in 1 .. n PROVE \E k \in Bytes : P(i, k)
    OBVIOUS
  <2>1. g(i - 1) \in RC4States /\ g(i) = RC4Round(g(i - 1), 0)
    BY <1>3, <1>5
  <2>2. PICK a \in RC4States : a = g(i - 1)
    BY <2>1
  <2>3. PICK k \in Bytes : \A b \in RC4States, c \in Bytes :
                b.s = a.s /\ b.x = a.x /\ b.y = a.y =>
                  RC4Round(b, c) = [s |-> RC4Round(a, 0).s, x |-> RC4Round(a, 0).x,
                                    y |-> RC4Round(a, 0).y, out |-> Append(b.out, Xor(c, k))]
    BY <1>0, RoundIs
  <2>4. RC4Round(a, 0) = g(i)
    BY <2>1, <2>2
  <2> QED
    BY <2>2, <2>3, <2>4
<1>7. stream \in [1 .. n -> Bytes] /\ \A i \in 1 .. n : P(i, stream[i])
  <2> HIDE DEF P
  <2> QED
    BY <1>6
<1> HIDE DEF stream
<1>8. ASSUME NEW buffer \in [1 .. n -> Bytes]
      PROVE  RC4(state, buffer) = [i \in 1 .. n |-> Xor(buffer[i], stream[i])]
  <2> DEFINE done(i) == [j \in 1 .. i |-> Xor(buffer[j], stream[j])]
             f == [i \in 0 .. n |-> [s |-> g(i).s, x |-> g(i).x, y |-> g(i).y, out |-> done(i)]]
  <2>1. \A i \in 0 .. n : done(i) \in Seq(Bytes) /\ Len(done(i)) = i
    <3>1. \A j \in 1 .. n : Xor(buffer[j], stream[j]) \in Bytes
      BY <1>7, <1>8, ByteFacts
    <3> QED
      BY <3>1
  <2>2. ASSUME NEW i \in 1 .. n PROVE done(i) = Append(done(i - 1), Xor(buffer[i], stream[i]))
    <3>1. i - 1 \in 0 .. n /\ i \in 0 .. n
      OBVIOUS
    <3>2. done(i)[i] = Xor(buffer[i], stream[i]) /\ \A j \in 1 .. i - 1 : done(i)[j] = done(i - 1)[j]
      OBVIOUS
    <3>3. Xor(buffer[i], stream[i]) \in Bytes
      BY <1>7, <1>8, ByteFacts
    <3> HIDE DEF done
    <3> QED
      BY <2>1, <3>1, <3>2, <3>3
  <2> HIDE DEF done
  <2>3. f \in [0 .. n -> RC4States]
    <3>1. \A i \in 0 .. n : f[i] \in RC4States
      BY <1>3, <2>1 DEF RC4States
    <3> QED
      BY <3>1
  <2>4. f[0] = base
    <3>1. done(0) = <<>> /\ 0 \in 0 .. n
      BY <2>1
    <3> QED
      BY <1>4, <3>1 DEF base
  <2>5. ASSUME NEW i \in 1 .. n PROVE f[i] = RC4Round(f[i - 1], buffer[i])
    <3>1. i - 1 \in 0 .. n /\ i \in 0 .. n /\ f[i - 1] \in RC4States /\ buffer[i] \in Bytes
      BY <1>8, <2>3
    <3>2. P(i, stream[i])
      BY <1>7
    <3>3. /\ f[i - 1].s = g(i - 1).s /\ f[i - 1].x = g(i - 1).x /\ f[i - 1].y = g(i - 1).y
          /\ f[i - 1].out = done(i - 1)
      BY <3>1
    <3>4. RC4Round(f[i - 1], buffer[i]) =
            [s |-> g(i).s, x |-> g(i).x, y |-> g(i).y,
             out |-> Append(done(i - 1), Xor(buffer[i], stream[i]))]
      <4> HIDE DEF f
      <4> QED
        BY <3>1, <3>2, <3>3
    <3> QED
      BY <2>2, <3>1, <3>4
  <2> HIDE DEF f
  <2>6. RC4(state, buffer) = f[n].out
    BY <1>8, <2>3, <2>4, <2>5, RC4Rounds DEF base
  <2>7. f[n].out = done(n)
    BY DEF f
  <2> QED
    BY <2>6, <2>7 DEF done
<1> QED
  BY <1>7, <1>8

\* Enciphering twice is deciphering.
LEMMA RC4Twice ==
  ASSUME NEW state \in [Bytes -> Bytes], NEW n \in Nat, NEW buffer \in [1 .. n -> Bytes]
  PROVE  /\ RC4(state, buffer) \in [1 .. n -> Bytes]
         /\ RC4(state, RC4(state, buffer)) = buffer
<1>1. PICK stream \in [1 .. n -> Bytes] : \A b \in [1 .. n -> Bytes] :
        RC4(state, b) = [i \in 1 .. n |-> Xor(b[i], stream[i])]
  BY RC4Stream
<1> DEFINE code == [i \in 1 .. n |-> Xor(buffer[i], stream[i])]
<1>2. code \in [1 .. n -> Bytes]
  BY ByteFacts
<1>3. RC4(state, buffer) = code
  BY <1>1
<1>4. RC4(state, code) = [i \in 1 .. n |-> Xor(code[i], stream[i])]
  BY <1>1, <1>2
<1>5. \A i \in 1 .. n : Xor(code[i], stream[i]) = buffer[i]
  BY ByteFacts
<1>6. [i \in 1 .. n |-> Xor(code[i], stream[i])] = buffer
  BY <1>5
<1> QED
  BY <1>2, <1>3, <1>4, <1>6

\* The schedule of a key is a table of bytes.
KeyStates == [s : [Bytes -> Bytes], j : Bytes]
Keys == {key \in Seq(Nat) : Len(key) > 0}

LEMMA KeyRoundIs ==
  ASSUME NEW key \in Keys, NEW a \in KeyStates, NEW c \in Bytes
  PROVE  KeyRound(key, a, c) \in KeyStates
<1> DEFINE k == key[(c % Len(key)) + 1]
           j == (k + a.s[c] + a.j) % Byte
<1>0. a.s \in [Bytes -> Bytes] /\ a.j \in Bytes /\ \A b \in Bytes : b \in Int
  BY DEF KeyStates, Bytes
<1>1. k \in Int
  <2>1. key \in Seq(Nat) /\ Len(key) \in Nat /\ Len(key) > 0 /\ c \in Int
    BY <1>0 DEF Keys
  <2>2. (c % Len(key)) + 1 \in 1 .. Len(key)
    BY <2>1
  <2> QED
    BY <2>1, <2>2
<1> HIDE DEF k
<1>2. j \in Bytes
  <2>1. a.s[c] \in Int
    BY <1>0
  <2>2. k + a.s[c] + a.j \in Int
    BY <1>0, <1>1, <2>1
  <2> QED
    BY <2>2, ModType
<1>3. KeyRound(key, a, c) = [s |-> Swap(a.s, c, j), j |-> j]
  BY DEF KeyRound, k
<1> HIDE DEF j
<1>4. Swap(a.s, c, j) \in [Bytes -> Bytes]
  BY <1>0, <1>2, SwapType
<1> QED
  BY <1>2, <1>3, <1>4 DEF KeyStates

LEMMA ScheduleType ==
  ASSUME NEW key \in Keys PROVE RC4_set_key(key) \in [Bytes -> Bytes]
<1> DEFINE n == Byte
           base == [s |-> [i \in Bytes |-> i], j |-> 0]
           order == [c \in 1 .. n |-> c - 1]
           Body(it, s) == IF s = {} THEN base
                          ELSE KeyRound(key, it[s \ {Max(s)}], order[Max(s)])
           fold == CHOOSE it : it = [s \in SUBSET (1 .. n) |-> Body(it, s)]
           step == [i \in 1 .. n |-> [a \in KeyStates |-> KeyRound(key, a, order[i])]]
<1>0. n \in Nat /\ \A i \in 1 .. n : order[i] \in Bytes
  BY ByteFacts DEF Bytes
<1>1. RC4_set_key(key) = fold[1 .. n].s
  BY DEF RC4_set_key, FoldLeft, MapThenFoldSet
<1> HIDE DEF order
<1>2. step \in [1 .. n -> [KeyStates -> KeyStates]]
  BY <1>0, KeyRoundIs
<1>3. base \in KeyStates
  BY ByteFacts DEF KeyStates, Bytes
<1>4. PICK it \in [SUBSET (1 .. n) -> KeyStates] : IsFold(it, step, base, n)
  <2> HIDE DEF step, base, n
  <2> QED
    BY <1>0, <1>2, <1>3, FoldExists
<1>5. \A s \in SUBSET (1 .. n) : it[s] = Body(it, s)
  <2> SUFFICES ASSUME NEW s \in SUBSET (1 .. n), s # {}
               PROVE  it[s] = KeyRound(key, it[s \ {Max(s)}], order[Max(s)])
    <3> HIDE DEF step
    <3>1. it[{}] = base
      BY <1>4 DEF IsFold
    <3> QED
      BY <3>1
  <2>1. Max(s) \in 1 .. n
    BY <1>0, MaxIn
  <2>2. s \ {Max(s)} \in SUBSET (1 .. n)
    OBVIOUS
  <2>3. it[s] = step[Max(s)][it[s \ {Max(s)}]]
    <3> HIDE DEF step
    <3> QED
      BY <1>4 DEF IsFold
  <2>4. it[s \ {Max(s)}] \in KeyStates
    BY <2>2
  <2> QED
    BY <2>1, <2>3, <2>4
<1>6. fold = [s \in SUBSET (1 .. n) |-> Body(fold, s)]
  <2>1. it = [s \in SUBSET (1 .. n) |-> Body(it, s)]
    <3> HIDE DEF Body
    <3> QED
      BY <1>5
  <2> HIDE DEF Body
  <2> QED
    BY <2>1
<1> HIDE DEF fold, step
<1>7. \A s \in SUBSET (1 .. n) : fold[s] = Body(fold, s)
  <2> HIDE DEF Body
  <2> QED
    BY <1>6
<1> DEFINE T == {i \in Nat : i <= n => fold[1 .. i] \in KeyStates}
<1> HIDE DEF n
<1>8. 0 \in T
  <2>1. 1 .. 0 = {} /\ {} \in SUBSET (1 .. n)
    OBVIOUS
  <2>2. fold[{}] = base
    BY <1>7, <2>1
  <2> QED
    BY <1>3, <2>1, <2>2
<1>9. ASSUME NEW i \in Nat, i \in T PROVE i + 1 \in T
  <2> SUFFICES ASSUME i + 1 <= n PROVE fold[1 .. i + 1] \in KeyStates
    OBVIOUS
  <2>1. fold[1 .. i] \in KeyStates
    BY <1>0, <1>9
  <2>2. 1 .. i + 1 \in SUBSET (1 .. n) /\ 1 .. i + 1 # {}
    <3>1. 1 \in 1 .. i + 1 /\ \A x \in 1 .. i + 1 : x \in 1 .. n
      BY <1>0
    <3> QED
      BY <3>1
  <2>3. Max(1 .. i + 1) = i + 1
    <3>1. i + 1 \in 1 .. i + 1 /\ \A x \in 1 .. i + 1 : x <= i + 1
      OBVIOUS
    <3> QED
      BY <1>0, <2>2, <3>1, MaxIs
  <2>4. (1 .. i + 1) \ {i + 1} = 1 .. i
    OBVIOUS
  <2>5. fold[1 .. i + 1] = KeyRound(key, fold[1 .. i], order[i + 1])
    BY <1>7, <2>2, <2>3, <2>4
  <2>6. order[i + 1] \in Bytes
    BY <1>0
  <2> QED
    BY <2>1, <2>5, <2>6, KeyRoundIs
<1>10. n \in T
  <2> HIDE DEF T
  <2> QED
    BY <1>0, <1>8, <1>9, NatInduct
<1>11. fold[1 .. n] \in KeyStates
  BY <1>0, <1>10
<1> QED
  BY <1>1, <1>11 DEF KeyStates

LEMMA CipherTwice ==
  ASSUME NEW key \in Keys, NEW n \in Nat, NEW buffer \in [1 .. n -> Bytes]
  PROVE  /\ mdbi_rc4(key, buffer) \in [1 .. n -> Bytes]
         /\ mdbi_rc4(key, mdbi_rc4(key, buffer)) = buffer
BY ScheduleType, RC4Twice DEF mdbi_rc4

-----------------------------------------------------------------------------
(* Pages *)

\* The pages and keys that are deciphered.
KeySet == [1 .. 4 -> Bytes]

LEMMA PiecesOf ==
  ASSUME NEW T, NEW s, NEW m \in Int, NEW n \in Nat, \A i \in m .. m + n - 1 : s[i] \in T
  PROVE  SubSeq(s, m, m + n - 1) = [i \in 1 .. n |-> s[m + i - 1]]
<1> DEFINE t == SubSeq(s, m, m + n - 1)
<1>1. t \in Seq(T) /\ Len(t) = n /\ \A i \in 1 .. n : t[i] = s[m + i - 1]
  <2>1. /\ t \in Seq(T) /\ Len(t) = IF m <= m + n - 1 THEN (m + n - 1) - m + 1 ELSE 0
        /\ \A i \in 1 .. (m + n - 1) - m + 1 : t[i] = s[m + i - 1]
    BY SubSeqProperties
  <2>2. (m + n - 1) - m + 1 = n /\ (m <= m + n - 1 <=> n # 0)
    OBVIOUS
  <2> QED
    BY <2>1, <2>2
<1> HIDE DEF t
<1>2. t = [i \in 1 .. n |-> t[i]]
  BY <1>1
<1> QED
  BY <1>1, <1>2 DEF t

LEMMA FirstBytes ==
  ASSUME NEW T, NEW s, NEW n \in Nat, \A i \in 1 .. n : s[i] \in T
  PROVE  SubSeq(s, 1, n) = [i \in 1 .. n |-> s[i]]
<1>1. 1 + n - 1 = n /\ \A i \in 1 .. n : 1 + i - 1 = i
  OBVIOUS
<1>2. SubSeq(s, 1, 1 + n - 1) = [i \in 1 .. n |-> s[1 + i - 1]]
  BY <1>1, PiecesOf
<1> QED
  BY <1>1, <1>2

LEMMA PageType ==
  ASSUME NEW bytes \in Seq(Bytes), NEW pg \in Nat, NEW size \in Nat
  PROVE  Page(bytes, pg, size) \in [1 .. size -> Bytes]
<1>1. 0 \in Bytes
  BY ByteFacts DEF Bytes
<1>2. \A i \in DOMAIN bytes : bytes[i] \in Bytes
  OBVIOUS
<1> QED
  BY <1>1, <1>2 DEF Page

LEMMA PageKeyType ==
  ASSUME NEW key \in KeySet, NEW pg \in Nat PROVE PageKey(key, pg) \in Keys
<1>1. ASSUME NEW i \in 1 .. 4 PROVE PageKey(key, pg)[i] \in Nat
  <2>1. (pg \div Power[Bits * (i - 1)]) % Byte \in Bytes
    <3>1. pg \div Power[Bits * (i - 1)] \in Int
      BY ByteFacts
    <3> QED
      BY <3>1, ModType
  <2>2. PageKey(key, pg)[i] = Xor(key[i], (pg \div Power[Bits * (i - 1)]) % Byte)
    BY DEF PageKey, Digits
  <2>3. PageKey(key, pg)[i] \in Bytes
    BY <2>1, <2>2, ByteFacts DEF KeySet
  <2> QED
    BY <2>3 DEF Bytes
<1>2. PageKey(key, pg) \in [1 .. 4 -> Nat]
  BY <1>1 DEF PageKey
<1>3. PICK k \in [1 .. 4 -> Nat] : k = PageKey(key, pg)
  BY <1>2
<1>4. \A s \in Seq(Nat) : Len(s) = 4 => s \in Keys
  BY DEF Keys
<1>5. k \in Seq(Nat) /\ Len(k) = 4
  OBVIOUS
<1> QED
  BY <1>3, <1>4, <1>5

LEMMA DecipheredTwice ==
  ASSUME NEW f, f.key \in KeySet, NEW pg \in Nat, NEW n \in Nat, NEW page \in [1 .. n -> Bytes]
  PROVE  /\ Deciphered(f, pg, page) \in [1 .. n -> Bytes]
         /\ Deciphered(f, pg, Deciphered(f, pg, page)) = page
<1>1. CASE pg # 0 /\ f.key # NoKey
  <2>1. PageKey(f.key, pg) \in Keys
    BY PageKeyType
  <2>2. PICK k \in Keys : k = PageKey(f.key, pg)
    BY <2>1
  <2>3. \A b : Deciphered(f, pg, b) = mdbi_rc4(k, b)
    BY <1>1, <2>2 DEF Deciphered
  <2> QED
    BY <2>3, CipherTwice
<1>2. CASE ~(pg # 0 /\ f.key # NoKey)
  BY <1>2 DEF Deciphered
<1> QED
  BY <1>1, <1>2

LEMMA HeaderType ==
  ASSUME NEW bytes \in Seq(Bytes)
  PROVE  /\ Header(bytes).key \in KeySet
         /\ Header(bytes).ok => Header(bytes).version \in {0, 1}
<1> DEFINE page == Page(bytes, 0, Jet3Size)
<1>1. page \in [1 .. Jet3Size -> Bytes]
  BY PageType, DiskAssumption
<1>2. SubSeq(page, 3, 6) \in KeySet
  <2>1. Jet3Size \in Nat /\ Jet3Size >= 6
    BY DiskAssumption
  <2>2. \A i \in 3 .. 6 : page[i] \in Bytes
    BY <1>1, <2>1
  <2> HIDE DEF page
  <2>3. SubSeq(page, 3, 6) = [i \in 1 .. 4 |-> page[3 + i - 1]]
    <3>1. 3 + 4 - 1 = 6
      OBVIOUS
    <3>2. \A i \in 3 .. 3 + 4 - 1 : page[i] \in Bytes
      BY <2>2, <3>1
    <3>3. SubSeq(page, 3, 3 + 4 - 1) = [i \in 1 .. 4 |-> page[3 + i - 1]]
      BY <3>2, PiecesOf
    <3> QED
      BY <3>1, <3>3
  <2>4. \A i \in 1 .. 4 : page[3 + i - 1] \in Bytes
    <3>1. \A i \in 1 .. 4 : 3 + i - 1 \in 3 .. 6
      OBVIOUS
    <3> QED
      BY <2>2, <3>1
  <2> QED
    BY <2>3, <2>4 DEF KeySet
<1> HIDE DEF page
<1>3. BootKey \in Keys
  BY DEF BootKey, Keys
<1>4. mdbi_rc4(BootKey, SubSeq(page, 3, 6)) \in KeySet
  <2>1. PICK b \in [1 .. 4 -> Bytes] : b = SubSeq(page, 3, 6)
    BY <1>2 DEF KeySet
  <2>2. mdbi_rc4(BootKey, b) \in [1 .. 4 -> Bytes]
    BY <1>3, CipherTwice
  <2> QED
    BY <2>1, <2>2 DEF KeySet
<1>5. Header(bytes) = [ok |-> page[1] = 0 /\ page[2] \in {0, 1}, version |-> page[2],
                       key |-> mdbi_rc4(BootKey, SubSeq(page, 3, 6))]
  BY DEF Header, page
<1>6. /\ Header(bytes).key = mdbi_rc4(BootKey, SubSeq(page, 3, 6))
      /\ Header(bytes).ok = (page[1] = 0 /\ page[2] \in {0, 1})
      /\ Header(bytes).version = page[2]
  BY <1>5
<1>7. Header(bytes).ok => page[2] \in {0, 1}
  BY <1>6
<1> QED
  BY <1>4, <1>6, <1>7

LEMMA SizeType ==
  ASSUME NEW version \in {0, 1}
  PROVE  PageSize(version) \in Jet3Size .. MaxPage /\ Jet3Size \in Nat /\ Jet3Size >= 6
         /\ MaxPage \in Nat /\ PageSize(version) \in Nat
BY DiskAssumption DEF PageSize, MaxPage

\* A page that fills the head of the buffer is read back from it.
LEMMA OverHead ==
  ASSUME NEW n \in Nat, NEW m \in 0 .. n, NEW buf \in [1 .. n -> Bytes], NEW page \in [1 .. m -> Bytes]
  PROVE  /\ Over(buf, page) \in [1 .. n -> Bytes]
         /\ SubSeq(Over(buf, page), 1, m) = page
<1>1. /\ Over(buf, page) \in [1 .. n -> Bytes]
      /\ \A i \in 1 .. m : i \in 1 .. n /\ Over(buf, page)[i] = page[i]
  BY DEF Over
<1>2. SubSeq(Over(buf, page), 1, m) = [i \in 1 .. m |-> Over(buf, page)[i]]
  BY <1>1, FirstBytes
<1> QED
  BY <1>1, <1>2

\* Two pages of a size have no byte in common.
LEMMA PagesApart ==
  ASSUME NEW p \in Nat, NEW q \in Nat, p # q, NEW size \in Nat, NEW i \in 1 .. size
  PROVE  p * size + i \notin q * size + 1 .. q * size + size
<1>1. p * size \in Nat /\ q * size \in Nat
  OBVIOUS
<1>2. CASE p < q
  <2>1. p * size + size <= q * size
    <3>1. PICK d \in Nat : q = p + 1 + d
      <4>1. q - p - 1 \in Nat /\ q = p + 1 + (q - p - 1)
        BY <1>2
      <4> QED
        BY <4>1
    <3>2. q * size = p * size + size + d * size
      BY <3>1
    <3>3. d * size \in Nat
      OBVIOUS
    <3> QED
      BY <1>1, <3>2, <3>3
  <2> QED
    BY <1>1, <2>1
<1>3. CASE q < p
  <2>1. q * size + size <= p * size
    <3>1. PICK d \in Nat : p = q + 1 + d
      <4>1. p - q - 1 \in Nat /\ p = q + 1 + (p - q - 1)
        BY <1>3
      <4> QED
        BY <4>1
    <3>2. p * size = q * size + size + d * size
      BY <3>1
    <3>3. d * size \in Nat
      OBVIOUS
    <3> QED
      BY <1>1, <3>2, <3>3
  <2> QED
    BY <1>1, <2>1
<1> QED
  BY <1>2, <1>3

\* A file after a page of it is written.
Written(bytes, pg, size, code) ==
  [i \in DOMAIN bytes |->
     IF i \in pg * size + 1 .. pg * size + size THEN code[i - pg * size] ELSE bytes[i]]

\* A page is written where it is, and no other page changes.
LEMMA PageWritten ==
  ASSUME NEW bytes \in Seq(Bytes), NEW pg \in Nat, NEW size \in Nat, NEW code \in [1 .. size -> Bytes],
         Len(bytes) >= pg * size + size
  PROVE  /\ Written(bytes, pg, size, code) \in Seq(Bytes)
         /\ Page(Written(bytes, pg, size, code), pg, size) = code
         /\ \A q \in Nat : q # pg =>
              Page(Written(bytes, pg, size, code), q, size) = Page(bytes, q, size)
<1> DEFINE new == Written(bytes, pg, size, code)
<1>0. PICK at \in Nat : at = pg * size
  OBVIOUS
<1>1. DOMAIN bytes = 1 .. Len(bytes) /\ Len(bytes) \in Nat /\ Len(bytes) >= at + size
  BY <1>0
<1>2. new = [i \in 1 .. Len(bytes) |-> IF i \in at + 1 .. at + size THEN code[i - at] ELSE bytes[i]]
  BY <1>0, <1>1 DEF Written
<1> HIDE DEF new
<1>3. new \in [1 .. Len(bytes) -> Bytes]
  <2>1. \A i \in at + 1 .. at + size : i - at \in 1 .. size
    OBVIOUS
  <2>2. \A i \in 1 .. Len(bytes) : bytes[i] \in Bytes
    OBVIOUS
  <2> QED
    BY <1>2, <2>1, <2>2
<1>4. new \in Seq(Bytes) /\ Len(new) = Len(bytes) /\ DOMAIN new = DOMAIN bytes
  BY <1>1, <1>3
<1>5. Page(new, pg, size) = code
  <2>1. \A i \in 1 .. size : at + i \in DOMAIN new /\ new[at + i] = code[i]
    <3>1. ASSUME NEW i \in 1 .. size
          PROVE at + i \in 1 .. Len(bytes) /\ at + i \in at + 1 .. at + size /\ (at + i) - at = i
      BY <1>1
    <3> QED
      BY <1>1, <1>2, <1>4, <3>1
  <2>2. Page(new, pg, size) = [i \in 1 .. size |-> IF at + i \in DOMAIN new THEN new[at + i] ELSE 0]
    BY <1>0 DEF Page
  <2> QED
    BY <2>1, <2>2
<1>6. ASSUME NEW q \in Nat, q # pg PROVE Page(new, q, size) = Page(bytes, q, size)
  <2>1. ASSUME NEW i \in 1 .. size, q * size + i \in DOMAIN bytes
        PROVE  new[q * size + i] = bytes[q * size + i]
    <3>1. q * size + i \notin at + 1 .. at + size
      BY <1>0, <1>6, PagesApart
    <3> QED
      BY <1>1, <1>2, <2>1, <3>1
  <2> QED
    BY <1>4, <2>1 DEF Page
<1> QED
  BY <1>4, <1>5, <1>6 DEF new

\* The header stays as it is when a page behind it is written.
LEMMA HeaderKept ==
  ASSUME NEW bytes \in Seq(Bytes), NEW pg \in Nat \ {0}, NEW size \in Nat, size >= Jet3Size, NEW code
  PROVE  Header(Written(bytes, pg, size, code)) = Header(bytes)
<1> DEFINE new == Written(bytes, pg, size, code)
<1>1. pg * size >= Jet3Size /\ pg * size \in Nat /\ Jet3Size \in Nat
  <2>1. pg - 1 \in Nat /\ pg * size = size + (pg - 1) * size
    OBVIOUS
  <2>2. (pg - 1) * size \in Nat
    BY <2>1
  <2> QED
    BY <2>1, <2>2, DiskAssumption
<1>2. \A i \in 1 .. Jet3Size : i \notin pg * size + 1 .. pg * size + size /\ 0 * Jet3Size + i = i
  BY <1>1
<1>3. Page(new, 0, Jet3Size) = Page(bytes, 0, Jet3Size)
  BY <1>2 DEF Page, Written
<1> QED
  BY <1>3 DEF Header

-----------------------------------------------------------------------------
(* What is read *)

Opened == [place : Places \cup {<<>>}, err : BOOLEAN, version : {0, 1}, key : KeySet, writable : BOOLEAN]
Buffers == [cur : Nat, pg : [1 .. MaxPage -> Bytes]]
DiskFiles == [there : BOOLEAN, bytes : Seq(Bytes), pages : Seq(Seq(Bytes))]

\* The pages behind the header are those of the file, deciphered.
Holds(bytes, pages) ==
  Header(bytes).ok =>
    \A i \in DOMAIN pages \ {1} :
      pages[i] = Deciphered(Header(bytes), i - 1, Page(bytes, i - 1, PageSize(Header(bytes).version)))

\* A buffer holds a page, if there is one of that number.
IsPage(pages, pg, size, buffer) ==
  pg + 1 \in DOMAIN pages => SubSeq(buffer, 1, size) = pages[pg + 1]

StoreTypes ==
  /\ disk \in [Places -> DiskFiles] /\ plain \in [Places -> Seq(Seq(Bytes))]
  /\ streams \in [Streams -> Opened] /\ handles \in [Handles -> Buffers]
  /\ spoiled \in [Handles -> BOOLEAN] /\ late \in [Handles -> BOOLEAN]
Stored == \A p \in Places : Holds(disk[p].bytes, plain[p])
Known ==
  \A f \in Streams : refs[f] > 0 =>
    /\ streams[f].place \in Places /\ Header(disk[streams[f].place].bytes).ok
    /\ streams[f].version = Header(disk[streams[f].place].bytes).version
    /\ streams[f].key = Header(disk[streams[f].place].bytes).key
OneWriter ==
  \A f, g \in Streams :
    refs[f] > 0 /\ refs[g] > 0 /\ f # g /\ streams[f].place = streams[g].place => ~streams[f].writable
BufferFresh(h) ==
  of[h] # NoStream /\ ~spoiled[h] /\ ~late[h] =>
    /\ handles[h].cur > 0
    /\ IsPage(plain[streams[of[h]].place], handles[h].cur, PageSize(streams[of[h]].version), handles[h].pg)

ReadInv ==
  /\ FileInv /\ StoreTypes /\ Stored /\ Known /\ OneWriter
  /\ \A h \in Handles : BufferFresh(h)
  /\ rowFresh = TRUE

LEMMA FreshIs ==
  ASSUME NEW h, NEW pg, NEW buffer
  PROVE  Fresh(h, pg, buffer) <=>
           IsPage(plain[streams[of[h]].place], pg, PageSize(streams[of[h]].version), buffer)
BY DEF Fresh, IsPage, Stream, Size

LEMMA ReadInvFresh == ReadInv => ReadsFresh
BY FreshIs DEF ReadInv, ReadsFresh, BufferFresh, IsOpen

LEMMA ZerosType ==
  Zeros(MaxPage) \in [1 .. MaxPage -> Bytes] /\ NoHandle \in Buffers /\ Closed \in Opened
<1>1. 0 \in Bytes
  BY ByteFacts DEF Bytes
<1>2. Zeros(MaxPage) \in [1 .. MaxPage -> Bytes]
  BY <1>1 DEF Zeros
<1>3. NoHandle \in Buffers
  BY <1>2 DEF NoHandle, Buffers
<1>4. NoKey \in KeySet
  BY <1>1 DEF NoKey, KeySet
<1> QED
  BY <1>2, <1>3, <1>4 DEF Closed, Opened

LEMMA InitReadInv == FileInit => ReadInv
<1> SUFFICES ASSUME FileInit PROVE ReadInv
  OBVIOUS
<1>1. PICK d \in Dirs : disk = d
  BY DEF FileInit
<1>2. /\ d \in [Places -> DiskFiles]
      /\ \A p \in Places : Holds(d[p].bytes, d[p].pages)
  BY DiskAssumption DEF DiskFiles, Holds
<1>3. /\ plain = [p \in Places |-> disk[p].pages]
      /\ refs = [f \in Streams |-> 0] /\ of = [h \in Handles |-> NoStream]
      /\ streams = [f \in Streams |-> Closed]
      /\ handles = [h \in Handles |-> NoHandle]
      /\ spoiled = [h \in Handles |-> FALSE] /\ late = [h \in Handles |-> FALSE]
      /\ rowFresh = TRUE
  BY DEF FileInit
<1>4. \A p \in Places : d[p].pages \in Seq(Seq(Bytes))
  BY <1>2 DEF DiskFiles
<1>5. StoreTypes
  <2>1. plain \in [Places -> Seq(Seq(Bytes))]
    BY <1>1, <1>3, <1>4
  <2> QED
    BY <1>1, <1>2, <1>3, <2>1, ZerosType DEF StoreTypes
<1>6. Stored
  BY <1>1, <1>2, <1>3 DEF Stored
<1>7. Known /\ OneWriter
  BY <1>3 DEF Known, OneWriter
<1>8. \A h \in Handles : BufferFresh(h)
  BY <1>3 DEF BufferFresh
<1> QED
  BY <1>3, <1>5, <1>6, <1>7, <1>8, InitFileInv DEF ReadInv

\* The file of an open handle is open.
LEMMA OpenCounted ==
  ASSUME FileInv, NEW h \in Handles, of[h] # NoStream
  PROVE  of[h] \in Streams /\ refs[of[h]] > 0 /\ refs[of[h]] \in Nat
<1>1. of[h] \in Streams /\ refs[of[h]] = Cardinality(Sharers(of[h])) /\ refs[of[h]] \in Nat
  BY DEF FileInv, HandlesCounted
<1>2. h \in Sharers(of[h])
  BY DEF Sharers
<1>3. refs[of[h]] # 0
  BY <1>1, <1>2, SharersFinite, FS_EmptySet
<1> QED
  BY <1>1, <1>3

\* What a read brings: a page that was read well is the one last written.
LEMMA PageReadIs ==
  ASSUME ReadInv, NEW h \in Handles, of[h] # NoStream, NEW pg \in Nat \ {0},
         NEW buf \in [1 .. MaxPage -> Bytes], NEW fault \in Faulty \cup {-1}
  PROVE  LET r == PageRead(h, pg, buf, fault)
         IN  /\ r.ok \in BOOLEAN /\ r.err \in BOOLEAN /\ r.buf \in [1 .. MaxPage -> Bytes]
             /\ r.ok => IsPage(plain[streams[of[h]].place], pg,
                               PageSize(streams[of[h]].version), r.buf)
<1> DEFINE f == streams[of[h]]
           size == PageSize(f.version)
           bytes == disk[f.place].bytes
           page == Page(bytes, pg, size)
           code == Deciphered(f, pg, page)
           part == IF fault >= 0 THEN SubSeq(page, 1, fault) ELSE page
           r == PageRead(h, pg, buf, fault)
<1>1. of[h] \in Streams /\ refs[of[h]] > 0
  BY OpenCounted DEF ReadInv
<1>2. f \in Opened
  BY <1>1 DEF ReadInv, StoreTypes
<1>3. /\ f.place \in Places /\ Header(bytes).ok /\ f.version = Header(bytes).version
      /\ f.key = Header(bytes).key
  BY <1>1 DEF ReadInv, Known
<1>4. f.version \in {0, 1} /\ f.key \in KeySet /\ f.err \in BOOLEAN
  BY <1>2 DEF Opened
<1>5. bytes \in Seq(Bytes) /\ plain[f.place] \in Seq(Seq(Bytes)) /\ Holds(bytes, plain[f.place])
  BY <1>3 DEF ReadInv, StoreTypes, DiskFiles, Stored
<1>6. \/ r.ok = FALSE /\ r.err = f.err /\ r.buf = buf
      \/ r.ok = FALSE /\ r.err = TRUE /\ r.buf = Over(buf, part)
      \/ r.ok = TRUE /\ r.err = FALSE /\ r.buf = Over(buf, code)
  <2> DEFINE failed == [[ok |-> FALSE, err |-> f.err, buf |-> buf] EXCEPT
                          !.err = TRUE, !.buf = Over(@, part)]
  <2> HIDE DEF f
  <2>1. f = streams[of[h]]
    BY DEF f
  <2>2. r = IF Beyond(bytes, pg, size) THEN [ok |-> FALSE, err |-> f.err, buf |-> buf]
            ELSE IF f.err \/ fault >= 0 THEN failed
            ELSE [ok |-> TRUE, err |-> FALSE, buf |-> Over(buf, code)]
    BY <2>1, Zenon DEF PageRead, Stream, Size
  <2>3. failed.ok = FALSE /\ failed.err = TRUE /\ failed.buf = Over(buf, part)
    <3> HIDE DEF part
    <3> QED
      OBVIOUS
  <2> HIDE DEF failed, r, part, code, size, bytes
  <2> QED
    BY <2>2, <2>3
<1>7. size \in Jet3Size .. MaxPage /\ size \in Nat /\ MaxPage \in Nat /\ size \in 0 .. MaxPage
  <2>1. size \in Jet3Size .. MaxPage /\ size \in Nat /\ MaxPage \in Nat
    BY <1>4, SizeType
  <2> QED
    BY <2>1, SizeType
<1> HIDE DEF r, f
<1>8. \A i \in DOMAIN plain[f.place] \ {1} :
        plain[f.place][i] = Deciphered(f, i - 1, Page(bytes, i - 1, size))
  <2>1. \A n, b : Deciphered(Header(bytes), n, b) = Deciphered(f, n, b)
    BY <1>3 DEF Deciphered
  <2> QED
    BY <1>3, <1>5, <2>1 DEF Holds
<1> HIDE DEF bytes, size
<1>9. page \in [1 .. size -> Bytes]
  BY <1>5, <1>7, PageType
<1>10. pg + 1 \in DOMAIN plain[f.place] => plain[f.place][pg + 1] = code
  <2>1. pg + 1 # 1 /\ (pg + 1) - 1 = pg
    OBVIOUS
  <2> QED
    BY <1>8, <2>1
<1> HIDE DEF page
<1>11. code \in [1 .. size -> Bytes]
  BY <1>4, <1>7, <1>9, DecipheredTwice
<1> HIDE DEF code
<1>12. Over(buf, code) \in [1 .. MaxPage -> Bytes] /\ SubSeq(Over(buf, code), 1, size) = code
  BY <1>7, <1>11, OverHead
<1>13. Over(buf, part) \in [1 .. MaxPage -> Bytes]
  <2>1. CASE fault >= 0
    <3>1. fault \in Nat /\ fault <= Jet3Size /\ fault \in 0 .. MaxPage /\ fault <= size
      BY <1>4, <1>7, <2>1, DiskAssumption, SizeType
    <3>2. \A i \in 1 .. fault : page[i] \in Bytes
      BY <1>7, <1>9, <3>1
    <3>3. SubSeq(page, 1, fault) = [i \in 1 .. fault |-> page[i]]
      BY <3>1, <3>2, FirstBytes
    <3>4. SubSeq(page, 1, fault) \in [1 .. fault -> Bytes]
      BY <3>2, <3>3
    <3> QED
      BY <1>7, <2>1, <3>1, <3>4, OverHead
  <2>2. CASE ~(fault >= 0)
    BY <1>7, <1>9, <2>2, OverHead
  <2> QED
    BY <2>1, <2>2
<1> HIDE DEF part
<1>14. r.ok \in BOOLEAN /\ r.err \in BOOLEAN /\ r.buf \in [1 .. MaxPage -> Bytes]
  BY <1>4, <1>6, <1>12, <1>13
<1>15. r.ok => IsPage(plain[f.place], pg, size, r.buf)
  <2>1. r.ok => r.buf = Over(buf, code)
    BY <1>6
  <2> QED
    BY <1>10, <1>12, <2>1 DEF IsPage
<1> QED
  BY <1>14, <1>15 DEF r, f, size

\* Of the streams, nothing changes but their error marks.
SameFiles ==
  /\ streams' \in [Streams -> Opened]
  /\ \A f \in Streams :
       /\ streams'[f].place = streams[f].place /\ streams'[f].version = streams[f].version
       /\ streams'[f].key = streams[f].key /\ streams'[f].writable = streams[f].writable

LEMMA ErrOnly ==
  ASSUME streams \in [Streams -> Opened], NEW f \in Streams, NEW e \in BOOLEAN,
         streams' = [streams EXCEPT ![f].err = e]
  PROVE  SameFiles
<1>1. streams'[f] = [streams[f] EXCEPT !.err = e] /\ \A g \in Streams \ {f} : streams'[g] = streams[g]
  OBVIOUS
<1>2. streams[f] \in Opened
  OBVIOUS
<1>3. /\ [streams[f] EXCEPT !.err = e] \in Opened
      /\ [streams[f] EXCEPT !.err = e].place = streams[f].place
      /\ [streams[f] EXCEPT !.err = e].version = streams[f].version
      /\ [streams[f] EXCEPT !.err = e].key = streams[f].key
      /\ [streams[f] EXCEPT !.err = e].writable = streams[f].writable
  BY <1>2 DEF Opened
<1>4. streams' \in [Streams -> Opened]
  BY <1>1, <1>3
<1> QED
  BY <1>1, <1>3, <1>4 DEF SameFiles

LEMMA FilesStay ==
  ASSUME ReadInv, disk' = disk, plain' = plain, refs' = refs, SameFiles
  PROVE  Stored' /\ Known' /\ OneWriter'
<1>1. Stored'
  BY DEF ReadInv, Stored
<1>2. Known'
  BY DEF ReadInv, Known, SameFiles
<1>3. OneWriter'
  BY DEF ReadInv, OneWriter, SameFiles
<1> QED
  BY <1>1, <1>2, <1>3

\* A buffer that no one touches is as fresh as it was.
LEMMA BufferStays ==
  ASSUME NEW h \in Handles, BufferFresh(h), of'[h] = of[h],
         handles'[h] = handles[h], spoiled'[h] = spoiled[h], late'[h] = late[h], plain' = plain,
         of[h] # NoStream => /\ streams'[of[h]].place = streams[of[h]].place
                             /\ streams'[of[h]].version = streams[of[h]].version
  PROVE  BufferFresh(h)'
BY DEF BufferFresh

LEMMA OpenFresh ==
  ASSUME ReadInv, FileInv', NEW h \in Handles, NEW f \in Streams, NEW name, NEW path,
         NEW writable \in BOOLEAN, Open(h, f, name, path, writable)
  PROVE  ReadInv'
<1> DEFINE found  == mdb_find_file(name, path)
           place  == CHOOSE p \in found : TRUE
           header == Header(disk[place].bytes)
           page   == Page(disk[place].bytes, 0, Jet3Size)
           new    == [place |-> place, err |-> FALSE, version |-> header.version,
                      key |-> header.key, writable |-> writable]
           buf    == [NoHandle EXCEPT !.pg = Over(@, page)]
<1>1. /\ of[h] = NoStream /\ refs[f] = 0
      /\ disk' = disk /\ plain' = plain /\ rowFresh' = rowFresh
  BY DEF Open, IsOpen
<1>2. CASE UNCHANGED <<refs, of, streams, handles, spoiled, late>>
  <2>1. SameFiles
    BY <1>2 DEF SameFiles, ReadInv, StoreTypes
  <2>2. \A g \in Handles : BufferFresh(g)'
    BY <1>1, <1>2 DEF ReadInv, BufferFresh
  <2>3. Stored' /\ Known' /\ OneWriter'
    BY <1>1, <1>2, <2>1, FilesStay
  <2> QED
    BY <1>1, <1>2, <2>2, <2>3 DEF ReadInv, StoreTypes
<1>3. CASE /\ found # {} /\ header.ok /\ Alone(place, writable)
           /\ streams' = [streams EXCEPT ![f] = new] /\ refs' = [refs EXCEPT ![f] = 1]
           /\ of' = [of EXCEPT ![h] = f] /\ handles' = [handles EXCEPT ![h] = buf]
           /\ spoiled' = [spoiled EXCEPT ![h] = TRUE] /\ late' = [late EXCEPT ![h] = FALSE]
  <2>1. place \in Places
    <3>1. place \in found
      BY <1>3
    <3>2. found \subseteq Places
      BY DEF mdb_find_file
    <3> QED
      BY <3>1, <3>2
  <2> HIDE DEF found, place
  <2>2. disk[place].bytes \in Seq(Bytes)
    BY <2>1 DEF ReadInv, StoreTypes, DiskFiles
  <2>3. header.key \in KeySet /\ header.version \in {0, 1}
    BY <1>3, <2>2, HeaderType
  <2>4. new \in Opened
    BY <2>1, <2>3 DEF Opened
  <2>5. buf \in Buffers
    <3>1. Jet3Size \in Nat /\ MaxPage \in Nat /\ Jet3Size \in 0 .. MaxPage
      BY DiskAssumption DEF MaxPage
    <3>2. page \in [1 .. Jet3Size -> Bytes]
      BY <2>2, <3>1, PageType
    <3> HIDE DEF page
    <3>3. NoHandle.pg \in [1 .. MaxPage -> Bytes] /\ NoHandle \in Buffers
      BY ZerosType DEF Buffers
    <3>4. Over(NoHandle.pg, page) \in [1 .. MaxPage -> Bytes]
      BY <3>1, <3>2, <3>3, OverHead
    <3> QED
      BY <3>3, <3>4 DEF Buffers
  <2> HIDE DEF buf
  <2>6. /\ of \in [Handles -> Streams \cup {NoStream}] /\ refs \in [Streams -> Nat]
        /\ streams \in [Streams -> Opened]
        /\ handles \in [Handles -> Buffers] /\ spoiled \in [Handles -> BOOLEAN]
        /\ late \in [Handles -> BOOLEAN]
    BY DEF ReadInv, FileInv, StoreTypes
  <2>7. StoreTypes'
    BY <1>1, <1>3, <2>4, <2>5, <2>6 DEF ReadInv, StoreTypes
  <2>8. \A g \in Streams \ {f} : streams'[g] = streams[g] /\ refs'[g] = refs[g]
    BY <1>3, <2>6
  <2>9. streams'[f] = new /\ of'[h] = f /\ spoiled'[h] = TRUE
    BY <1>3, <2>6
  <2>10. /\ new.place = place /\ new.version = header.version /\ new.key = header.key
         /\ new.writable = writable
    OBVIOUS
  <2> HIDE DEF new
  <2>11. Stored'
    BY <1>1 DEF ReadInv, Stored
  <2>12. Known'
    <3> SUFFICES ASSUME NEW g \in Streams, refs'[g] > 0
                 PROVE  /\ streams'[g].place \in Places /\ Header(disk[streams'[g].place].bytes).ok
                        /\ streams'[g].version = Header(disk[streams'[g].place].bytes).version
                        /\ streams'[g].key = Header(disk[streams'[g].place].bytes).key
      BY <1>1 DEF Known
    <3>1. CASE g = f
      BY <1>3, <2>1, <2>9, <2>10, <3>1
    <3>2. CASE g # f
      BY <2>8, <3>2 DEF ReadInv, Known
    <3> QED
      BY <3>1, <3>2
  <2>13. OneWriter'
    <3>1. \A g \in Streams : refs[g] > 0 /\ streams[g].place = place
                                => ~writable /\ ~streams[g].writable
      BY <1>3 DEF Alone
    <3> QED
      BY <2>8, <2>9, <2>10, <3>1 DEF ReadInv, OneWriter
  <2>14. \A g \in Handles : BufferFresh(g)'
    <3> TAKE g \in Handles
    <3>1. CASE g = h
      BY <2>9, <3>1 DEF BufferFresh
    <3>2. CASE g # h
      <4>1. /\ of'[g] = of[g] /\ handles'[g] = handles[g]
            /\ spoiled'[g] = spoiled[g] /\ late'[g] = late[g]
        BY <1>3, <2>6, <3>2
      <4>2. of[g] # NoStream => of[g] \in Streams \ {f}
        BY <1>1, OpenCounted DEF ReadInv
      <4> QED
        BY <1>1, <2>8, <4>1, <4>2, BufferStays DEF ReadInv
    <3> QED
      BY <3>1, <3>2
  <2> QED
    BY <1>1, <2>7, <2>11, <2>12, <2>13, <2>14 DEF ReadInv
<1> QED
  BY <1>2, <1>3 DEF Open

LEMMA CloseFresh ==
  ASSUME ReadInv, FileInv', NEW h \in Handles, mdb_close(h)
  PROVE  ReadInv'
<1> DEFINE f == of[h]
<1>1. /\ of[h] # NoStream /\ disk' = disk /\ plain' = plain /\ rowFresh' = rowFresh
      /\ refs' = [refs EXCEPT ![f] = IF refs[f] > 1 THEN refs[f] - 1 ELSE 0]
      /\ streams' = [streams EXCEPT ![f] = IF refs[f] > 1 THEN @ ELSE Closed]
      /\ of' = [of EXCEPT ![h] = NoStream] /\ handles' = [handles EXCEPT ![h] = NoHandle]
      /\ spoiled' = [spoiled EXCEPT ![h] = FALSE] /\ late' = [late EXCEPT ![h] = FALSE]
  BY DEF mdb_close, IsOpen, Release
<1>2. /\ of \in [Handles -> Streams \cup {NoStream}] /\ refs \in [Streams -> Nat]
      /\ streams \in [Streams -> Opened]
      /\ handles \in [Handles -> Buffers] /\ spoiled \in [Handles -> BOOLEAN]
      /\ late \in [Handles -> BOOLEAN]
  BY DEF ReadInv, FileInv, StoreTypes
<1>3. f \in Streams /\ refs[f] \in Nat /\ refs[f] > 0
  BY <1>1, OpenCounted DEF ReadInv
<1> HIDE DEF f
<1>4. /\ \A g \in Streams \ {f} : streams'[g] = streams[g] /\ refs'[g] = refs[g]
      /\ refs'[f] = IF refs[f] > 1 THEN refs[f] - 1 ELSE 0
      /\ streams'[f] = IF refs[f] > 1 THEN streams[f] ELSE Closed
  BY <1>1, <1>2, <1>3
<1>5. \A g \in Streams : refs'[g] > 0 => streams'[g] = streams[g] /\ refs[g] > 0
  BY <1>3, <1>4
<1>6. StoreTypes'
  <2>1. streams' \in [Streams -> Opened]
    BY <1>1, <1>2, <1>3, ZerosType
  <2> QED
    BY <1>1, <1>2, <2>1, ZerosType DEF ReadInv, StoreTypes
<1>7. Stored'
  BY <1>1 DEF ReadInv, Stored
<1>8. Known'
  BY <1>1, <1>5 DEF ReadInv, Known
<1>9. OneWriter'
  BY <1>5 DEF ReadInv, OneWriter
<1>10. \A g \in Handles : BufferFresh(g)'
  <2> TAKE g \in Handles
  <2>1. CASE g = h
    BY <1>1, <1>2, <2>1 DEF BufferFresh
  <2>2. CASE g # h
    <3>1. /\ of'[g] = of[g] /\ handles'[g] = handles[g]
          /\ spoiled'[g] = spoiled[g] /\ late'[g] = late[g]
      BY <1>1, <1>2, <2>2
    <3>2. of'[g] # NoStream => of'[g] \in Streams /\ refs'[of'[g]] > 0
      <4> SUFFICES ASSUME of'[g] # NoStream PROVE of'[g] \in Streams /\ refs'[of'[g]] > 0
        OBVIOUS
      <4>1. PICK k \in Streams : k = of'[g]
        BY DEF FileInv
      <4>2. refs'[k] = Cardinality(Sharers(k)')
        BY DEF FileInv, HandlesCounted
      <4>3. g \in Sharers(k)' /\ Sharers(k)' \subseteq Handles
        BY <4>1 DEF Sharers
      <4>4. IsFiniteSet(Sharers(k)')
        BY <4>3, StreamAssumption, FS_Subset
      <4>5. Cardinality(Sharers(k)') # 0 /\ Cardinality(Sharers(k)') \in Nat
        BY <4>3, <4>4, FS_EmptySet, FS_CardinalityType
      <4> QED
        BY <4>1, <4>2, <4>5
    <3>3. of[g] # NoStream => streams'[of[g]] = streams[of[g]]
      BY <1>5, <3>1, <3>2
    <3> QED
      BY <1>1, <3>1, <3>3, BufferStays DEF ReadInv
  <2> QED
    BY <2>1, <2>2
<1> QED
  BY <1>1, <1>6, <1>7, <1>8, <1>9, <1>10 DEF ReadInv

LEMMA CloneFresh ==
  ASSUME ReadInv, FileInv', NEW h \in Handles, NEW g \in Handles, mdb_clone_handle(h, g)
  PROVE  ReadInv'
<1>1. /\ of[h] # NoStream /\ of[g] = NoStream
      /\ disk' = disk /\ plain' = plain /\ streams' = streams /\ rowFresh' = rowFresh
      /\ handles' = [handles EXCEPT ![g] = handles[h]]
      /\ refs' = [refs EXCEPT ![of[h]] = refs[of[h]] + 1]
      /\ of' = [of EXCEPT ![g] = of[h]]
      /\ spoiled' = [spoiled EXCEPT ![g] = spoiled[h]] /\ late' = [late EXCEPT ![g] = late[h]]
  BY DEF mdb_clone_handle, IsOpen
<1>2. /\ of \in [Handles -> Streams \cup {NoStream}] /\ refs \in [Streams -> Nat]
      /\ handles \in [Handles -> Buffers] /\ spoiled \in [Handles -> BOOLEAN]
      /\ late \in [Handles -> BOOLEAN]
  BY DEF ReadInv, FileInv, StoreTypes
<1>3. of[h] \in Streams /\ refs[of[h]] > 0
  BY <1>1, OpenCounted DEF ReadInv
<1>4. \A f \in Streams : refs'[f] > 0 => refs[f] > 0
  BY <1>1, <1>2, <1>3
<1>5. StoreTypes'
  BY <1>1, <1>2 DEF ReadInv, StoreTypes
<1>6. Stored' /\ Known' /\ OneWriter'
  BY <1>1, <1>4 DEF ReadInv, Stored, Known, OneWriter
<1>7. \A k \in Handles : BufferFresh(k)'
  <2> TAKE k \in Handles
  <2>1. CASE k = g
    <3>1. /\ of'[g] = of[h] /\ handles'[g] = handles[h]
          /\ spoiled'[g] = spoiled[h] /\ late'[g] = late[h]
      BY <1>1, <1>2
    <3> QED
      BY <1>1, <2>1, <3>1 DEF ReadInv, BufferFresh
  <2>2. CASE k # g
    <3>1. /\ of'[k] = of[k] /\ handles'[k] = handles[k]
          /\ spoiled'[k] = spoiled[k] /\ late'[k] = late[k]
      BY <1>1, <1>2, <2>2
    <3> QED
      BY <1>1, <3>1, BufferStays DEF ReadInv
  <2> QED
    BY <2>1, <2>2
<1> QED
  BY <1>1, <1>5, <1>6, <1>7 DEF ReadInv

\* An element of a sequence is replaced.
LEMMA ElementPut ==
  ASSUME NEW T, NEW s \in Seq(T), NEW k, NEW x \in T
  PROVE  /\ [s EXCEPT ![k] = x] \in Seq(T) /\ DOMAIN [s EXCEPT ![k] = x] = DOMAIN s
         /\ \A i \in DOMAIN s : [s EXCEPT ![k] = x][i] = IF i = k THEN x ELSE s[i]
<1> DEFINE t == [s EXCEPT ![k] = x]
<1>1. PICK n \in Nat : s \in [1 .. n -> T]
  OBVIOUS
<1>2. t \in [1 .. n -> T] /\ DOMAIN t = DOMAIN s
  BY <1>1
<1>3. \A i \in DOMAIN s : t[i] = IF i = k THEN x ELSE s[i]
  BY <1>1
<1> HIDE DEF t
<1>4. t \in Seq(T)
  BY <1>2
<1> QED
  BY <1>2, <1>3, <1>4 DEF t

LEMMA ReadFresh ==
  ASSUME ReadInv, FileInv', NEW h \in Handles, NEW pg \in Pages, NEW fault \in Faulty,
         mdb_read_pg(h, pg, fault)
  PROVE  ReadInv'
<1>0. of[h] # NoStream /\ pg \in Nat \ {0}
  BY DEF mdb_read_pg, IsOpen, Pages
<1>1. /\ disk' = disk /\ plain' = plain /\ refs' = refs /\ of' = of /\ rowFresh' = rowFresh
  BY DEF mdb_read_pg
<1>2. CASE UNCHANGED <<handles, streams, spoiled, late>>
  <2>1. SameFiles
    BY <1>2 DEF SameFiles, ReadInv, StoreTypes
  <2>2. \A g \in Handles : BufferFresh(g)'
    BY <1>1, <1>2 DEF ReadInv, BufferFresh
  <2> QED
    BY <1>1, <1>2, <2>1, <2>2, FilesStay DEF ReadInv, StoreTypes
<1>3. CASE LET r == PageRead(h, pg, handles[h].pg, fault)
           IN  /\ handles' = [handles EXCEPT ![h].pg = r.buf, ![h].cur = pg]
               /\ streams' = [streams EXCEPT ![of[h]].err = r.err]
               /\ spoiled' = [spoiled EXCEPT ![h] = ~r.ok]
               /\ late' = [late EXCEPT ![h] = FALSE]
  <2> DEFINE r == PageRead(h, pg, handles[h].pg, fault)
             b == [handles[h] EXCEPT !.pg = r.buf, !.cur = pg]
  <2>1. /\ of \in [Handles -> Streams \cup {NoStream}]
        /\ streams \in [Streams -> Opened]
        /\ handles \in [Handles -> Buffers] /\ spoiled \in [Handles -> BOOLEAN]
        /\ late \in [Handles -> BOOLEAN]
    BY DEF ReadInv, FileInv, StoreTypes
  <2>2. handles[h] \in Buffers /\ handles[h].pg \in [1 .. MaxPage -> Bytes]
    BY <2>1 DEF Buffers
  <2>3. /\ r.ok \in BOOLEAN /\ r.err \in BOOLEAN /\ r.buf \in [1 .. MaxPage -> Bytes]
        /\ r.ok => IsPage(plain[streams[of[h]].place], pg, PageSize(streams[of[h]].version), r.buf)
    BY <1>0, <2>2, PageReadIs
  <2>4. /\ handles' = [handles EXCEPT ![h].pg = r.buf, ![h].cur = pg]
        /\ streams' = [streams EXCEPT ![of[h]].err = r.err]
        /\ spoiled' = [spoiled EXCEPT ![h] = ~r.ok] /\ late' = [late EXCEPT ![h] = FALSE]
    BY <1>3
  <2> HIDE DEF r
  <2>5. /\ handles'[h] = b /\ spoiled'[h] = ~r.ok
        /\ \A g \in Handles \ {h} :
             handles'[g] = handles[g] /\ spoiled'[g] = spoiled[g] /\ late'[g] = late[g]
    BY <2>1, <2>4
  <2>6. b \in Buffers /\ b.cur = pg /\ b.pg = r.buf
    BY <1>0, <2>2, <2>3 DEF Buffers
  <2> HIDE DEF b
  <2>7. /\ handles' \in [Handles -> Buffers] /\ spoiled' \in [Handles -> BOOLEAN]
        /\ late' \in [Handles -> BOOLEAN]
    <3>1. \A g \in Handles : handles'[g] \in Buffers
      BY <2>1, <2>5, <2>6
    <3>2. DOMAIN handles' = Handles /\ handles' = [g \in Handles |-> handles'[g]]
      BY <2>1, <2>4
    <3>3. (~r.ok) \in BOOLEAN
      OBVIOUS
    <3> QED
      BY <2>1, <2>4, <3>1, <3>2, <3>3
  <2>8. of[h] \in Streams
    BY <1>0, OpenCounted DEF ReadInv
  <2>9. SameFiles
    BY <2>1, <2>3, <2>4, <2>8, ErrOnly
  <2>10. StoreTypes'
    BY <1>1, <2>7, <2>9 DEF ReadInv, StoreTypes, SameFiles
  <2>11. \A g \in Handles : BufferFresh(g)'
    <3> TAKE g \in Handles
    <3>1. of[g] # NoStream => of[g] \in Streams
      BY <2>1
    <3>2. CASE g = h
      <4>1. of'[h] = of[h] /\ plain' = plain
            /\ streams'[of[h]].place = streams[of[h]].place
            /\ streams'[of[h]].version = streams[of[h]].version
        BY <1>1, <2>8, <2>9 DEF SameFiles
      <4>2. r.ok => BufferFresh(h)'
        BY <1>0, <2>3, <2>5, <2>6, <4>1 DEF BufferFresh
      <4>3. ~r.ok => BufferFresh(h)'
        BY <2>5 DEF BufferFresh
      <4> QED
        BY <3>2, <4>2, <4>3
    <3>3. CASE g # h
      BY <1>1, <2>5, <2>9, <3>1, <3>3, BufferStays DEF ReadInv, SameFiles
    <3> QED
      BY <3>2, <3>3
  <2> QED
    BY <1>1, <2>9, <2>10, <2>11, FilesStay DEF ReadInv
<1> QED
  BY <1>2, <1>3 DEF mdb_read_pg

LEMMA FindRowFresh ==
  ASSUME ReadInv, FileInv', NEW h \in Handles, NEW pg \in Pages, mdb_find_pg_row(h, pg)
  PROVE  ReadInv'
<1> DEFINE r == PageRead(h, pg, Zeros(MaxPage), -1)
           after == SwapBack(mdb_swap_pgbuf([pg |-> handles[h].pg, alt |-> r.buf]))
<1>0. of[h] # NoStream /\ pg \in Nat \ {0}
  BY DEF mdb_find_pg_row, IsOpen, Pages
<1>1. /\ disk' = disk /\ plain' = plain /\ refs' = refs /\ of' = of
      /\ spoiled' = spoiled /\ late' = late
      /\ handles' = [handles EXCEPT ![h].pg = IF r.ok THEN after.pg ELSE @]
      /\ streams' = [streams EXCEPT ![of[h]].err = r.err]
      /\ rowFresh' = (r.ok => Fresh(h, pg, after.alt))
  BY DEF mdb_find_pg_row
<1>2. /\ of \in [Handles -> Streams \cup {NoStream}]
      /\ streams \in [Streams -> Opened] /\ handles \in [Handles -> Buffers]
  BY DEF ReadInv, FileInv, StoreTypes
<1>3. /\ r.ok \in BOOLEAN /\ r.err \in BOOLEAN
      /\ r.ok => IsPage(plain[streams[of[h]].place], pg, PageSize(streams[of[h]].version), r.buf)
  BY <1>0, ZerosType, PageReadIs
<1>4. after.pg = handles[h].pg /\ after.alt = r.buf
  BY DEF SwapBack, mdb_swap_pgbuf
<1> HIDE DEF after, r
<1>5. handles' = handles
  <2>1. handles' = [handles EXCEPT ![h] = [handles[h] EXCEPT !.pg = IF r.ok THEN after.pg ELSE handles[h].pg]]
    BY <1>1
  <2>2. (IF r.ok THEN after.pg ELSE handles[h].pg) = handles[h].pg
    BY <1>4
  <2>3. [handles[h] EXCEPT !.pg = handles[h].pg] = handles[h]
    BY <1>2 DEF Buffers
  <2> QED
    BY <1>2, <2>1, <2>2, <2>3
<1>6. rowFresh' = TRUE
  <2>1. r.ok => Fresh(h, pg, after.alt)
    BY <1>3, <1>4, FreshIs
  <2> QED
    BY <1>1, <2>1, Zenon
<1>7. of[h] \in Streams
  BY <1>0, OpenCounted DEF ReadInv
<1>8. SameFiles
  BY <1>1, <1>2, <1>3, <1>7, ErrOnly
<1>9. \A g \in Handles : BufferFresh(g)'
  <2> TAKE g \in Handles
  <2>1. of[g] # NoStream => of[g] \in Streams
    BY <1>2
  <2> QED
    BY <1>1, <1>5, <1>8, <2>1, BufferStays DEF ReadInv, SameFiles
<1>10. StoreTypes'
  BY <1>1, <1>5, <1>8 DEF ReadInv, StoreTypes, SameFiles
<1> QED
  BY <1>1, <1>6, <1>8, <1>9, <1>10, FilesStay DEF ReadInv

LEMMA PutFresh ==
  ASSUME ReadInv, FileInv', NEW h \in Handles, Put(h, 1, 1)
  PROVE  ReadInv'
<1>1. /\ disk' = disk /\ plain' = plain /\ refs' = refs /\ of' = of /\ streams' = streams
      /\ rowFresh' = rowFresh /\ late' = late
      /\ handles' = [handles EXCEPT ![h].pg[1] = 1] /\ spoiled' = [spoiled EXCEPT ![h] = TRUE]
  BY DEF Put
<1>2. /\ streams \in [Streams -> Opened] /\ handles \in [Handles -> Buffers]
      /\ spoiled \in [Handles -> BOOLEAN]
  BY DEF ReadInv, StoreTypes
<1> DEFINE p == [handles[h].pg EXCEPT ![1] = 1]
           b == [handles[h] EXCEPT !.pg = p]
<1>3. b \in Buffers
  <2>1. 1 \in Bytes
    BY ByteFacts DEF Bytes
  <2>2. handles[h] \in Buffers /\ handles[h].pg \in [1 .. MaxPage -> Bytes]
    BY <1>2 DEF Buffers
  <2>3. p \in [1 .. MaxPage -> Bytes]
    BY <2>1, <2>2
  <2> HIDE DEF p
  <2> QED
    BY <2>2, <2>3 DEF Buffers
<1>4. handles' = [handles EXCEPT ![h] = b]
  BY <1>1
<1> HIDE DEF b
<1>5. StoreTypes'
  BY <1>1, <1>2, <1>3, <1>4 DEF ReadInv, StoreTypes
<1>6. SameFiles
  BY <1>1, <1>2 DEF SameFiles
<1>7. \A g \in Handles : BufferFresh(g)'
  <2> TAKE g \in Handles
  <2>1. CASE g = h
    BY <1>1, <1>2, <2>1 DEF BufferFresh
  <2>2. CASE g # h
    <3>1. handles'[g] = handles[g] /\ spoiled'[g] = spoiled[g] /\ late'[g] = late[g]
      BY <1>1, <1>2, <1>4, <2>2
    <3> QED
      BY <1>1, <3>1, BufferStays DEF ReadInv
  <2> QED
    BY <2>1, <2>2
<1> QED
  BY <1>1, <1>5, <1>6, <1>7, FilesStay DEF ReadInv

LEMMA WriteFresh ==
  ASSUME ReadInv, FileInv', NEW h \in Handles, NEW pg \in Pages, mdb_write_pg(h, pg)
  PROVE  ReadInv'
<1> DEFINE f     == streams[of[h]]
           place == f.place
           size  == PageSize(f.version)
           page  == SubSeq(handles[h].pg, 1, size)
           code  == Deciphered(f, pg, page)
           bytes == disk[place].bytes
           new   == Written(bytes, pg, size, code)
<1>0. of[h] # NoStream /\ pg \in Nat \ {0} /\ handles[h].cur = pg
  BY DEF mdb_write_pg, IsOpen, Pages
<1>1. refs' = refs /\ of' = of /\ handles' = handles /\ rowFresh' = rowFresh
  BY DEF mdb_write_pg
<1>2. /\ of \in [Handles -> Streams \cup {NoStream}]
      /\ streams \in [Streams -> Opened] /\ handles \in [Handles -> Buffers]
      /\ spoiled \in [Handles -> BOOLEAN] /\ late \in [Handles -> BOOLEAN]
      /\ disk \in [Places -> DiskFiles]
      /\ plain \in [Places -> Seq(Seq(Bytes))]
  BY DEF ReadInv, FileInv, StoreTypes
<1>3. of[h] \in Streams /\ refs[of[h]] > 0
  BY <1>0, OpenCounted DEF ReadInv
<1>4. ASSUME UNCHANGED <<disk, plain, spoiled, late>>, SameFiles PROVE ReadInv'
  <2>1. \A g \in Handles : BufferFresh(g)'
    <3> TAKE g \in Handles
    <3>1. of[g] # NoStream => of[g] \in Streams
      BY <1>2
    <3> QED
      BY <1>1, <1>4, <3>1, BufferStays DEF ReadInv, SameFiles
  <2>2. StoreTypes'
    BY <1>1, <1>4 DEF ReadInv, StoreTypes, SameFiles
  <2> QED
    BY <1>1, <1>4, <2>1, <2>2, FilesStay DEF ReadInv
<1>5. CASE UNCHANGED <<disk, plain, streams, spoiled, late>>
  BY <1>2, <1>4, <1>5 DEF SameFiles
<1>6. CASE /\ streams' = [streams EXCEPT ![of[h]].err = TRUE]
           /\ UNCHANGED <<disk, plain, spoiled, late>>
  BY <1>2, <1>3, <1>4, <1>6, ErrOnly
<1>7. CASE /\ ~(Len(bytes) < pg * size + size) /\ f.writable
           /\ disk' = [disk EXCEPT ![place].bytes = new]
           /\ plain' = [plain EXCEPT ![place][pg + 1] = page]
           /\ spoiled' = [spoiled EXCEPT ![h] = FALSE]
           /\ late' = [g \in Handles |->
                g # h /\ (late[g] \/ (of[g] = of[h] /\ handles[g].cur = pg))]
           /\ UNCHANGED streams
  <2>1. /\ f \in Opened /\ place \in Places /\ Header(bytes).ok
        /\ f.version = Header(bytes).version /\ f.key = Header(bytes).key
    BY <1>2, <1>3 DEF ReadInv, Known
  <2>2. f.version \in {0, 1} /\ f.key \in KeySet
    BY <2>1 DEF Opened
  <2>3. /\ disk[place] \in DiskFiles /\ bytes \in Seq(Bytes)
        /\ plain[place] \in Seq(Seq(Bytes)) /\ Holds(bytes, plain[place])
    BY <1>2, <2>1 DEF ReadInv, Stored, DiskFiles
  <2>4. size \in Nat /\ size >= Jet3Size /\ size \in 0 .. MaxPage /\ MaxPage \in Nat
    <3>1. size \in Jet3Size .. MaxPage /\ size \in Nat /\ MaxPage \in Nat
      BY <2>2, SizeType
    <3> QED
      BY <3>1, SizeType
  <2> HIDE DEF f, size, place, bytes
  <2>5. page \in [1 .. size -> Bytes]
    <3>1. handles[h].pg \in [1 .. MaxPage -> Bytes]
      BY <1>2 DEF Buffers
    <3>2. \A i \in 1 .. size : handles[h].pg[i] \in Bytes
      BY <2>4, <3>1
    <3>3. page = [i \in 1 .. size |-> handles[h].pg[i]]
      BY <2>4, <3>2, FirstBytes
    <3> QED
      BY <3>2, <3>3
  <2>6. SubSeq(handles[h].pg, 1, size) = page
    OBVIOUS
  <2> HIDE DEF page
  <2>7. code \in [1 .. size -> Bytes] /\ Deciphered(f, pg, code) = page
    BY <1>0, <2>2, <2>4, <2>5, DecipheredTwice
  <2> HIDE DEF code
  <2>8. /\ new \in Seq(Bytes) /\ Page(new, pg, size) = code
        /\ \A q \in Nat : q # pg => Page(new, q, size) = Page(bytes, q, size)
    <3>1. Len(bytes) >= pg * size + size
      <4>1. pg * size \in Nat /\ Len(bytes) \in Nat
        BY <1>0, <2>3, <2>4
      <4> QED
        BY <1>7, <2>4, <4>1
    <3> QED
      BY <1>0, <2>3, <2>4, <2>7, <3>1, PageWritten
  <2>9. Header(new) = Header(bytes)
    BY <1>0, <2>3, <2>4, HeaderKept
  <2> HIDE DEF new
  <2> DEFINE d == [disk[place] EXCEPT !.bytes = new]
             pages == [plain[place] EXCEPT ![pg + 1] = page]
  <2>10. disk' = [disk EXCEPT ![place] = d] /\ plain' = [plain EXCEPT ![place] = pages]
    BY <1>2, <1>7, <2>1 DEF bytes
  <2>11. d \in DiskFiles /\ d.bytes = new
    BY <2>3, <2>8 DEF DiskFiles
  <2>12. /\ pages \in Seq(Seq(Bytes)) /\ DOMAIN pages = DOMAIN plain[place]
         /\ \A i \in DOMAIN plain[place] : pages[i] = IF i = pg + 1 THEN page ELSE plain[place][i]
    <3>1. page \in Seq(Bytes)
      BY <2>4, <2>5
    <3> QED
      BY <2>3, <3>1, ElementPut
  <2> HIDE DEF d, pages
  <2>13. /\ disk'[place].bytes = new /\ plain'[place] = pages
         /\ \A p \in Places \ {place} : disk'[p] = disk[p] /\ plain'[p] = plain[p]
    BY <1>2, <2>1, <2>10, <2>11
  <2>14. \A p \in Places : Header(disk'[p].bytes) = Header(disk[p].bytes)
    BY <2>9, <2>13 DEF bytes
  <2>15. StoreTypes'
    <3>1. disk' \in [Places -> DiskFiles] /\ plain' \in [Places -> Seq(Seq(Bytes))]
      BY <1>2, <2>10, <2>11, <2>12
    <3>2. spoiled' \in [Handles -> BOOLEAN] /\ late' \in [Handles -> BOOLEAN]
      BY <1>2, <1>7
    <3> QED
      BY <1>1, <1>2, <1>7, <3>1, <3>2 DEF StoreTypes
  <2>16. Holds(new, pages)
    <3>1. Header(new) = Header(bytes) /\ Header(bytes).version = f.version
      BY <2>1, <2>9
    <3>2. PageSize(Header(new).version) = size
      BY <3>1 DEF size
    <3>3. \A n, b : Deciphered(Header(new), n, b) = Deciphered(f, n, b)
      BY <2>1, <3>1 DEF Deciphered
    <3>4. \A n, b : Deciphered(Header(bytes), n, b) = Deciphered(f, n, b)
      BY <2>1 DEF Deciphered
    <3>5. ASSUME NEW i \in DOMAIN pages \ {1}
          PROVE  pages[i] = Deciphered(f, i - 1, Page(new, i - 1, size))
      <4>1. i \in DOMAIN plain[place] /\ i \in Nat /\ i - 1 \in Nat
        BY <2>3, <2>12
      <4>2. plain[place][i] = Deciphered(f, i - 1, Page(bytes, i - 1, size))
        BY <2>1, <2>3, <3>1, <3>2, <3>4, <4>1 DEF Holds
      <4>3. CASE i = pg + 1
        <5>1. i - 1 = pg
          BY <1>0, <4>3
        <5> QED
          BY <2>7, <2>8, <2>12, <4>1, <4>3, <5>1
      <4>4. CASE i # pg + 1
        <5>1. i - 1 # pg
          BY <1>0, <4>1, <4>4
        <5> QED
          BY <2>8, <2>12, <4>1, <4>2, <4>4, <5>1
      <4> QED
        BY <4>3, <4>4
    <3> QED
      BY <3>2, <3>3, <3>5 DEF Holds
  <2>17. Stored'
    <3> SUFFICES ASSUME NEW p \in Places PROVE Holds(disk'[p].bytes, plain'[p])
      BY DEF Stored
    <3>1. CASE p = place
      BY <2>13, <2>16, <3>1
    <3>2. CASE p # place
      BY <2>13, <3>2 DEF ReadInv, Stored
    <3> QED
      BY <3>1, <3>2
  <2>18. Known'
    BY <1>1, <1>7, <2>14 DEF ReadInv, Known
  <2>19. OneWriter'
    BY <1>1, <1>7 DEF ReadInv, OneWriter
  <2>20. \A g \in Handles : BufferFresh(g)'
    <3> SUFFICES ASSUME NEW g \in Handles, of[g] # NoStream, ~spoiled'[g], ~late'[g]
                 PROVE  /\ handles[g].cur > 0
                        /\ IsPage(plain'[streams[of[g]].place], handles[g].cur,
                                  PageSize(streams[of[g]].version), handles[g].pg)
      BY <1>1, <1>7 DEF BufferFresh
    <3>1. of[g] \in Streams /\ refs[of[g]] > 0
      BY OpenCounted DEF ReadInv
    <3>2. g # h => /\ ~spoiled[g] /\ ~late[g]
                   /\ ~(of[g] = of[h] /\ handles[g].cur = pg)
      BY <1>2, <1>7
    <3>3. CASE g = h
      <4>2. IsPage(pages, pg, size, handles[h].pg)
        BY <1>0, <2>6, <2>12 DEF IsPage
      <4> QED
        BY <1>0, <2>13, <3>3, <4>2 DEF f, place, size
    <3>4. CASE g # h
      <4>1. ~spoiled[g] /\ ~late[g] /\ ~(of[g] = of[h] /\ handles[g].cur = pg)
        BY <3>2, <3>4
      <4>2. /\ handles[g].cur > 0
            /\ IsPage(plain[streams[of[g]].place], handles[g].cur,
                      PageSize(streams[of[g]].version), handles[g].pg)
        BY <4>1 DEF ReadInv, BufferFresh
      <4>3. handles[g].cur \in Nat
        BY <1>2 DEF Buffers
      <4>4. CASE of[g] = of[h]
        <5>1. handles[g].cur # pg /\ handles[g].cur + 1 # pg + 1
          BY <1>0, <4>1, <4>3, <4>4
        <5>2. streams[of[g]].place = place
          BY <4>4 DEF f, place
        <5>3. IsPage(pages, handles[g].cur, PageSize(streams[of[g]].version), handles[g].pg)
          BY <2>12, <4>2, <5>1, <5>2 DEF IsPage
        <5> QED
          BY <2>13, <4>2, <5>2, <5>3
      <4>5. CASE of[g] # of[h]
        <5>1. streams[of[g]].place # place
          BY <1>3, <1>7, <3>1, <4>5 DEF ReadInv, OneWriter, f, place
        <5>2. streams[of[g]].place \in Places
          BY <3>1 DEF ReadInv, Known
        <5> QED
          BY <2>13, <4>2, <5>1, <5>2
      <4> QED
        BY <4>4, <4>5
    <3> QED
      BY <3>3, <3>4
  <2> QED
    BY <1>1, <2>15, <2>17, <2>18, <2>19, <2>20 DEF ReadInv
<1> QED
  <2>1. Stream(h) = f /\ Size(h) = size
    BY DEF Stream, Size
  <2> QED
    BY <1>5, <1>6, <1>7, <2>1 DEF mdb_write_pg, Written

LEMMA NextReadInv == ReadInv /\ [FileNext]_fileVars => ReadInv'
<1> SUFFICES ASSUME ReadInv, [FileNext]_fileVars PROVE ReadInv'
  OBVIOUS
<1>1. FileInv'
  BY NextFileInv DEF ReadInv
<1>2. CASE UNCHANGED fileVars
  <2>1. SameFiles
    BY <1>2 DEF fileVars, SameFiles, ReadInv, StoreTypes
  <2>2. StoreTypes' /\ \A h \in Handles : BufferFresh(h)'
    BY <1>2 DEF fileVars, ReadInv, StoreTypes, BufferFresh
  <2> QED
    BY <1>1, <1>2, <2>1, <2>2, FilesStay DEF fileVars, ReadInv
<1> QED
  BY <1>1, <1>2, OpenFresh, CloseFresh, CloneFresh, ReadFresh, FindRowFresh, PutFresh, WriteFresh
     DEF FileNext

\* A page that a read brings from the file is the page as it was last written,
\* deciphered, whichever clone of the handle wrote it, and the buffer goes on holding it
\* until it is edited or another clone writes the page; so does the page in which
\* mdb_find_pg_row finds a row.  A buffer with the header only, or filled by a read that
\* failed, is no such page.  For any number of handles, files, pages and keys, and bytes
\* of any width (mdb_read_pg, mdb_write_pg, mdb_clone_handle, mdbi_rc4).
THEOREM ReadsAlwaysFresh == FileSpec => []ReadsFresh
BY InitReadInv, NextReadInv, ReadInvFresh, PTL DEF FileSpec

-----------------------------------------------------------------------------
(* Pages *)

Row == [start : Int, flag : BOOLEAN, what : Rows \cup {Damaged}]
TempPage == [free : Int, rows : Seq(Row)]

PageInv == /\ temp \in Seq(TempPage)
        /\ added \in Nat
        /\ TempSound

\* A page without rows is sound.
LEMMA NewPageSound ==
  mdb_new_data_pg \in TempPage /\ PageSound(mdb_new_data_pg)
    /\ mdb_new_data_pg.free = PgSize - Rco - 2
<1> DEFINE page == mdb_new_data_pg
<1>1. page.rows = <<>> /\ page.free = PgSize - Rco - 2
  BY DEF mdb_new_data_pg
<1>2. Len(page.rows) = 0 /\ DOMAIN page.rows = {} /\ Bottom(page) = PgSize
  BY <1>1 DEF Bottom
<1>3. page.free \in Int /\ page.rows \in Seq(Row)
  BY <1>1, PageAssumption
<1>4. page \in TempPage
  BY <1>1, <1>3 DEF mdb_new_data_pg, TempPage
<1>5. SlotsEnd(Len(page.rows)) = Rco + 2
  BY <1>2, PageAssumption DEF SlotsEnd
<1> QED
  BY <1>1, <1>2, <1>4, <1>5, PageAssumption DEF PageSound

\* A row that has place, with its slot, leaves the page sound.
LEMMA WithRowSound ==
  ASSUME NEW page \in TempPage, PageSound(page), NEW what \in Rows, NEW size \in Sizes,
         HasPlace(page, size)
  PROVE  WithRow(page, what, size) \in TempPage /\ PageSound(WithRow(page, what, size))
<1> DEFINE n   == Len(page.rows) + 1
           pos == Bottom(page) - size
           row == [start |-> pos, flag |-> FALSE,
                   what |-> IF pos < SlotsEnd(n) THEN Damaged ELSE what]
           rows1 == Append(page.rows, row)
           page1 == WithRow(page, what, size)
<1>1. /\ page.rows \in Seq(Row) /\ page.free \in Int /\ Len(page.rows) \in Nat
      /\ DOMAIN page.rows = 1 .. Len(page.rows)
  BY DEF TempPage
<1>2. Bottom(page) \in Int /\ size \in Nat /\ size > 0 /\ Rco \in Nat /\ PgSize \in Nat
  <2>1. CASE page.rows = <<>>
    BY <2>1, PageAssumption DEF Bottom
  <2>2. CASE page.rows # <<>>
    <3>1. page.rows[Len(page.rows)] \in Row
      BY <1>1, <2>2
    <3> QED
      BY <2>2, <3>1, PageAssumption DEF Bottom, Row
  <2> QED
    BY <2>1, <2>2
<1>3. page1 = [free |-> pos - SlotsEnd(n), rows |-> rows1]
  BY DEF WithRow
<1>4. page1.free = pos - SlotsEnd(n) /\ page1.rows = rows1
  BY <1>3
<1>5. pos - SlotsEnd(n) >= 0 /\ pos - SlotsEnd(n) \in Int /\ pos \in Int
  <2>1. page.free = Bottom(page) - SlotsEnd(Len(page.rows)) /\ page.free >= size + 2
    BY DEF PageSound, HasPlace
  <2>2. SlotsEnd(n) = SlotsEnd(Len(page.rows)) + 2
    <3>1. \A k \in Nat : SlotsEnd(k + 1) = SlotsEnd(k) + 2
      BY <1>2 DEF SlotsEnd
    <3> QED
      BY <1>1, <3>1
  <2>3. SlotsEnd(Len(page.rows)) \in Int
    BY <1>1, <1>2 DEF SlotsEnd
  <2> QED
    BY <1>2, <2>1, <2>2, <2>3
<1>6. row.what = what /\ row.start = pos /\ ~row.flag /\ row \in Row
  <2>1. SlotsEnd(n) \in Int
    BY <1>1, <1>2 DEF SlotsEnd
  <2>2. ~(pos < SlotsEnd(n))
    BY <1>5, <2>1
  <2> QED
    BY <1>5, <2>2 DEF Row
<1> HIDE DEF row, pos
<1>7. /\ rows1 \in Seq(Row) /\ Len(rows1) = n /\ DOMAIN rows1 = 1 .. n
      /\ rows1[n] = row
      /\ \A i \in 1 .. Len(page.rows) : rows1[i] = page.rows[i]
  BY <1>1, <1>6
<1> HIDE DEF rows1
<1>8. page1 \in TempPage
  BY <1>3, <1>5, <1>7 DEF TempPage
<1>9. Bottom(page1) = pos
  <2>1. page1.rows # <<>>
    BY <1>1, <1>4, <1>7
  <2> QED
    BY <2>1, <1>4, <1>6, <1>7 DEF Bottom
<1>10. ASSUME NEW i \in DOMAIN page1.rows
       PROVE  /\ page1.rows[i].start < (IF i = 1 THEN PgSize ELSE page1.rows[i - 1].start)
              /\ page1.rows[i].what # Damaged /\ ~page1.rows[i].flag
  <2>1. CASE i = n
    <3>1. pos < Bottom(page)
      BY <1>2 DEF pos
    <3>2. Bottom(page) = (IF i = 1 THEN PgSize ELSE page1.rows[i - 1].start)
      <4>1. CASE page.rows = <<>>
        <5>1. n = 1
          BY <4>1
        <5> QED
          BY <2>1, <4>1, <5>1 DEF Bottom
      <4>2. CASE page.rows # <<>>
        <5>1. Len(page.rows) # 0 /\ i # 1 /\ i - 1 = Len(page.rows)
          BY <1>1, <2>1, <4>2
        <5>2. Len(page.rows) \in 1 .. Len(page.rows)
          BY <1>1, <5>1
        <5>3. rows1[Len(page.rows)] = page.rows[Len(page.rows)]
          BY <1>7, <5>2
        <5>4. page1.rows[i - 1] = page.rows[Len(page.rows)]
          BY <1>4, <5>1, <5>3
        <5> QED
          BY <4>2, <5>1, <5>4 DEF Bottom
      <4> QED
        BY <4>1, <4>2
    <3>3. what # Damaged
      BY PageAssumption
    <3> QED
      BY <1>4, <1>6, <1>7, <2>1, <3>1, <3>2, <3>3
  <2>2. CASE i # n
    <3>1. i \in 1 .. Len(page.rows) /\ page1.rows[i] = page.rows[i]
      BY <1>1, <1>4, <1>7, <2>2
    <3>2. i # 1 => i - 1 \in 1 .. Len(page.rows) /\ page1.rows[i - 1] = page.rows[i - 1]
      BY <1>1, <1>4, <1>7, <3>1
    <3> QED
      BY <1>1, <3>1, <3>2 DEF PageSound
  <2> QED
    BY <2>1, <2>2
<1> QED
  BY <1>4, <1>5, <1>7, <1>8, <1>9, <1>10 DEF PageSound

LEMMA InitPageInv == PageInit => PageInv
  BY DEF PageInit, PageInv, TempSound, TempPage

LEMMA NextPageInv == PageInv /\ [PageNext]_pageVars => PageInv'
<1> SUFFICES ASSUME PageInv, [PageNext]_pageVars PROVE PageInv'
  OBVIOUS
<1>1. temp \in Seq(TempPage) /\ added \in Nat /\ \A p \in DOMAIN temp : PageSound(temp[p])
  BY DEF PageInv, TempSound
<1>2. ASSUME NEW what \in Rows, NEW size \in Sizes, AddTemp(what, size) PROVE PageInv'
  <2>1. added' = added + 1
    BY <1>2 DEF AddTemp
  <2>2. CASE temp = <<>> \/ ~HasPlace(temp[Len(temp)], size)
    <3> DEFINE page == WithRow(mdb_new_data_pg, what, size)
    <3>1. temp' = Append(temp, page)
      BY <1>2, <2>2 DEF AddTemp
    <3>2. size \in Nat /\ size + 2 <= PgSize - Rco - 2
      BY PageAssumption
    <3>3. HasPlace(mdb_new_data_pg, size)
      BY <3>2, NewPageSound, PageAssumption DEF HasPlace
    <3>4. page \in TempPage /\ PageSound(page)
      BY <3>3, NewPageSound, WithRowSound
    <3> HIDE DEF page
    <3>5. temp' \in Seq(TempPage)
      BY <1>1, <3>1, <3>4
    <3>6. \A p \in DOMAIN temp' : PageSound(temp'[p])
      <4>1. DOMAIN temp' = 1 .. Len(temp) + 1 /\ DOMAIN temp = 1 .. Len(temp) /\ Len(temp) \in Nat
        BY <1>1, <3>1
      <4>2. temp'[Len(temp) + 1] = page /\ \A p \in 1 .. Len(temp) : temp'[p] = temp[p]
        BY <1>1, <3>1
      <4> QED
        BY <1>1, <3>4, <4>1, <4>2
    <3> QED
      BY <1>1, <2>1, <3>5, <3>6 DEF PageInv, TempSound
  <2>3. CASE ~(temp = <<>> \/ ~HasPlace(temp[Len(temp)], size))
    <3> DEFINE last == Len(temp)
               page == WithRow(temp[last], what, size)
    <3>1. temp' = [temp EXCEPT ![last] = page]
      BY <1>2, <2>3 DEF AddTemp
    <3>2. last \in DOMAIN temp /\ DOMAIN temp = 1 .. Len(temp) /\ last \in Nat
      BY <1>1, <2>3
    <3>3. temp[last] \in TempPage /\ PageSound(temp[last]) /\ HasPlace(temp[last], size)
      BY <1>1, <2>3, <3>2
    <3>4. page \in TempPage /\ PageSound(page)
      BY <3>3, WithRowSound
    <3> HIDE DEF page
    <3>5. temp' \in Seq(TempPage)
      BY <1>1, <3>1, <3>2, <3>4
    <3>6. \A p \in DOMAIN temp' : PageSound(temp'[p])
      BY <1>1, <3>1, <3>2, <3>4
    <3> QED
      BY <1>1, <2>1, <3>5, <3>6 DEF PageInv, TempSound
  <2> QED
    BY <2>2, <2>3
<1>3. ASSUME NEW what \in Rows, NEW size \in Sizes, mdb_insert_row(what, size) PROVE PageInv'
  <2>1. temp' = temp /\ added' = added + 1
    BY <1>3 DEF mdb_insert_row
  <2> QED
    BY <1>1, <2>1 DEF PageInv, TempSound
<1>4. ASSUME NEW what \in Rows, NEW size \in Sizes, NEW pg \in DOMAIN file,
             NEW i \in DOMAIN file[pg].rows, mdb_update_row(pg, i, what, size)
      PROVE  PageInv'
  BY <1>1, <1>4 DEF mdb_update_row, PageInv, TempSound
<1>5. CASE UNCHANGED pageVars
  BY <1>1, <1>5 DEF pageVars, PageInv, TempSound
<1> QED
  BY <1>2, <1>3, <1>4, <1>5 DEF PageNext

\* Pages of temporary tables are sound in every state (mdb_add_row_to_pg).
THEOREM TempPagesSound == PageSpec => []TempSound
<1>1. PageInv => TempSound
  BY DEF PageInv
<1> QED
  BY <1>1, InitPageInv, NextPageInv, PTL DEF PageSpec

-----------------------------------------------------------------------------
(* Rows of the file *)

MeantRow == [what : Rows, size : Int, squeezed : BOOLEAN, flagged : BOOLEAN]

(* A page of the file and what its rows should hold: the rows lie one      *)
(* below the other, each as long as it should be, and lost bytes have a    *)
(* reason; the slots end below the lowest row unless a row was squeezed in.*)
Kept(page, ms) ==
  /\ page \in TempPage
  /\ ms \in Seq(MeantRow) /\ Len(ms) = Len(page.rows)
  /\ \A i \in DOMAIN page.rows : page.rows[i].start < PgSize
  /\ \A i, j \in DOMAIN page.rows : i < j => page.rows[j].start < page.rows[i].start
  /\ \A i \in DOMAIN page.rows :
       /\ RowSize(page, i) = ms[i].size
       /\ page.rows[i].what # ms[i].what => ms[i].squeezed \/ ms[i].flagged
  /\ \/ Bottom(page) >= SlotsEnd(Len(page.rows))
     \/ \E k \in DOMAIN ms : ms[k].squeezed

RowsInv ==
  /\ file \in [DOMAIN file -> TempPage]
  /\ meant \in [DOMAIN file -> Seq(MeantRow)]
  /\ FilePages \in Seq(DOMAIN file)
  /\ \A pg \in DOMAIN file : Kept(file[pg], meant[pg])

\* What a page of the file says of its lowest row.
LEMMA PageTypes ==
  ASSUME NEW page \in TempPage
  PROVE  /\ page.rows \in Seq(Row) /\ Len(page.rows) \in Nat
         /\ DOMAIN page.rows = 1 .. Len(page.rows)
         /\ \A i \in DOMAIN page.rows : page.rows[i] \in Row /\ page.rows[i].start \in Int
         /\ Bottom(page) \in Int
         /\ SlotsEnd(Len(page.rows)) \in Int /\ PgSize \in Int
         /\ SlotsEnd(Len(page.rows) + 1) = SlotsEnd(Len(page.rows)) + 2
<1>1. /\ page.rows \in Seq(Row) /\ Len(page.rows) \in Nat
      /\ DOMAIN page.rows = 1 .. Len(page.rows)
  BY DEF TempPage
<1>2. \A i \in DOMAIN page.rows : page.rows[i] \in Row /\ page.rows[i].start \in Int
  <2>1. \A row \in Row : row.start \in Int
    BY DEF Row
  <2> HIDE DEF Row
  <2>2. \A i \in DOMAIN page.rows : page.rows[i] \in Row
    BY <1>1
  <2> QED
    BY <2>1, <2>2
<1>3. Bottom(page) \in Int
  <2>1. CASE page.rows = <<>>
    BY <2>1, PageAssumption DEF Bottom
  <2>2. CASE page.rows # <<>>
    <3>1. Len(page.rows) \in DOMAIN page.rows
      BY <1>1, <2>2
    <3> QED
      BY <1>2, <2>2, <3>1 DEF Bottom
  <2> QED
    BY <2>1, <2>2
<1>4. \A n \in Nat : SlotsEnd(n) \in Int /\ SlotsEnd(n + 1) = SlotsEnd(n) + 2
  BY PageAssumption DEF SlotsEnd
<1>5. SlotsEnd(Len(page.rows)) \in Int /\ SlotsEnd(Len(page.rows) + 1) = SlotsEnd(Len(page.rows)) + 2
  BY <1>1, <1>4
<1>6. PgSize \in Int
  BY PageAssumption
<1> QED
  BY <1>1, <1>2, <1>3, <1>5, <1>6

\* A page as it is copied keeps its rows where they are.
LEMMA KeptCopied ==
  ASSUME NEW page, NEW ms, Kept(page, ms)
  PROVE  /\ Kept(CopiedRows(page), CopiedMeant(ms, page))
         /\ Len(CopiedRows(page).rows) = Len(page.rows)
         /\ Bottom(CopiedRows(page)) = Bottom(page)
<1> DEFINE p1  == CopiedRows(page)
           ms1 == CopiedMeant(ms, page)
           L   == Len(page.rows)
<1>1. page \in TempPage /\ ms \in Seq(MeantRow) /\ Len(ms) = L
  BY DEF Kept
<1>2. /\ page.rows \in Seq(Row) /\ L \in Nat /\ DOMAIN page.rows = 1 .. L
      /\ \A i \in DOMAIN page.rows : page.rows[i] \in Row
  BY <1>1, PageTypes
<1>3. DOMAIN ms = 1 .. L /\ \A i \in 1 .. L : ms[i] \in MeantRow
  BY <1>1, <1>2
<1>4. \A i \in 1 .. L : /\ Copied(page.rows[i]) \in Row
                        /\ Copied(page.rows[i]).start = page.rows[i].start
                        /\ Copied(page.rows[i]).what =
                             IF page.rows[i].flag THEN Damaged ELSE page.rows[i].what
  BY <1>2 DEF Copied, Row
<1>5. p1.rows = [i \in 1 .. L |-> Copied(page.rows[i])] /\ p1.free = page.free
  BY <1>1, <1>2 DEF CopiedRows, TempPage
<1>6. p1 \in TempPage
  <2>1. p1 = [page EXCEPT !.rows = [i \in 1 .. L |-> Copied(page.rows[i])]]
    BY <1>2 DEF CopiedRows
  <2>2. [i \in 1 .. L |-> Copied(page.rows[i])] \in Seq(Row)
    BY <1>2, <1>4
  <2> QED
    BY <1>1, <2>1, <2>2 DEF TempPage
<1> HIDE DEF p1
<1>7. /\ DOMAIN p1.rows = 1 .. L /\ Len(p1.rows) = L
      /\ \A i \in 1 .. L : p1.rows[i] = Copied(page.rows[i])
  BY <1>2, <1>5
<1>8. /\ \A i \in 1 .. L : p1.rows[i].start = page.rows[i].start
      /\ p1.rows = <<>> <=> page.rows = <<>>
  BY <1>2, <1>4, <1>7
<1>9. Bottom(p1) = Bottom(page) /\ \A i \in 1 .. L : RowSize(p1, i) = RowSize(page, i)
  <2>1. page.rows # <<>> => L \in 1 .. L
    BY <1>2
  <2>2. \A i \in 1 .. L : i # 1 => i - 1 \in 1 .. L
    BY <1>2
  <2> QED
    BY <1>7, <1>8, <2>1, <2>2 DEF Bottom, RowSize
<1>10. \A i \in 1 .. L :
         /\ ms1[i] = [ms[i] EXCEPT !.flagged = ms[i].flagged \/ page.rows[i].flag]
         /\ ms1[i] \in MeantRow
  BY <1>2, <1>3 DEF MeantRow, Row, CopiedMeant
<1>11. \A i \in 1 .. L :
         /\ ms1[i].size = ms[i].size /\ ms1[i].what = ms[i].what
         /\ ms1[i].squeezed = ms[i].squeezed
         /\ ms[i].flagged \/ page.rows[i].flag => ms1[i].flagged
  BY <1>3, <1>10 DEF MeantRow
<1>12. ms1 \in Seq(MeantRow) /\ DOMAIN ms1 = 1 .. L /\ Len(ms1) = L
  <2>1. ms1 = [i \in 1 .. L |-> ms1[i]]
    BY <1>3 DEF CopiedMeant
  <2> HIDE DEF ms1
  <2>2. ms1 \in [1 .. L -> MeantRow]
    BY <1>10, <2>1
  <2> QED
    BY <1>2, <2>2
<1> HIDE DEF ms1
<1>13. \A i \in 1 .. L : /\ RowSize(p1, i) = ms1[i].size
                         /\ p1.rows[i].what # ms1[i].what => ms1[i].squeezed \/ ms1[i].flagged
  BY <1>2, <1>4, <1>7, <1>9, <1>11 DEF Kept
<1>14. \/ Bottom(p1) >= SlotsEnd(Len(p1.rows))
       \/ \E k \in DOMAIN ms1 : ms1[k].squeezed
  BY <1>3, <1>7, <1>9, <1>11, <1>12 DEF Kept
<1>15. /\ \A i \in DOMAIN p1.rows : p1.rows[i].start < PgSize
       /\ \A i, j \in DOMAIN p1.rows : i < j => p1.rows[j].start < p1.rows[i].start
  BY <1>2, <1>7, <1>8 DEF Kept
<1>16. Kept(p1, ms1)
  BY <1>6, <1>7, <1>12, <1>13, <1>14, <1>15 DEF Kept
<1> QED
  BY <1>7, <1>9, <1>16 DEF p1, ms1

\* A row behind the others of a page.
LEMMA KeptWithRow ==
  ASSUME NEW page, NEW ms, Kept(page, ms), page.rows # <<>>,
         NEW what \in Rows, NEW size \in Sizes, NEW squeezed \in BOOLEAN,
         Bottom(page) - SlotsEnd(Len(page.rows)) < size + 2 => squeezed
  PROVE  Kept(WithRow(page, what, size),
              Append(ms, [what |-> what, size |-> size, flagged |-> FALSE, squeezed |-> squeezed]))
<1> DEFINE L   == Len(page.rows)
           n   == L + 1
           pos == Bottom(page) - size
           row == [start |-> pos, flag |-> FALSE,
                   what |-> IF pos < SlotsEnd(n) THEN Damaged ELSE what]
           m   == [what |-> what, size |-> size, flagged |-> FALSE, squeezed |-> squeezed]
           p1  == WithRow(page, what, size)
           ms1 == Append(ms, m)
<1>1. page \in TempPage /\ ms \in Seq(MeantRow) /\ Len(ms) = L
  BY DEF Kept
<1>2. /\ page.rows \in Seq(Row) /\ L \in Nat /\ DOMAIN page.rows = 1 .. L
      /\ \A i \in 1 .. L : page.rows[i] \in Row /\ page.rows[i].start \in Int
      /\ Bottom(page) \in Int /\ SlotsEnd(L) \in Int /\ PgSize \in Int
      /\ SlotsEnd(n) = SlotsEnd(L) + 2
  BY <1>1, PageTypes
<1>3. size \in Nat /\ size > 0 /\ size \in Int
  BY PageAssumption
<1>4. p1 = [free |-> pos - SlotsEnd(n), rows |-> Append(page.rows, row)]
  BY DEF WithRow
<1>5. pos \in Int /\ pos < Bottom(page) /\ SlotsEnd(n) \in Int /\ row \in Row /\ row.start = pos
  BY <1>2, <1>3 DEF Row
<1>6. m \in MeantRow
  BY <1>3 DEF MeantRow
<1>6a. pos >= SlotsEnd(n) \/ squeezed
  <2> DEFINE b == Bottom(page)
             e == SlotsEnd(L)
  <2>1. b \in Int /\ e \in Int /\ SlotsEnd(n) = e + 2 /\ (b - e < size + 2 => squeezed)
    BY <1>2
  <2> HIDE DEF b, e
  <2>2. b - size >= e + 2 \/ squeezed
    BY <1>3, <2>1
  <2> QED
    BY <2>1, <2>2 DEF b
<1>7. row.what # what => squeezed
  <2>1. ~(pos < SlotsEnd(n)) \/ squeezed
    BY <1>5, <1>6a
  <2> QED
    BY <2>1
<1>7b. /\ m.size = size /\ m.what = what /\ m.squeezed = squeezed
  OBVIOUS
<1> HIDE DEF row, m, pos
<1>8. /\ p1.rows \in Seq(Row) /\ Len(p1.rows) = n /\ DOMAIN p1.rows = 1 .. n
      /\ p1.rows[n] = row /\ p1.rows # <<>>
      /\ \A i \in 1 .. L : p1.rows[i] = page.rows[i]
  BY <1>2, <1>4, <1>5
<1>9. p1 \in TempPage
  BY <1>2, <1>4, <1>5, <1>8 DEF TempPage
<1>10. /\ ms1 \in Seq(MeantRow) /\ Len(ms1) = n /\ DOMAIN ms1 = 1 .. n
       /\ ms1[n] = m
       /\ \A i \in 1 .. L : ms1[i] = ms[i]
  BY <1>1, <1>2, <1>6
<1> HIDE DEF p1, ms1
<1>11. L \in 1 .. L /\ page.rows[L].start = Bottom(page) /\ n # 1 /\ n - 1 = L
  BY <1>2 DEF Bottom
<1>12. Bottom(p1) = pos /\ RowSize(p1, n) = size
  <2>1. Bottom(p1) = p1.rows[n].start
    BY <1>8 DEF Bottom
  <2>2. RowSize(p1, n) = p1.rows[L].start - p1.rows[n].start
    BY <1>11 DEF RowSize
  <2>3. p1.rows[L].start = Bottom(page)
    BY <1>8, <1>11
  <2> QED
    BY <1>2, <1>3, <1>5, <1>8, <2>1, <2>2, <2>3 DEF pos
<1>13. \A i \in 1 .. L : RowSize(p1, i) = RowSize(page, i)
  <2>1. \A i \in 1 .. L : i # 1 => i - 1 \in 1 .. L
    BY <1>2
  <2> QED
    BY <1>8, <2>1 DEF RowSize
<1>14. \A i \in DOMAIN p1.rows :
         /\ RowSize(p1, i) = ms1[i].size
         /\ p1.rows[i].what # ms1[i].what => ms1[i].squeezed \/ ms1[i].flagged
  <2> SUFFICES ASSUME NEW i \in 1 .. n
               PROVE  /\ RowSize(p1, i) = ms1[i].size
                      /\ p1.rows[i].what # ms1[i].what => ms1[i].squeezed \/ ms1[i].flagged
    BY <1>8
  <2>1. CASE i = n
    BY <1>7, <1>7b, <1>8, <1>10, <1>12, <2>1
  <2>2. CASE i # n
    <3>1. i \in 1 .. L
      BY <1>2, <2>2
    <3> QED
      BY <1>2, <1>8, <1>10, <1>13, <3>1 DEF Kept
  <2> QED
    BY <2>1, <2>2
<1>15. \A i \in 1 .. L : page.rows[i].start >= Bottom(page) /\ page.rows[i].start < PgSize
  <2> TAKE i \in 1 .. L
  <2>1. i = L \/ i < L
    BY <1>2
  <2>2. i < L => page.rows[L].start < page.rows[i].start
    BY <1>2, <1>11 DEF Kept
  <2> QED
    BY <1>2, <1>11, <2>1, <2>2 DEF Kept
<1>16. \A i \in DOMAIN p1.rows : p1.rows[i].start < PgSize
  <2> SUFFICES ASSUME NEW i \in 1 .. n PROVE p1.rows[i].start < PgSize
    BY <1>8
  <2>1. CASE i = n
    <3>1. Bottom(page) < PgSize
      BY <1>11, <1>15
    <3> QED
      BY <1>2, <1>5, <1>8, <2>1, <3>1
  <2>2. CASE i # n
    <3>1. i \in 1 .. L /\ p1.rows[i] = page.rows[i]
      BY <1>2, <1>8, <2>2
    <3> QED
      BY <1>15, <3>1
  <2> QED
    BY <2>1, <2>2
<1>17. \A i, j \in DOMAIN p1.rows : i < j => p1.rows[j].start < p1.rows[i].start
  <2> SUFFICES ASSUME NEW i \in 1 .. n, NEW j \in 1 .. n, i < j
               PROVE  p1.rows[j].start < p1.rows[i].start
    BY <1>8
  <2>1. i \in 1 .. L /\ p1.rows[i].start = page.rows[i].start
    <3>1. i \in 1 .. L
      BY <1>2
    <3> QED
      BY <1>8, <3>1
  <2>2. CASE j = n
    <3>1. p1.rows[j].start = pos /\ page.rows[i].start >= Bottom(page) /\ page.rows[i].start \in Int
      BY <1>2, <1>5, <1>8, <1>15, <2>1, <2>2
    <3> QED
      BY <1>2, <1>5, <2>1, <3>1
  <2>3. CASE j # n
    <3>1. j \in 1 .. L /\ p1.rows[j].start = page.rows[j].start
      BY <1>2, <1>8, <2>3
    <3> QED
      BY <1>2, <2>1, <3>1 DEF Kept
  <2> QED
    BY <2>2, <2>3
<1>18. \/ Bottom(p1) >= SlotsEnd(Len(p1.rows))
       \/ \E k \in DOMAIN ms1 : ms1[k].squeezed
  <2>1. n \in 1 .. n
    BY <1>2
  <2>2. CASE squeezed
    BY <1>7b, <1>10, <2>1, <2>2
  <2>3. CASE ~squeezed
    BY <1>6a, <1>8, <1>12, <2>3
  <2> QED
    BY <2>2, <2>3
<1>19. Kept(p1, ms1)
  BY <1>8, <1>9, <1>10, <1>14, <1>16, <1>17, <1>18 DEF Kept
<1> QED
  BY <1>19 DEF p1, ms1, m

\* A row that takes a new size where it is, and the rows behind it that move: the
\* slots end below the lowest row, whatever was squeezed in before.
LEMMA KeptReplaced ==
  ASSUME NEW page, NEW ms, Kept(page, ms), NEW what \in Rows, NEW size \in Sizes,
         NEW i \in DOMAIN page.rows, RowsFit(page, i, size)
  PROVE  Kept(Replaced(page, i, what, size),
              [CopiedMeant(ms, page) EXCEPT ![i] =
                 [what |-> what, size |-> size, squeezed |-> FALSE, flagged |-> FALSE]])
<1> DEFINE L     == Len(page.rows)
           old   == RowSize(page, i)
           delta(k) == IF k >= i THEN size - old ELSE 0
           rows  == [k \in DOMAIN page.rows |->
                       IF k = i THEN [start |-> page.rows[k].start - delta(k), flag |-> FALSE, what |-> what]
                       ELSE [Copied(page.rows[k]) EXCEPT !.start = @ - delta(k)]]
           page1 == [page EXCEPT !.rows = rows]
           p1    == Replaced(page, i, what, size)
           ms1   == [CopiedMeant(ms, page) EXCEPT ![i] =
                       [what |-> what, size |-> size, squeezed |-> FALSE, flagged |-> FALSE]]
<1>1. page \in TempPage /\ ms \in Seq(MeantRow) /\ Len(ms) = L
  BY DEF Kept
<1>2. /\ page.rows \in Seq(Row) /\ L \in Nat /\ DOMAIN page.rows = 1 .. L /\ i \in 1 .. L
      /\ \A k \in 1 .. L : page.rows[k] \in Row /\ page.rows[k].start \in Int
      /\ Bottom(page) \in Int /\ SlotsEnd(L) \in Int /\ PgSize \in Int
  BY <1>1, PageTypes
<1>3. size \in Nat /\ size > 0 /\ size \in Int
  BY PageAssumption
<1>4. /\ DOMAIN ms = 1 .. L
      /\ \A k \in 1 .. L : ms[k] \in MeantRow
  BY <1>1, <1>2
<1>5. \A k \in 1 .. L : RowSize(page, k) \in Int
  <2> TAKE k \in 1 .. L
  <2>1. k # 1 => k - 1 \in 1 .. L
    BY <1>2
  <2> QED
    BY <1>2, <2>1, SMTT(20) DEF RowSize
<1>6. old \in Int /\ \A k \in 1 .. L : delta(k) \in Int
  BY <1>2, <1>3, <1>5
<1>7. \A k \in 1 .. L : /\ Copied(page.rows[k]) \in Row
                        /\ Copied(page.rows[k]).start = page.rows[k].start
                        /\ Copied(page.rows[k]).what =
                             IF page.rows[k].flag THEN Damaged ELSE page.rows[k].what
  BY <1>2 DEF Copied, Row
<1> HIDE DEF old
<1>8. \A k \in 1 .. L :
        /\ rows[k] \in Row
        /\ rows[k].start = page.rows[k].start - delta(k)
        /\ rows[k].what = IF k = i THEN what
                          ELSE IF page.rows[k].flag THEN Damaged ELSE page.rows[k].what
  <2> TAKE k \in 1 .. L
  <2>1. k \in DOMAIN page.rows /\ page.rows[k].start - delta(k) \in Int
    BY <1>2, <1>6
  <2> HIDE DEF delta
  <2>2. CASE k = i
    BY <1>2, <2>1, <2>2 DEF Row
  <2>3. CASE k # i
    <3>1. rows[k] = [Copied(page.rows[k]) EXCEPT !.start = @ - delta(k)]
      BY <2>1, <2>3
    <3> QED
      BY <1>7, <2>1, <2>3, <3>1 DEF Row
  <2> QED
    BY <2>2, <2>3
<1>9. rows \in Seq(Row) /\ DOMAIN rows = 1 .. L /\ Len(rows) = L
  <2>1. rows = [k \in 1 .. L |-> rows[k]]
    BY <1>2
  <2> HIDE DEF rows
  <2>2. rows \in [1 .. L -> Row]
    BY <1>8, <2>1
  <2> QED
    BY <1>2, <2>2
<1>10. p1 = [page1 EXCEPT !.free = mdb_pg_get_freespace(page1)]
  BY DEF Replaced, old
<1> HIDE DEF rows, p1
<1>11. page1.rows = rows /\ page1 \in TempPage
  BY <1>1, <1>9 DEF TempPage
<1> HIDE DEF page1
<1>12. mdb_pg_get_freespace(page1) \in Int
  <2>1. Bottom(page1) \in Int /\ SlotsEnd(Len(page1.rows)) \in Int
    BY <1>11, PageTypes
  <2> QED
    BY <2>1 DEF mdb_pg_get_freespace
<1>13. p1.rows = rows /\ p1 \in TempPage
  BY <1>10, <1>11, <1>12 DEF TempPage
<1>14. \A k \in 1 .. L :
         /\ ms1[k] = IF k = i THEN [what |-> what, size |-> size, squeezed |-> FALSE, flagged |-> FALSE]
                     ELSE [ms[k] EXCEPT !.flagged = ms[k].flagged \/ page.rows[k].flag]
         /\ ms1[k] \in MeantRow
  BY <1>2, <1>3, <1>4 DEF MeantRow, Row, CopiedMeant
<1>15. /\ ms1[i].size = size /\ ms1[i].what = what
       /\ \A k \in (1 .. L) \ {i} :
            /\ ms1[k].size = ms[k].size /\ ms1[k].what = ms[k].what
            /\ ms1[k].squeezed = ms[k].squeezed
            /\ ms[k].flagged \/ page.rows[k].flag => ms1[k].flagged
  <2>1. ms1[i].size = size /\ ms1[i].what = what
    <3>1. ms1[i] = [what |-> what, size |-> size, squeezed |-> FALSE, flagged |-> FALSE]
      BY <1>2, <1>14
    <3> HIDE DEF ms1
    <3> QED
      BY <3>1
  <2>2. ASSUME NEW k \in (1 .. L) \ {i}
        PROVE  /\ ms1[k].size = ms[k].size /\ ms1[k].what = ms[k].what
               /\ ms1[k].squeezed = ms[k].squeezed
               /\ ms[k].flagged \/ page.rows[k].flag => ms1[k].flagged
    <3>1. ms1[k] = [ms[k] EXCEPT !.flagged = ms[k].flagged \/ page.rows[k].flag]
      BY <1>14
    <3> HIDE DEF ms1
    <3> QED
      BY <1>4, <3>1 DEF MeantRow
  <2> QED
    BY <2>1, <2>2
<1>16. ms1 \in Seq(MeantRow) /\ DOMAIN ms1 = 1 .. L /\ Len(ms1) = L
  <2>1. ms1 = [k \in 1 .. L |-> ms1[k]]
    BY <1>4 DEF CopiedMeant
  <2> HIDE DEF ms1
  <2>2. ms1 \in [1 .. L -> MeantRow]
    BY <1>14, <2>1
  <2> QED
    BY <1>2, <2>2
<1> HIDE DEF ms1
\* Where the rows are now.
<1>17. /\ \A k \in 1 .. L : k < i => rows[k].start = page.rows[k].start
       /\ \A k \in 1 .. L : k >= i => rows[k].start = page.rows[k].start - (size - old)
       /\ \A k \in 1 .. L : rows[k].start \in Int
  <2>1. ASSUME NEW k \in 1 .. L, k < i PROVE rows[k].start = page.rows[k].start
    <3>1. delta(k) = 0
      BY <1>2, <2>1
    <3> HIDE DEF delta
    <3>2. page.rows[k].start \in Int /\ rows[k].start = page.rows[k].start - delta(k)
      BY <1>2, <1>8
    <3> QED
      BY <3>1, <3>2
  <2>2. ASSUME NEW k \in 1 .. L, k >= i PROVE rows[k].start = page.rows[k].start - (size - old)
    BY <1>8, <2>2
  <2>3. ASSUME NEW k \in 1 .. L PROVE rows[k].start \in Int
    <3> HIDE DEF delta
    <3> QED
      BY <1>2, <1>6, <1>8, SMTT(20)
  <2> QED
    BY <2>1, <2>2, <2>3
<1>18. /\ i = 1 => old = PgSize - page.rows[i].start
       /\ i # 1 => i - 1 \in 1 .. L /\ old = page.rows[i - 1].start - page.rows[i].start
  BY <1>2 DEF old, RowSize
<1>19. \A k, j \in 1 .. L : k < j => page.rows[j].start < page.rows[k].start
  BY <1>2 DEF Kept
<1>20. \A k, j \in 1 .. L : k < j => rows[j].start < rows[k].start
  <2> SUFFICES ASSUME NEW k \in 1 .. L, NEW j \in 1 .. L, k < j
               PROVE  rows[j].start < rows[k].start
    OBVIOUS
  <2>0. page.rows[k].start \in Int /\ page.rows[j].start \in Int /\ page.rows[j].start < page.rows[k].start
    BY <1>2, <1>19
  <2>1. CASE j < i
    <3>1. k < i
      BY <1>2, <2>1
    <3> QED
      BY <1>17, <2>0, <2>1, <3>1
  <2>2. CASE k >= i
    <3>1. j >= i
      BY <1>2, <2>2
    <3>2. rows[j].start = page.rows[j].start - (size - old)
      BY <1>17, <3>1
    <3>3. rows[k].start = page.rows[k].start - (size - old)
      BY <1>17, <2>2
    <3> QED
      BY <1>3, <1>6, <2>0, <3>2, <3>3
  <2>3. CASE k < i /\ j >= i
    <3>1. i # 1 /\ i - 1 \in 1 .. L
      BY <1>2, <2>3
    <3>2. page.rows[i - 1].start <= page.rows[k].start
      <4>1. CASE k = i - 1
        BY <1>2, <3>1, <4>1
      <4>2. CASE k < i - 1
        <5>1. page.rows[i - 1].start < page.rows[k].start
          BY <1>19, <3>1, <4>2
        <5>2. page.rows[i - 1].start \in Int
          BY <1>2, <3>1
        <5> QED
          BY <2>0, <5>1, <5>2
      <4> QED
        BY <1>2, <2>3, <4>1, <4>2
    <3>3. page.rows[j].start <= page.rows[i].start
      <4>1. CASE j = i
        BY <1>2, <4>1
      <4>2. CASE i < j
        BY <1>2, <1>19, <4>2
      <4> QED
        BY <1>2, <2>3, <4>1, <4>2
    <3>4. /\ page.rows[i].start \in Int /\ page.rows[i - 1].start \in Int
          /\ old = page.rows[i - 1].start - page.rows[i].start
      BY <1>2, <1>18, <3>1
    <3>5. rows[k].start = page.rows[k].start /\ rows[j].start = page.rows[j].start - (size - old)
      BY <1>17, <2>3
    <3>6. \A a, b, c, s \in Int : c <= b /\ s > 0 => c - (s - (a - b)) < a
      OBVIOUS
    <3>7. rows[j].start < page.rows[i - 1].start
      BY <1>3, <2>0, <3>3, <3>4, <3>5, <3>6
    <3> QED
      BY <1>17, <2>0, <3>2, <3>4, <3>5, <3>7
  <2> QED
    BY <1>2, <2>1, <2>2, <2>3
<1>21. \A k \in 1 .. L : rows[k].start < PgSize
  <2> TAKE k \in 1 .. L
  <2>1. page.rows[k].start < PgSize /\ page.rows[k].start \in Int
    BY <1>2 DEF Kept
  <2>2. CASE k < i
    BY <1>17, <2>1, <2>2
  <2>3. CASE k >= i /\ i = 1
    <3>1. page.rows[k].start <= page.rows[i].start
      <4>1. CASE k = i
        BY <2>1, <4>1
      <4>2. CASE i < k
        BY <1>2, <1>19, <4>2
      <4> QED
        BY <1>2, <2>3, <4>1, <4>2
    <3>2. rows[k].start = page.rows[k].start - (size - old) /\ old = PgSize - page.rows[i].start
      BY <1>17, <1>18, <2>3
    <3>3. \A a, b, s, pg \in Int : a <= b /\ s > 0 => a - (s - (pg - b)) < pg
      OBVIOUS
    <3>4. page.rows[i].start \in Int
      BY <1>2
    <3> QED
      BY <1>2, <1>3, <2>1, <3>1, <3>2, <3>3, <3>4
  <2>4. CASE k >= i /\ i # 1
    <3>1. i - 1 \in 1 .. L /\ i - 1 < k /\ i - 1 < i
      BY <1>2, <2>4
    <3>2. rows[k].start < rows[i - 1].start
      BY <1>20, <3>1
    <3>3. rows[i - 1].start = page.rows[i - 1].start /\ page.rows[i - 1].start < PgSize
      BY <1>2, <1>17, <3>1 DEF Kept
    <3> QED
      BY <1>2, <1>17, <3>1, <3>2, <3>3
  <2> QED
    BY <1>2, <2>2, <2>3, <2>4
<1>22. /\ RowSize(p1, i) = size
       /\ \A k \in (1 .. L) \ {i} : RowSize(p1, k) = RowSize(page, k)
  <2>1. RowSize(p1, i) = size
    <3>1. RowSize(p1, i) = (IF i = 1 THEN PgSize ELSE rows[i - 1].start) - rows[i].start
      BY <1>13 DEF RowSize
    <3>2. rows[i].start = page.rows[i].start - (size - old) /\ page.rows[i].start \in Int
      BY <1>2, <1>17
    <3>3. CASE i = 1
      BY <1>2, <1>3, <1>18, <3>1, <3>2, <3>3
    <3>4. CASE i # 1
      <4>1. i - 1 \in 1 .. L /\ i - 1 < i
        BY <1>2, <3>4
      <4>2. rows[i - 1].start = page.rows[i - 1].start /\ page.rows[i - 1].start \in Int
        BY <1>2, <1>17, <4>1
      <4> QED
        BY <1>2, <1>3, <1>18, <3>1, <3>2, <3>4, <4>2
    <3> QED
      BY <3>3, <3>4
  <2>2. ASSUME NEW k \in (1 .. L) \ {i} PROVE RowSize(p1, k) = RowSize(page, k)
    <3>1. /\ RowSize(p1, k) = (IF k = 1 THEN PgSize ELSE rows[k - 1].start) - rows[k].start
          /\ RowSize(page, k) = (IF k = 1 THEN PgSize ELSE page.rows[k - 1].start) - page.rows[k].start
      BY <1>13 DEF RowSize
    <3>2. CASE k < i
      <4>1. k # 1 => k - 1 \in 1 .. L /\ k - 1 < i
        BY <1>2, <3>2
      <4> QED
        BY <1>17, <3>1, <3>2, <4>1
    <3>3. CASE k > i
      <4>1. k # 1 /\ k - 1 \in 1 .. L /\ k - 1 >= i /\ k >= i
        BY <1>2, <3>3
      <4>2. rows[k - 1].start = page.rows[k - 1].start - (size - old)
        BY <1>17, <4>1
      <4>3. rows[k].start = page.rows[k].start - (size - old)
        BY <1>17, <4>1
      <4>4. page.rows[k].start \in Int /\ page.rows[k - 1].start \in Int
        BY <1>2, <4>1
      <4> QED
        BY <1>3, <1>6, <3>1, <4>1, <4>2, <4>3, <4>4, SMTT(20)
    <3> QED
      BY <1>2, <3>2, <3>3
  <2> QED
    BY <2>1, <2>2
<1>23. \A k \in 1 .. L : /\ RowSize(p1, k) = ms1[k].size
                         /\ rows[k].what # ms1[k].what => ms1[k].squeezed \/ ms1[k].flagged
  <2> TAKE k \in 1 .. L
  <2>1. CASE k = i
    BY <1>8, <1>15, <1>22, <2>1
  <2>2. CASE k # i
    <3>1. RowSize(p1, k) = ms1[k].size
      BY <1>2, <1>15, <1>22, <2>2 DEF Kept
    <3>2. page.rows[k].what # ms[k].what => ms[k].squeezed \/ ms[k].flagged
      BY <1>2 DEF Kept
    <3> QED
      BY <1>8, <1>15, <2>2, <3>1, <3>2
  <2> QED
    BY <2>1, <2>2
\* The slots end below the lowest row.
<1>24. Bottom(p1) >= SlotsEnd(L)
  <2>1. L \in 1 .. L /\ L >= i /\ page.rows # <<>> /\ rows # <<>>
    BY <1>2, <1>9
  <2>2. Bottom(page) = page.rows[L].start /\ Bottom(p1) = rows[L].start
    BY <1>9, <1>13, <2>1 DEF Bottom
  <2>3. rows[L].start = page.rows[L].start - (size - old)
    BY <1>17, <2>1
  <2>4. size <= old + (Bottom(page) - SlotsEnd(L))
    BY <2>1 DEF RowsFit, mdb_pg_get_freespace, old
  <2> QED
    BY <1>2, <1>3, <1>6, <2>2, <2>3, <2>4
<1>25. Kept(p1, ms1)
  BY <1>9, <1>13, <1>16, <1>20, <1>21, <1>23, <1>24 DEF Kept
<1> QED
  BY <1>25 DEF p1, ms1

\* The first page with space for a row is one of the file that has a row already.
LEMMA FreePageHasRows ==
  ASSUME RowsInv, NEW size \in Sizes, mdb_map_find_next_freepage(size) # 0
  PROVE  LET pg == mdb_map_find_next_freepage(size)
         IN  /\ pg \in DOMAIN file /\ file[pg].rows # <<>>
             /\ mdb_pg_get_freespace(file[pg]) >= size
<1> DEFINE fits == {k \in DOMAIN FilePages : mdb_pg_get_freespace(file[FilePages[k]]) >= size}
           pg == mdb_map_find_next_freepage(size)
<1>1. fits # {}
  BY DEF mdb_map_find_next_freepage
<1>2. fits \subseteq Nat
  BY DEF RowsInv
<1>3. PICK k \in fits : \A j \in fits : k <= j
  <2> HIDE DEF fits
  <2> QED
    BY <1>1, <1>2, LeastExists
<1>4. (CHOOSE m \in fits : \A j \in fits : m <= j) \in fits
  <2> HIDE DEF fits
  <2> QED
    BY <1>3
<1>5. \E m \in fits : pg = FilePages[m]
  BY <1>1, <1>4 DEF mdb_map_find_next_freepage
<1>6. pg \in DOMAIN file /\ mdb_pg_get_freespace(file[pg]) >= size
  <2>1. \A m \in fits : FilePages[m] \in DOMAIN file
    BY DEF RowsInv
  <2> QED
    BY <1>5, <2>1
<1>7. file[pg].rows # <<>>
  <2> SUFFICES ASSUME file[pg].rows = <<>> PROVE FALSE
    OBVIOUS
  <2>1. SlotsEnd(0) \in Nat
    BY PageAssumption DEF SlotsEnd
  <2>2. mdb_pg_get_freespace(file[pg]) = 0 - SlotsEnd(0)
    BY DEF mdb_pg_get_freespace
  <2>3. size \in Nat /\ size > 0
    BY PageAssumption
  <2> QED
    BY <1>6, <2>1, <2>2, <2>3
<1> QED
  BY <1>6, <1>7

LEMMA InitRowsInv == PageInit => RowsInv
<1> SUFFICES ASSUME PageInit PROVE RowsInv
  OBVIOUS
<1>1. /\ FilePages \in Seq(DOMAIN file)
      /\ file \in [DOMAIN file -> [free : Int, rows : Seq([start : Int, flag : BOOLEAN, what : Rows])]]
      /\ \A pg \in DOMAIN file : LET rows == file[pg].rows IN
           \A i \in DOMAIN rows :
             /\ rows[i].start >= Rco + 2 + 2 * Len(rows)
             /\ rows[i].start < (IF i = 1 THEN PgSize ELSE rows[i - 1].start)
  BY FileAssumption DEF PageInit
<1>2. meant = [pg \in DOMAIN file |-> [i \in DOMAIN file[pg].rows |->
        [what |-> file[pg].rows[i].what, size |-> RowSize(file[pg], i),
         squeezed |-> FALSE, flagged |-> FALSE]]]
  BY DEF PageInit
<1>3. ASSUME NEW pg \in DOMAIN file
      PROVE  file[pg] \in TempPage /\ meant[pg] \in Seq(MeantRow) /\ Kept(file[pg], meant[pg])
  <2> DEFINE rows == file[pg].rows
             L == Len(rows)
             ms == [i \in DOMAIN rows |-> [what |-> rows[i].what, size |-> RowSize(file[pg], i),
                                           squeezed |-> FALSE, flagged |-> FALSE]]
  <2>1. /\ rows \in Seq([start : Int, flag : BOOLEAN, what : Rows]) /\ L \in Nat
        /\ DOMAIN rows = 1 .. L
        /\ \A i \in 1 .. L : rows[i] \in [start : Int, flag : BOOLEAN, what : Rows]
    <3> DEFINE R == [start : Int, flag : BOOLEAN, what : Rows]
    <3>1. rows \in Seq(R)
      BY <1>1
    <3> HIDE DEF R
    <3>2. L \in Nat /\ DOMAIN rows = 1 .. L /\ \A i \in 1 .. L : rows[i] \in R
      BY <3>1
    <3> QED
      BY <3>1, <3>2 DEF R
  <2>2. /\ \A i \in 1 .. L : rows[i].start \in Int /\ rows[i].what \in Rows /\ rows[i] \in Row
    BY <2>1 DEF Row
  <2>3. rows \in Seq(Row)
    BY <2>1, <2>2
  <2>4. file[pg] \in TempPage
    BY <1>1, <2>3 DEF TempPage
  <2>5. meant[pg] = ms
    BY <1>2
  <2>6. PgSize \in Int /\ Bottom(file[pg]) \in Int /\ SlotsEnd(L) \in Int
    BY <2>4, PageTypes
  <2>7. \A i \in 1 .. L : /\ RowSize(file[pg], i) \in Int
                          /\ rows[i].start >= SlotsEnd(L)
                          /\ rows[i].start < (IF i = 1 THEN PgSize ELSE rows[i - 1].start)
    <3> TAKE i \in 1 .. L
    <3>1. i # 1 => i - 1 \in 1 .. L
      BY <2>1
    <3>2. rows[i].start \in Int /\ (i # 1 => rows[i - 1].start \in Int)
      BY <2>2, <3>1
    <3>3. RowSize(file[pg], i) \in Int
      BY <2>6, <3>2 DEF RowSize
    <3>4. /\ rows[i].start >= Rco + 2 + 2 * L
          /\ rows[i].start < (IF i = 1 THEN PgSize ELSE rows[i - 1].start)
      BY <1>1, <2>1
    <3> QED
      BY <3>3, <3>4 DEF SlotsEnd
  <2>8. \A i \in 1 .. L : ms[i] = [what |-> rows[i].what, size |-> RowSize(file[pg], i),
                                   squeezed |-> FALSE, flagged |-> FALSE]
                        /\ ms[i] \in MeantRow
                        /\ RowSize(file[pg], i) = ms[i].size /\ rows[i].what = ms[i].what
    BY <2>1, <2>2, <2>7 DEF MeantRow
  <2>9. ms \in Seq(MeantRow) /\ Len(ms) = L
    <3>1. ms = [i \in 1 .. L |-> ms[i]]
      BY <2>1
    <3> HIDE DEF ms
    <3>2. ms \in [1 .. L -> MeantRow]
      BY <2>8, <3>1
    <3> QED
      BY <2>1, <3>2, SMTT(20)
  <2> HIDE DEF ms
  \* Each row lies below every row before it.
  <2>10. \A j \in Nat : j \in 1 .. L => rows[j].start < PgSize /\ \A i \in 1 .. L : i < j => rows[j].start < rows[i].start
    <3> DEFINE Below == {j \in Nat : j \in 1 .. L =>
                           /\ rows[j].start < PgSize
                           /\ \A i \in 1 .. L : i < j => rows[j].start < rows[i].start}
    <3>1. 0 \in Below
      OBVIOUS
    <3>2. ASSUME NEW j \in Nat, j \in Below PROVE j + 1 \in Below
      <4> SUFFICES ASSUME j + 1 \in 1 .. L
                   PROVE  /\ rows[j + 1].start < PgSize
                          /\ \A i \in 1 .. L : i < j + 1 => rows[j + 1].start < rows[i].start
        OBVIOUS
      <4>1. CASE j = 0
        BY <2>7, <4>1
      <4>2. CASE j # 0
        <5>1. j \in 1 .. L /\ j + 1 # 1 /\ (j + 1) - 1 = j
          BY <2>1, <4>2
        <5>2. rows[j + 1].start < rows[j].start
          BY <2>7, <5>1
        <5>3. rows[j].start < PgSize /\ \A i \in 1 .. L : i < j => rows[j].start < rows[i].start
          BY <3>2, <5>1
        <5>4. rows[j + 1].start \in Int /\ \A i \in 1 .. L : rows[i].start \in Int
          BY <2>2
        <5>5. \A i \in 1 .. L : i < j + 1 => i < j \/ i = j
          BY <2>1
        <5> QED
          BY <2>6, <5>1, <5>2, <5>3, <5>4, <5>5, SMTT(20)
      <4> QED
        BY <4>1, <4>2
    <3>3. Nat \subseteq Below
      <4> HIDE DEF Below
      <4> QED
        BY <3>1, <3>2, NatInduct
    <3> QED
      BY <3>3
  <2>11. \A i, j \in 1 .. L : rows[j].start < PgSize /\ (i < j => rows[j].start < rows[i].start)
    BY <2>1, <2>10
  <2>12. Bottom(file[pg]) >= SlotsEnd(L)
    <3>1. CASE rows = <<>>
      <4>1. L = 0
        BY <3>1
      <4> QED
        BY <3>1, <4>1, PageAssumption DEF Bottom, SlotsEnd
    <3>2. CASE rows # <<>>
      <4>1. L \in 1 .. L
        BY <2>1, <3>2
      <4> QED
        BY <2>7, <3>2, <4>1 DEF Bottom
    <3> QED
      BY <3>1, <3>2
  <2>13. \A i \in 1 .. L : RowSize(file[pg], i) = ms[i].size /\ rows[i].what = ms[i].what
    BY <2>8
  <2>14. Kept(file[pg], ms)
    BY <2>1, <2>4, <2>9, <2>11, <2>12, <2>13 DEF Kept
  <2> QED
    BY <2>4, <2>5, <2>9, <2>14
<1>4. file \in [DOMAIN file -> TempPage] /\ meant \in [DOMAIN file -> Seq(MeantRow)]
  BY <1>1, <1>2, <1>3
<1> QED
  BY <1>1, <1>3, <1>4 DEF RowsInv

\* Changing one page, and what is meant by it, leaves the others.
LEMMA OnePageKept ==
  ASSUME RowsInv, NEW pg \in DOMAIN file, NEW page, NEW ms, Kept(page, ms),
         file' = [file EXCEPT ![pg] = page], meant' = [meant EXCEPT ![pg] = ms]
  PROVE  RowsInv'
<1>1. page \in TempPage /\ ms \in Seq(MeantRow)
  BY DEF Kept
<1>2. /\ file \in [DOMAIN file -> TempPage] /\ meant \in [DOMAIN file -> Seq(MeantRow)]
      /\ FilePages \in Seq(DOMAIN file)
      /\ \A q \in DOMAIN file : Kept(file[q], meant[q])
  BY DEF RowsInv
<1>3. DOMAIN file' = DOMAIN file
  OBVIOUS
<1>4. file' \in [DOMAIN file' -> TempPage] /\ meant' \in [DOMAIN file' -> Seq(MeantRow)]
  BY <1>1, <1>2, <1>3
<1>5. ASSUME NEW q \in DOMAIN file PROVE Kept(file'[q], meant'[q])
  <2>1. CASE q = pg
    <3>1. file'[q] = page /\ meant'[q] = ms
      BY <1>2, <2>1
    <3> QED
      BY <3>1
  <2>2. CASE q # pg
    <3>1. file'[q] = file[q] /\ meant'[q] = meant[q]
      BY <1>2, <2>2
    <3> QED
      BY <1>2, <3>1
  <2> QED
    BY <2>1, <2>2
<1> QED
  BY <1>2, <1>3, <1>4, <1>5 DEF RowsInv, Kept

LEMMA NextRowsInv == RowsInv /\ [PageNext]_pageVars => RowsInv'
<1> SUFFICES ASSUME RowsInv, [PageNext]_pageVars PROVE RowsInv'
  OBVIOUS
<1>1. ASSUME file' = file, meant' = meant PROVE RowsInv'
  BY <1>1 DEF RowsInv, Kept
<1>2. ASSUME NEW what \in Rows, NEW size \in Sizes, AddTemp(what, size) PROVE RowsInv'
  BY <1>1, <1>2 DEF AddTemp
<1>3. ASSUME NEW what \in Rows, NEW size \in Sizes, mdb_insert_row(what, size) PROVE RowsInv'
  <2>1. PICK pg : pg = mdb_map_find_next_freepage(size)
    OBVIOUS
  <2>2. pg \in DOMAIN file /\ file[pg].rows # <<>> /\ mdb_pg_get_freespace(file[pg]) >= size
    BY <1>3, <2>1, FreePageHasRows DEF mdb_insert_row
  <2> DEFINE page == CopiedRows(file[pg])
             ms   == CopiedMeant(meant[pg], file[pg])
             squeezed == mdb_pg_get_freespace(file[pg]) < size + 2
             m    == [what |-> what, size |-> size, flagged |-> FALSE, squeezed |-> squeezed]
  <2>3. Kept(file[pg], meant[pg])
    BY <2>2 DEF RowsInv
  <2>4. Kept(page, ms) /\ Len(page.rows) = Len(file[pg].rows) /\ Bottom(page) = Bottom(file[pg])
    BY <2>3, KeptCopied
  <2>5. page.rows # <<>>
    <3>1. file[pg] \in TempPage /\ page \in TempPage
      BY <2>3, <2>4 DEF Kept
    <3>2. Len(file[pg].rows) # 0
      BY <2>2, <3>1 DEF TempPage
    <3> QED
      BY <2>4, <3>2
  <2>6. squeezed \in BOOLEAN /\ (Bottom(page) - SlotsEnd(Len(page.rows)) < size + 2 => squeezed)
    BY <2>2, <2>4 DEF mdb_pg_get_freespace
  <2>7. file' = [file EXCEPT ![pg] = WithRow(page, what, size)]
    BY <1>3, <2>1 DEF mdb_insert_row
  <2>8. meant' = [meant EXCEPT ![pg] = Append(ms, m)]
    BY <1>3, <2>1 DEF mdb_insert_row
  <2> HIDE DEF page, ms, squeezed
  <2>9. Kept(WithRow(page, what, size), Append(ms, m))
    BY <2>4, <2>5, <2>6, KeptWithRow
  <2> HIDE DEF m
  <2> QED
    BY <2>2, <2>7, <2>8, <2>9, OnePageKept
<1>4. ASSUME NEW what \in Rows, NEW size \in Sizes, NEW pg \in DOMAIN file,
             NEW i \in DOMAIN file[pg].rows, mdb_update_row(pg, i, what, size)
      PROVE  RowsInv'
  <2> DEFINE ms == [CopiedMeant(meant[pg], file[pg]) EXCEPT ![i] =
                     [what |-> what, size |-> size, squeezed |-> FALSE, flagged |-> FALSE]]
  <2>1. Kept(file[pg], meant[pg]) /\ RowsFit(file[pg], i, size)
    BY <1>4 DEF RowsInv, mdb_update_row
  <2>2. Kept(Replaced(file[pg], i, what, size), ms)
    BY <2>1, KeptReplaced
  <2>3. file' = [file EXCEPT ![pg] = Replaced(file[pg], i, what, size)]
    BY <1>4 DEF mdb_update_row
  <2>4. meant' = [meant EXCEPT ![pg] = ms]
    BY <1>4 DEF mdb_update_row
  <2> HIDE DEF ms
  <2> QED
    BY <2>2, <2>3, <2>4, OnePageKept
<1>5. CASE UNCHANGED pageVars
  BY <1>1, <1>5 DEF pageVars
<1> QED
  BY <1>2, <1>3, <1>4, <1>5 DEF PageNext

\* Where the slots end below the lowest row, they end below every row.
LEMMA RowsInvFileRows == RowsInv => FileRows
<1> SUFFICES ASSUME RowsInv, NEW pg \in DOMAIN file, NEW i \in DOMAIN file[pg].rows
             PROVE  /\ RowSize(file[pg], i) = meant[pg][i].size
                    /\ file[pg].rows[i].what # meant[pg][i].what
                         => meant[pg][i].squeezed \/ meant[pg][i].flagged
                    /\ \/ file[pg].rows[i].start >= SlotsEnd(Len(file[pg].rows))
                       \/ \E k \in DOMAIN meant[pg] : meant[pg][k].squeezed
  BY DEF FileRows
<1>1. Kept(file[pg], meant[pg]) /\ file[pg] \in TempPage
  BY DEF RowsInv, Kept
<1> DEFINE rows == file[pg].rows
           L    == Len(rows)
<1>2. /\ L \in Nat /\ DOMAIN rows = 1 .. L /\ i \in 1 .. L
      /\ \A k \in 1 .. L : rows[k].start \in Int
      /\ SlotsEnd(L) \in Int
  BY <1>1, PageTypes
<1>3. rows[i].start >= Bottom(file[pg])
  <2>1. L \in 1 .. L /\ rows # <<>> /\ (i = L \/ i < L)
    BY <1>2
  <2>2. i < L => rows[L].start < rows[i].start
    BY <1>1, <1>2, <2>1 DEF Kept
  <2>3. Bottom(file[pg]) = rows[L].start
    BY <2>1 DEF Bottom
  <2>4. rows[i].start \in Int /\ rows[L].start \in Int
    BY <1>2, <2>1
  <2> QED
    BY <2>1, <2>2, <2>3, <2>4
<1>4. /\ RowSize(file[pg], i) = meant[pg][i].size
      /\ rows[i].what # meant[pg][i].what => meant[pg][i].squeezed \/ meant[pg][i].flagged
      /\ \/ Bottom(file[pg]) >= SlotsEnd(L)
         \/ \E k \in DOMAIN meant[pg] : meant[pg][k].squeezed
  BY <1>1 DEF Kept
<1>5. Bottom(file[pg]) \in Int /\ rows[i].start \in Int
  BY <1>1, <1>2, PageTypes
<1> QED
  BY <1>2, <1>3, <1>4, <1>5

-----------------------------------------------------------------------------
(* Rows of a temporary table *)

GivenRow == [what : Rows \cup {Damaged}, size : Int]

\* Rows read so far, page by page: the recursive definition has a value.
LEMMA RowsBeforeDef ==
  \A p \in Nat : RowsBefore[p] = IF p = 0 THEN <<>> ELSE RowsBefore[p - 1] \o Held(temp[p])
<1> DEFINE h == [p \in Nat |-> Held(temp[p])]
<1>1. PICK f : f = [p \in Nat |-> IF p = 0 THEN <<>> ELSE f[p - 1] \o h[p]]
  BY ConcatExists
<1>2. f = [p \in Nat |-> IF p = 0 THEN <<>> ELSE f[p - 1] \o Held(temp[p])]
  BY <1>1
<1>3. RowsBefore = [p \in Nat |-> IF p = 0 THEN <<>> ELSE RowsBefore[p - 1] \o Held(temp[p])]
  BY <1>2 DEF RowsBefore
<1> QED
  BY <1>3

LEMMA RowsBeforeDefNext ==
  \A p \in Nat : RowsBefore'[p] = IF p = 0 THEN <<>> ELSE RowsBefore'[p - 1] \o Held(temp'[p])
<1>1. (\A p \in Nat : RowsBefore[p] = IF p = 0 THEN <<>> ELSE RowsBefore[p - 1] \o Held(temp[p]))'
  BY RowsBeforeDef, PTL
<1> QED
  BY <1>1

\* What a page holds.
LEMMA HeldType ==
  ASSUME NEW page \in TempPage
  PROVE  /\ Held(page) \in Seq(GivenRow) /\ Len(Held(page)) = Len(page.rows)
         /\ Held(page) = [i \in 1 .. Len(page.rows) |->
                           [what |-> page.rows[i].what, size |-> RowSize(page, i)]]
<1> DEFINE L == Len(page.rows)
<1>1. /\ L \in Nat /\ DOMAIN page.rows = 1 .. L /\ PgSize \in Int
      /\ \A i \in 1 .. L : page.rows[i] \in Row /\ page.rows[i].start \in Int
  BY PageTypes
<1>2. \A i \in 1 .. L : page.rows[i].what \in Rows \cup {Damaged} /\ RowSize(page, i) \in Int
  <2> TAKE i \in 1 .. L
  <2>1. i # 1 => i - 1 \in 1 .. L
    BY <1>1
  <2> QED
    BY <1>1, <2>1 DEF RowSize, Row
<1>3. Held(page) = [i \in 1 .. L |-> [what |-> page.rows[i].what, size |-> RowSize(page, i)]]
  BY <1>1 DEF Held
<1>4. \A i \in 1 .. L : [what |-> page.rows[i].what, size |-> RowSize(page, i)] \in GivenRow
  BY <1>2 DEF GivenRow
<1>5. Held(page) \in [1 .. L -> GivenRow]
  BY <1>3, <1>4
<1> QED
  BY <1>1, <1>3, <1>5

\* A row added to a page is read behind those the page held.
LEMMA HeldWithRow ==
  ASSUME NEW page \in TempPage, NEW what \in Rows, NEW size \in Sizes,
         Bottom(page) - size >= SlotsEnd(Len(page.rows) + 1)
  PROVE  /\ WithRow(page, what, size) \in TempPage
         /\ Held(WithRow(page, what, size)) = Append(Held(page), [what |-> what, size |-> size])
<1> DEFINE L   == Len(page.rows)
           n   == L + 1
           pos == Bottom(page) - size
           row == [start |-> pos, flag |-> FALSE,
                   what |-> IF pos < SlotsEnd(n) THEN Damaged ELSE what]
           p1  == WithRow(page, what, size)
<1>1. /\ page.rows \in Seq(Row) /\ L \in Nat /\ DOMAIN page.rows = 1 .. L
      /\ \A i \in 1 .. L : page.rows[i] \in Row /\ page.rows[i].start \in Int
      /\ Bottom(page) \in Int /\ SlotsEnd(L) \in Int /\ PgSize \in Int
      /\ SlotsEnd(n) = SlotsEnd(L) + 2
  BY PageTypes
<1>2. size \in Nat /\ size > 0 /\ size \in Int
  BY PageAssumption
<1>3. p1 = [free |-> pos - SlotsEnd(n), rows |-> Append(page.rows, row)]
  BY DEF WithRow
<1>4. pos \in Int /\ SlotsEnd(n) \in Int
  BY <1>1, <1>2
<1>5. row \in Row /\ row.start = pos /\ row.what = what
  <2>1. ~(pos < SlotsEnd(n))
    BY <1>4
  <2> QED
    BY <1>4, <2>1 DEF Row
<1> HIDE DEF row, pos
<1>6. /\ p1.rows \in Seq(Row) /\ Len(p1.rows) = n /\ DOMAIN p1.rows = 1 .. n
      /\ p1.rows[n] = row
      /\ \A i \in 1 .. L : p1.rows[i] = page.rows[i]
  BY <1>1, <1>3, <1>5
<1>7. p1 \in TempPage
  BY <1>3, <1>4, <1>6 DEF TempPage
<1> HIDE DEF p1
<1>8. RowSize(p1, n) = size
  <2>1. RowSize(p1, n) = (IF n = 1 THEN PgSize ELSE p1.rows[n - 1].start) - pos
    BY <1>5, <1>6 DEF RowSize
  <2>2. (IF n = 1 THEN PgSize ELSE p1.rows[n - 1].start) = Bottom(page)
    <3>1. CASE page.rows = <<>>
      BY <3>1 DEF Bottom
    <3>2. CASE page.rows # <<>>
      <4>1. L \in 1 .. L /\ n # 1 /\ n - 1 = L
        BY <1>1, <3>2
      <4> QED
        BY <1>6, <3>2, <4>1 DEF Bottom
    <3> QED
      BY <3>1, <3>2
  <2> QED
    BY <1>1, <1>2, <2>1, <2>2 DEF pos
<1>9. \A i \in 1 .. L : RowSize(p1, i) = RowSize(page, i)
  <2>1. \A i \in 1 .. L : i # 1 => i - 1 \in 1 .. L
    BY <1>1
  <2> QED
    BY <1>6, <2>1 DEF RowSize
<1>10. /\ Held(page) \in Seq(GivenRow) /\ Len(Held(page)) = L
       /\ Held(page) = [i \in 1 .. L |-> [what |-> page.rows[i].what, size |-> RowSize(page, i)]]
  BY HeldType
<1>11. Held(p1) = [i \in 1 .. n |-> [what |-> p1.rows[i].what, size |-> RowSize(p1, i)]]
  BY <1>6, <1>7, HeldType
<1> DEFINE x == [what |-> what, size |-> size]
<1>12. \A i \in 1 .. n : Held(p1)[i] = IF i = n THEN x ELSE Held(page)[i]
  <2> TAKE i \in 1 .. n
  <2>1. CASE i = n
    BY <1>5, <1>6, <1>8, <1>11, <2>1
  <2>2. CASE i # n
    <3>1. i \in 1 .. L
      BY <1>1, <2>2
    <3> QED
      BY <1>6, <1>9, <1>10, <1>11, <2>2, <3>1
  <2> QED
    BY <2>1, <2>2
<1>13. x \in GivenRow
  BY <1>2 DEF GivenRow
<1> HIDE DEF x
<1>14. Held(p1) = [i \in 1 .. n |-> IF i = n THEN x ELSE Held(page)[i]]
  BY <1>11, <1>12
<1>15. Append(Held(page), x) = [i \in 1 .. n |-> IF i = n THEN x ELSE Held(page)[i]]
  BY <1>1, <1>10, <1>13
<1> QED
  BY <1>7, <1>14, <1>15 DEF p1, x

\* Sequences one behind the other, and an element behind them.
LEMMA AppendConcat ==
  ASSUME NEW T, NEW s \in Seq(T), NEW t \in Seq(T), NEW x \in T
  PROVE  /\ s \o <<x>> = Append(s, x)
         /\ s \o Append(t, x) = Append(s \o t, x)
<1>1. s \o t \in Seq(T) /\ Len(s \o t) = Len(s) + Len(t)
  OBVIOUS
<1>2. Append(t, x) \in Seq(T) /\ Len(Append(t, x)) = Len(t) + 1
  OBVIOUS
<1>3. s \o Append(t, x) \in Seq(T) /\ Len(s \o Append(t, x)) = Len(s) + Len(t) + 1
  BY <1>2
<1>4. Append(s \o t, x) \in Seq(T) /\ Len(Append(s \o t, x)) = Len(s) + Len(t) + 1
  BY <1>1
<1>5. ASSUME NEW i \in 1 .. Len(s) + Len(t) + 1
      PROVE  (s \o Append(t, x))[i] = Append(s \o t, x)[i]
  <2>1. CASE i = Len(s) + Len(t) + 1
    BY <1>1, <1>2, <2>1
  <2>2. CASE i # Len(s) + Len(t) + 1 /\ i > Len(s)
    BY <1>1, <1>2, <2>2
  <2>3. CASE i <= Len(s)
    BY <1>1, <1>2, <2>3
  <2> QED
    BY <2>1, <2>2, <2>3
<1>6. s \o Append(t, x) = Append(s \o t, x)
  BY <1>3, <1>4, <1>5
<1>7. s \o <<x>> = Append(s, x)
  OBVIOUS
<1> QED
  BY <1>6, <1>7

TempInv == /\ PageInv
           /\ given \in Seq(GivenRow)
           /\ TempRows

\* As far as the pages of the table reach, what was read is a sequence of rows.
LEMMA RowsBeforeType ==
  ASSUME temp \in Seq(TempPage)
  PROVE  \A p \in 0 .. Len(temp) : RowsBefore[p] \in Seq(GivenRow)
<1> DEFINE S == {p \in Nat : p <= Len(temp) => RowsBefore[p] \in Seq(GivenRow)}
<1>1. 0 \in S
  <2>1. RowsBefore[0] = <<>>
    BY RowsBeforeDef
  <2>2. <<>> \in Seq(GivenRow)
    OBVIOUS
  <2>3. RowsBefore[0] \in Seq(GivenRow)
    BY <2>1, <2>2
  <2> QED
    BY <2>3
<1>2. ASSUME NEW p \in Nat, p \in S PROVE p + 1 \in S
  <2> SUFFICES ASSUME p + 1 <= Len(temp) PROVE RowsBefore[p + 1] \in Seq(GivenRow)
    OBVIOUS
  <2>1. RowsBefore[p + 1] = RowsBefore[p] \o Held(temp[p + 1])
    <3>1. p + 1 \in Nat /\ p + 1 # 0 /\ (p + 1) - 1 = p
      OBVIOUS
    <3>2. RowsBefore[p + 1] =
            IF p + 1 = 0 THEN <<>> ELSE RowsBefore[(p + 1) - 1] \o Held(temp[p + 1])
      BY <3>1, RowsBeforeDef
    <3> QED
      BY <3>1, <3>2
  <2>2. RowsBefore[p] \in Seq(GivenRow)
    BY <1>2
  <2>3. Held(temp[p + 1]) \in Seq(GivenRow)
    <3>1. temp[p + 1] \in TempPage
      OBVIOUS
    <3> QED
      BY <3>1, HeldType
  <2> QED
    BY <2>1, <2>2, <2>3
<1>3. Nat \subseteq S
  <2> HIDE DEF S
  <2> QED
    BY <1>1, <1>2, NatInduct
<1> QED
  BY <1>3

\* Pages that stay as they are are read as they were.
LEMMA RowsBeforeKept ==
  ASSUME NEW n \in Nat, \A p \in 1 .. n : temp'[p] = temp[p]
  PROVE  \A p \in 0 .. n : RowsBefore'[p] = RowsBefore[p]
<1> DEFINE S == {p \in Nat : p <= n => RowsBefore'[p] = RowsBefore[p]}
<1>1. 0 \in S
  BY RowsBeforeDef, RowsBeforeDefNext
<1>2. ASSUME NEW p \in Nat, p \in S PROVE p + 1 \in S
  <2> SUFFICES ASSUME p + 1 <= n PROVE RowsBefore'[p + 1] = RowsBefore[p + 1]
    OBVIOUS
  <2>1. p + 1 \in Nat /\ p + 1 # 0 /\ (p + 1) - 1 = p /\ p + 1 \in 1 .. n /\ p <= n
    OBVIOUS
  <2>2. RowsBefore[p + 1] =
          IF p + 1 = 0 THEN <<>> ELSE RowsBefore[(p + 1) - 1] \o Held(temp[p + 1])
    BY <2>1, RowsBeforeDef
  <2>3. RowsBefore'[p + 1] =
          IF p + 1 = 0 THEN <<>> ELSE RowsBefore'[(p + 1) - 1] \o Held(temp'[p + 1])
    BY <2>1, RowsBeforeDefNext
  <2>4. RowsBefore'[p] = RowsBefore[p]
    BY <1>2, <2>1
  <2> QED
    BY <2>1, <2>2, <2>3, <2>4
<1>3. Nat \subseteq S
  <2> HIDE DEF S
  <2> QED
    BY <1>1, <1>2, NatInduct
<1> QED
  BY <1>3

\* The last page, and what is read behind it.
LEMMA RowsBeforeLast ==
  ASSUME NEW n \in Nat
  PROVE  /\ RowsBefore[n + 1] = RowsBefore[n] \o Held(temp[n + 1])
         /\ RowsBefore'[n + 1] = RowsBefore'[n] \o Held(temp'[n + 1])
<1>1. n + 1 \in Nat /\ n + 1 # 0 /\ (n + 1) - 1 = n
  OBVIOUS
<1>2. RowsBefore[n + 1] =
        IF n + 1 = 0 THEN <<>> ELSE RowsBefore[(n + 1) - 1] \o Held(temp[n + 1])
  BY <1>1, RowsBeforeDef
<1>3. RowsBefore'[n + 1] =
        IF n + 1 = 0 THEN <<>> ELSE RowsBefore'[(n + 1) - 1] \o Held(temp'[n + 1])
  BY <1>1, RowsBeforeDefNext
<1> QED
  BY <1>1, <1>2, <1>3

LEMMA InitTempInv == PageInit => TempInv
<1> SUFFICES ASSUME PageInit PROVE TempInv
  OBVIOUS
<1>1. temp = <<>> /\ given = <<>>
  BY DEF PageInit
<1>2. RowsBefore[0] = <<>>
  BY RowsBeforeDef
<1>3. Len(temp) = 0
  BY <1>1
<1> QED
  BY <1>1, <1>2, <1>3, InitPageInv DEF TempInv, TempRows

LEMMA NextTempInv == TempInv /\ [PageNext]_pageVars => TempInv'
<1> SUFFICES ASSUME TempInv, [PageNext]_pageVars PROVE TempInv'
  OBVIOUS
<1>1. /\ PageInv' /\ temp \in Seq(TempPage) /\ given \in Seq(GivenRow)
      /\ RowsBefore[Len(temp)] = given
      /\ \A p \in DOMAIN temp : PageSound(temp[p])
  BY NextPageInv DEF TempInv, PageInv, TempRows, TempSound
<1>2. /\ Len(temp) \in Nat /\ DOMAIN temp = 1 .. Len(temp)
      /\ \A p \in 1 .. Len(temp) : temp[p] \in TempPage
  BY <1>1
<1>3. ASSUME temp' = temp, given' = given PROVE TempInv'
  <2>1. \A p \in 0 .. Len(temp) : RowsBefore'[p] = RowsBefore[p]
    BY <1>2, <1>3, RowsBeforeKept
  <2>2. RowsBefore'[Len(temp')] = given'
    BY <1>1, <1>2, <1>3, <2>1
  <2> QED
    BY <1>1, <1>3, <2>2 DEF TempInv, TempRows
<1>4. ASSUME NEW what \in Rows, NEW size \in Sizes, AddTemp(what, size) PROVE TempInv'
  <2> DEFINE x == [what |-> what, size |-> size]
  <2>0. size \in Nat /\ size > 0 /\ size + 2 <= PgSize - Rco - 2 /\ x \in GivenRow
    BY PageAssumption DEF GivenRow
  <2>1. given' = Append(given, x)
    BY <1>4 DEF AddTemp
  <2>2. CASE temp = <<>> \/ ~HasPlace(temp[Len(temp)], size)
    <3> DEFINE page == WithRow(mdb_new_data_pg, what, size)
               L    == Len(temp)
    <3>1. temp' = Append(temp, page)
      BY <1>4, <2>2 DEF AddTemp
    <3>2. Bottom(mdb_new_data_pg) - size >= SlotsEnd(Len(mdb_new_data_pg.rows) + 1)
      <4>1. mdb_new_data_pg.rows = <<>>
        BY DEF mdb_new_data_pg
      <4>2. Bottom(mdb_new_data_pg) = PgSize /\ Len(mdb_new_data_pg.rows) + 1 = 1
        BY <4>1 DEF Bottom
      <4>3. SlotsEnd(1) = Rco + 4
        BY PageAssumption DEF SlotsEnd
      <4> QED
        BY <2>0, <4>2, <4>3, PageAssumption
    <3>3. page \in TempPage /\ Held(page) = Append(Held(mdb_new_data_pg), x)
      BY <3>2, NewPageSound, HeldWithRow
    <3>4. Held(mdb_new_data_pg) = <<>>
      BY DEF Held, mdb_new_data_pg
    <3>5. Held(page) = <<x>>
      BY <3>3, <3>4
    <3> HIDE DEF page, x
    <3>6. /\ Len(temp') = L + 1 /\ temp'[L + 1] = page
          /\ \A p \in 1 .. L : temp'[p] = temp[p]
      BY <1>1, <1>2, <3>1, <3>3
    <3>7. RowsBefore'[L] = given
      <4>1. \A p \in 0 .. L : RowsBefore'[p] = RowsBefore[p]
        BY <1>2, <3>6, RowsBeforeKept
      <4> QED
        BY <1>1, <1>2, <4>1
    <3>8. RowsBefore'[L + 1] = given \o <<x>>
      <4>1. RowsBefore'[L + 1] = RowsBefore'[L] \o Held(temp'[L + 1])
        BY <1>2, RowsBeforeLast
      <4> QED
        BY <3>5, <3>6, <3>7, <4>1
    <3>9. RowsBefore'[Len(temp')] = given'
      BY <1>1, <2>0, <2>1, <3>6, <3>8, AppendConcat
    <3>10. given' \in Seq(GivenRow)
      BY <1>1, <2>0, <2>1
    <3> QED
      BY <1>1, <3>9, <3>10 DEF TempInv, TempRows
  <2>3. CASE ~(temp = <<>> \/ ~HasPlace(temp[Len(temp)], size))
    <3> DEFINE last == Len(temp)
               page == WithRow(temp[last], what, size)
               n    == last - 1
    <3>1. temp' = [temp EXCEPT ![last] = page]
      BY <1>4, <2>3 DEF AddTemp
    <3>2. last \in 1 .. last /\ n \in Nat /\ n + 1 = last /\ temp[last] \in TempPage
      BY <1>2, <2>3
    <3>3. Bottom(temp[last]) - size >= SlotsEnd(Len(temp[last].rows) + 1)
      <4> DEFINE b == Bottom(temp[last])
                 e == SlotsEnd(Len(temp[last].rows))
      <4>1. b \in Int /\ e \in Int /\ SlotsEnd(Len(temp[last].rows) + 1) = e + 2
        BY <3>2, PageTypes
      <4>2. temp[last].free = b - e /\ temp[last].free >= size + 2
        BY <1>1, <1>2, <2>3, <3>2 DEF PageSound, HasPlace
      <4> HIDE DEF b, e
      <4>3. b - size >= e + 2
        BY <2>0, <4>1, <4>2
      <4> QED
        BY <4>1, <4>3 DEF b
    <3>4. page \in TempPage /\ Held(page) = Append(Held(temp[last]), x)
      BY <3>2, <3>3, HeldWithRow
    <3> HIDE DEF page, x
    <3>5. /\ Len(temp') = last /\ temp'[last] = page
          /\ \A p \in 1 .. n : temp'[p] = temp[p]
      <4>1. temp'[last] = page /\ \A p \in 1 .. n : temp'[p] = temp[p]
        <5>1. \A p \in 1 .. n : p \in 1 .. last /\ p # last
          <6>1. \A l \in Nat : \A p \in 1 .. l - 1 : p \in 1 .. l /\ p # l
            OBVIOUS
          <6> QED
            BY <1>2, <6>1
        <5> QED
          BY <1>2, <3>1, <3>2, <5>1
      <4>2. temp' \in [1 .. last -> TempPage]
        BY <1>2, <3>1, <3>2, <3>4
      <4>3. Len(temp') = last
        BY <1>2, <4>2
      <4> QED
        BY <4>1, <4>3
    <3>6. RowsBefore'[n] = RowsBefore[n]
      <4>1. \A p \in 0 .. n : RowsBefore'[p] = RowsBefore[p]
        BY <3>2, <3>5, RowsBeforeKept
      <4> QED
        BY <3>2, <4>1
    <3>7. RowsBefore'[last] = RowsBefore[n] \o Append(Held(temp[last]), x)
      <4>1. RowsBefore'[n + 1] = RowsBefore'[n] \o Held(temp'[n + 1])
        BY <3>2, RowsBeforeLast
      <4> QED
        BY <3>2, <3>4, <3>5, <3>6, <4>1
    <3>8. given = RowsBefore[n] \o Held(temp[last])
      <4>1. RowsBefore[n + 1] = RowsBefore[n] \o Held(temp[n + 1])
        BY <3>2, RowsBeforeLast
      <4> QED
        BY <1>1, <3>2, <4>1
    <3>9. RowsBefore[n] \in Seq(GivenRow) /\ Held(temp[last]) \in Seq(GivenRow)
      <4>1. n \in 0 .. Len(temp)
        BY <3>2
      <4> QED
        BY <1>1, <3>2, <4>1, RowsBeforeType, HeldType
    <3>10. RowsBefore'[last] = Append(given, x)
      <4>1. RowsBefore[n] \o Append(Held(temp[last]), x) = Append(RowsBefore[n] \o Held(temp[last]), x)
        <5>1. x \in GivenRow
          BY <2>0
        <5>2. PICK s \in Seq(GivenRow), t \in Seq(GivenRow) : s = RowsBefore[n] /\ t = Held(temp[last])
          BY <3>9
        <5>3. s \o Append(t, x) = Append(s \o t, x)
          BY <5>1, AppendConcat
        <5> QED
          BY <5>2, <5>3
      <4> QED
        BY <3>7, <3>8, <4>1
    <3>11. RowsBefore'[Len(temp')] = given' /\ given' \in Seq(GivenRow)
      BY <1>1, <2>0, <2>1, <3>5, <3>10
    <3> QED
      BY <1>1, <3>11 DEF TempInv, TempRows
  <2> QED
    BY <2>2, <2>3
<1>5. ASSUME NEW what \in Rows, NEW size \in Sizes, mdb_insert_row(what, size) PROVE TempInv'
  BY <1>3, <1>5 DEF mdb_insert_row
<1>6. ASSUME NEW what \in Rows, NEW size \in Sizes, NEW pg \in DOMAIN file,
             NEW i \in DOMAIN file[pg].rows, mdb_update_row(pg, i, what, size)
      PROVE  TempInv'
  BY <1>3, <1>6 DEF mdb_update_row
<1>7. CASE UNCHANGED pageVars
  BY <1>3, <1>7 DEF pageVars
<1> QED
  BY <1>4, <1>5, <1>6, <1>7 DEF PageNext

\* A row of the file holds what was last written into it, whatever is inserted or
\* updated beside it, unless it was squeezed in or flagged when it was copied, and
\* a temporary table is read as it was filled: for pages of any size, any number of
\* them, and rows of any size (mdb_insert_row, mdb_replace_row, mdb_add_row_to_pg).
THEOREM RowsAlwaysKept == PageSpec => []RowsKept
<1>1. RowsInv /\ TempInv => RowsKept
  BY RowsInvFileRows DEF TempInv, RowsKept
<1>2. PageSpec => []RowsInv
  BY InitRowsInv, NextRowsInv, PTL DEF PageSpec
<1>3. PageSpec => []TempInv
  BY InitTempInv, NextTempInv, PTL DEF PageSpec
<1> QED
  BY <1>1, <1>2, <1>3, PTL

-----------------------------------------------------------------------------
(* Options *)

ThreadState ==
  [set : BOOLEAN, at : 0 .. Len(asked), passing : BOOLEAN, on : SUBSET DebugAll, after : BOOLEAN]

\* What a thread has of the options when it is at one of them.
OptionsRead(o) ==
  /\ o.set => /\ o.at = Len(asked) \/ o.at \in nuls
              /\ asked # <<>> => o.at > 0
              /\ o.on = Upto(o.at)
  /\ ~o.set => o.on = Upto(o.at - 1)
  /\ o.passing => ~o.set /\ o.at > 0 /\ o.at < Len(asked)
  /\ o.after => o.at = 1 /\ ~o.passing /\ 1 \in nuls

OptionsInv ==
  /\ asked \in Seq(STRING)
  /\ opts \in [Threads -> ThreadState]
  /\ \A t \in Threads : OptionsRead(opts[t])
  /\ \A i \in nuls \cup pending : i \in 1 .. Len(asked) - 1 /\ \E t \in Threads : opts[t].at > i

LEMMA UptoMore ==
  ASSUME asked \in Seq(STRING), NEW k \in 1 .. Len(asked)
  PROVE  /\ Adds(Upto(k - 1), asked[k]) = Upto(k)
         /\ Upto(k - 1) \in SUBSET DebugAll /\ Upto(k) \in SUBSET DebugAll
<1>1. 1 .. k = (1 .. k - 1) \cup {k}
  OBVIOUS
<1>2. \A o : Option(o) \subseteq DebugAll
  BY DEF Option
<1> QED
  BY <1>1, <1>2 DEF Upto, Adds

LEMMA UptoNone == Upto(0) = {} /\ Upto(0 - 1) = {}
<1>1. 1 .. 0 = {} /\ 1 .. (0 - 1) = {}
  OBVIOUS
<1> QED
  BY <1>1 DEF Upto

LEMMA InitOptionsInv == OptionsInit => OptionsInv
<1> SUFFICES ASSUME OptionsInit PROVE OptionsInv
  OBVIOUS
<1>1. asked \in Seq(STRING) /\ Len(asked) \in Nat
  BY OptionsAssumption DEF OptionsInit
<1>2. Unset \in ThreadState
  BY <1>1 DEF Unset, ThreadState
<1>3. OptionsRead(Unset)
  BY UptoNone DEF OptionsRead, Unset
<1> QED
  BY <1>1, <1>2, <1>3 DEF OptionsInit, OptionsInv

\* A thread moves on, and the others stay as they are.
LEMMA ThreadMoves ==
  ASSUME OptionsInv, NEW t \in Threads, NEW new \in ThreadState,
         asked' = asked, nuls' = nuls, opts' = [opts EXCEPT ![t] = new],
         new.at >= opts[t].at, OptionsRead(new),
         \A i \in pending' : \/ i \in pending
                             \/ i \in 1 .. Len(asked) - 1 /\ new.at > i
  PROVE  OptionsInv'
<1>1. /\ opts' \in [Threads -> ThreadState] /\ opts'[t] = new
      /\ \A u \in Threads \ {t} : opts'[u] = opts[u]
  BY DEF OptionsInv
<1>2. ThreadState' = ThreadState /\ \A o : OptionsRead(o)' <=> OptionsRead(o)
  BY DEF ThreadState, OptionsRead, Upto
<1>3. \A u \in Threads : OptionsRead(opts[u])'
  <2> TAKE u \in Threads
  <2>1. OptionsRead(opts'[u])
    BY <1>1 DEF OptionsInv
  <2> QED
    BY <2>1 DEF OptionsRead, Upto
<1>4. \A u \in Threads : opts[u].at \in Int /\ opts'[u].at \in Int /\ opts'[u].at >= opts[u].at
  BY <1>1 DEF OptionsInv, ThreadState
<1>5. ASSUME NEW i \in nuls' \cup pending'
      PROVE  i \in 1 .. Len(asked) - 1 /\ \E u \in Threads : opts'[u].at > i
  <2>1. CASE i \in nuls \cup pending
    <3>1. PICK u \in Threads : opts[u].at > i
      BY <2>1 DEF OptionsInv
    <3>2. i \in 1 .. Len(asked) - 1 /\ i \in Int
      BY <2>1 DEF OptionsInv
    <3>3. opts'[u].at > i
      BY <1>4, <3>1, <3>2
    <3> QED
      BY <3>2, <3>3
  <2>2. CASE i \in 1 .. Len(asked) - 1 /\ new.at > i
    BY <1>1, <2>2
  <2> QED
    BY <1>5, <2>1, <2>2
<1> QED
  BY <1>1, <1>2, <1>3, <1>5 DEF OptionsInv

LEMMA NextOptionsInv == OptionsInv /\ [OptionsNext]_optionVars => OptionsInv'
<1> SUFFICES ASSUME OptionsInv, [OptionsNext]_optionVars PROVE OptionsInv'
  OBVIOUS
<1>0. asked \in Seq(STRING) /\ Len(asked) \in Nat
  BY DEF OptionsInv
<1>1. ASSUME NEW t \in Threads, Begin(t) PROVE OptionsInv'
  <2> DEFINE new == IF asked = <<>> THEN [opts[t] EXCEPT !.set = TRUE]
                    ELSE [opts[t] EXCEPT !.at = 1, !.after = 1 \in nuls]
  <2>1. /\ ~opts[t].set /\ opts[t].at = 0 /\ opts' = [opts EXCEPT ![t] = new]
        /\ asked' = asked /\ nuls' = nuls /\ pending' = pending
    BY <1>1 DEF Begin
  <2>2. opts[t] \in ThreadState /\ OptionsRead(opts[t])
    BY DEF OptionsInv
  <2>3. opts[t].on = {} /\ ~opts[t].passing
    BY <2>1, <2>2, UptoNone DEF OptionsRead
  <2>4. CASE asked = <<>>
    <3>1. new = [opts[t] EXCEPT !.set = TRUE] /\ Len(asked) = 0
      BY <2>4
    <3>2. new \in ThreadState /\ new.at = 0 /\ new.set /\ new.on = {} /\ ~new.passing
          /\ new.after = opts[t].after
      BY <2>1, <2>2, <2>3, <3>1 DEF ThreadState
    <3>3. OptionsRead(new)
      BY <2>1, <2>2, <2>4, <3>1, <3>2, UptoNone DEF OptionsRead
    <3> HIDE DEF new
    <3>4. new.at >= opts[t].at /\ \A i \in pending' : i \in pending
      BY <2>1, <3>2
    <3> QED
      BY <2>1, <3>2, <3>3, <3>4, ThreadMoves
  <2>5. CASE asked # <<>>
    <3> DEFINE cut == 1 \in nuls
    <3>1. new = [opts[t] EXCEPT !.at = 1, !.after = cut] /\ 1 \in 0 .. Len(asked)
      BY <1>0, <2>5
    <3>7. cut \in BOOLEAN /\ (cut => 1 \in nuls)
      OBVIOUS
    <3> HIDE DEF cut, new
    <3>2. new \in ThreadState
      BY <2>2, <3>1, <3>7 DEF ThreadState
    <3>3. new.at = 1 /\ new.set = opts[t].set /\ new.on = opts[t].on
          /\ new.passing = opts[t].passing
      BY <2>2, <3>1 DEF ThreadState
    <3>4. new.after = cut
      BY <2>2, <3>1 DEF ThreadState
    <3>5. OptionsRead(new)
      BY <2>1, <2>3, <3>3, <3>4, <3>7, UptoNone DEF OptionsRead
    <3>6. new.at >= opts[t].at /\ \A i \in pending' : i \in pending
      BY <2>1, <3>3
    <3> QED
      BY <2>1, <3>2, <3>5, <3>6, ThreadMoves
  <2> QED
    BY <2>4, <2>5
<1>2. ASSUME NEW t \in Threads, Look(t) PROVE OptionsInv'
  <2> DEFINE at == opts[t].at
             new == IF IsLast(at) THEN [opts[t] EXCEPT !.set = TRUE, !.on = Taken(t)]
                    ELSE [opts[t] EXCEPT !.passing = TRUE]
  <2>1. /\ at > 0 /\ ~opts[t].set /\ ~opts[t].passing /\ opts' = [opts EXCEPT ![t] = new]
        /\ asked' = asked /\ nuls' = nuls /\ pending' = pending
    BY <1>2 DEF Look
  <2>2. opts[t] \in ThreadState /\ OptionsRead(opts[t])
    BY DEF OptionsInv
  <2>3. at \in 1 .. Len(asked) /\ at \in 0 .. Len(asked)
    BY <1>0, <2>1, <2>2 DEF ThreadState
  <2>4. Taken(t) = Upto(at) /\ Taken(t) \in SUBSET DebugAll
    BY <1>0, <2>1, <2>2, <2>3, UptoMore DEF OptionsRead, Taken
  <2>5. CASE IsLast(at)
    <3>1. new = [opts[t] EXCEPT !.set = TRUE, !.on = Taken(t)]
      BY <2>5
    <3>2. /\ new \in ThreadState /\ new.at = at /\ new.set /\ new.on = Taken(t) /\ ~new.passing
          /\ new.after = opts[t].after
      BY <2>1, <2>2, <2>4, <3>1 DEF ThreadState
    <3>3. OptionsRead(new)
      BY <2>1, <2>2, <2>4, <2>5, <3>2 DEF OptionsRead, IsLast
    <3> HIDE DEF new
    <3>4. new.at >= opts[t].at /\ \A i \in pending' : i \in pending
      BY <2>1, <2>3, <3>2
    <3> QED
      BY <2>1, <3>2, <3>3, <3>4, ThreadMoves
  <2>6. CASE ~IsLast(at)
    <3>1. new = [opts[t] EXCEPT !.passing = TRUE]
      BY <2>6
    <3>2. /\ new \in ThreadState /\ new.at = at /\ ~new.set /\ new.on = opts[t].on /\ new.passing
          /\ new.after = opts[t].after
      BY <2>1, <2>2, <3>1 DEF ThreadState
    <3>3. at < Len(asked) /\ ~opts[t].after
      BY <1>0, <2>2, <2>3, <2>6 DEF OptionsRead, IsLast
    <3>4. OptionsRead(new)
      BY <2>1, <2>2, <3>2, <3>3 DEF OptionsRead
    <3> HIDE DEF new
    <3>5. new.at >= opts[t].at /\ \A i \in pending' : i \in pending
      BY <2>1, <2>3, <3>2
    <3> QED
      BY <2>1, <3>2, <3>4, <3>5, ThreadMoves
  <2> QED
    BY <2>5, <2>6
<1>3. ASSUME NEW t \in Threads, Pass(t) PROVE OptionsInv'
  <2> DEFINE at == opts[t].at
             new == [opts[t] EXCEPT !.at = at + 1, !.passing = FALSE, !.on = Taken(t)]
  <2>1. /\ opts[t].passing /\ asked' = asked /\ nuls' = nuls
        /\ pending' = (pending \cup {at}) \ nuls
    BY <1>3 DEF Pass
  <2>2. opts[t] \in ThreadState /\ OptionsRead(opts[t])
    BY DEF OptionsInv
  <2>3. /\ at \in 1 .. Len(asked) /\ at \in 1 .. Len(asked) - 1 /\ at + 1 \in 0 .. Len(asked)
        /\ ~opts[t].set /\ (at + 1) - 1 = at /\ at \in Nat
    BY <1>0, <2>1, <2>2 DEF ThreadState, OptionsRead
  <2>4. Taken(t) = Upto(at) /\ Taken(t) \in SUBSET DebugAll
    BY <1>0, <2>2, <2>3, UptoMore DEF OptionsRead, Taken
  <2>5. /\ new \in ThreadState /\ new.at = at + 1 /\ ~new.set /\ new.on = Taken(t) /\ ~new.passing
        /\ new.after = opts[t].after
    BY <2>2, <2>3, <2>4 DEF ThreadState
  <2>6. ~opts[t].after
    BY <2>1, <2>2 DEF OptionsRead
  <2>7. opts' = [opts EXCEPT ![t] = new]
    BY <1>3 DEF Pass
  <2> HIDE DEF new
  <2>8. OptionsRead(new)
    BY <2>3, <2>4, <2>5, <2>6 DEF OptionsRead
  <2>9. new.at >= opts[t].at
    BY <2>3, <2>5
  <2>10. \A i \in pending' : \/ i \in pending
                             \/ i \in 1 .. Len(asked) - 1 /\ new.at > i
    <3>1. new.at > at
      BY <2>3, <2>5
    <3> HIDE DEF at
    <3> QED
      BY <2>1, <2>3, <3>1
  <2> QED
    BY <2>1, <2>5, <2>7, <2>8, <2>9, <2>10, ThreadMoves
<1>4. ASSUME Reach PROVE OptionsInv'
  <2>1. PICK i \in pending : nuls' = nuls \cup {i} /\ pending' = pending \ {i}
                             /\ asked' = asked /\ opts' = opts
    BY <1>4 DEF Reach
  <2>2. ThreadState' = ThreadState
    BY <2>1 DEF ThreadState
  <2>3. \A o : OptionsRead(o) => OptionsRead(o)'
    BY <2>1 DEF OptionsRead, Upto
  <2>4. nuls' \cup pending' = nuls \cup pending
    BY <2>1
  <2> QED
    BY <2>1, <2>2, <2>3, <2>4 DEF OptionsInv
<1>5. CASE UNCHANGED optionVars
  <2>1. ThreadState' = ThreadState /\ \A o : OptionsRead(o)' <=> OptionsRead(o)
    BY <1>5 DEF optionVars, ThreadState, OptionsRead, Upto
  <2> QED
    BY <1>5, <2>1 DEF OptionsInv, optionVars
<1> QED
  BY <1>1, <1>2, <1>3, <1>4, <1>5 DEF OptionsNext

\* Of the threads that are at some option, one is as far as any.
LEMMA OneFarthest ==
  ASSUME OptionsInv, NEW s \in Threads
  PROVE  \E t \in Threads : \A u \in Threads : opts[u].at <= opts[t].at
<1> DEFINE T == {Len(asked) - opts[t].at : t \in Threads}
<1>1. /\ Len(asked) \in Nat
      /\ \A t \in Threads : opts[t].at \in 0 .. Len(asked)
  BY DEF OptionsInv, ThreadState
<1>2. T \subseteq Nat /\ T # {}
  BY <1>1
<1>3. PICK n \in T : \A m \in T : n <= m
  <2> HIDE DEF T
  <2> QED
    BY <1>2, LeastExists
<1>4. PICK t \in Threads : n = Len(asked) - opts[t].at
  BY <1>3
<1>5. ASSUME NEW u \in Threads PROVE opts[u].at <= opts[t].at
  <2>1. n <= Len(asked) - opts[u].at
    BY <1>3
  <2> QED
    BY <1>1, <1>4, <2>1
<1> QED
  BY <1>5

\* A thread has the options that were asked for up to one of them, the first at least;
\* when all that began have loaded, one has them all; and one that began when the first
\* separator was seen cut has the first option: for any number of threads and options,
\* and whatever the order in which their writes reach the others (load_options).
THEOREM OptionsAlwaysAsked == OptionsSpec => []OptionsAsked
<1>1. OptionsInv => OptionsAsked
  <2> SUFFICES ASSUME OptionsInv PROVE OptionsAsked
    OBVIOUS
  <2>1. Len(asked) \in Nat /\ \A t \in Threads : opts[t] \in ThreadState /\ OptionsRead(opts[t])
    BY DEF OptionsInv
  <2>2. ASSUME NEW t \in Threads, Loaded(t)
        PROVE  \E k \in 0 .. Len(asked) : (asked # <<>> => k > 0) /\ opts[t].on = Upto(k)
    BY <2>1, <2>2 DEF OptionsRead, ThreadState, Loaded
  <2>3. ASSUME NEW s \in Threads, Loaded(s), \A t \in Threads : ~Loading(t)
        PROVE  \E t \in Threads : Loaded(t) /\ opts[t].on = Upto(Len(asked))
    <3>1. PICK t \in Threads : \A u \in Threads : opts[u].at <= opts[t].at
      BY OneFarthest
    <3>2. /\ opts[s].at \in Nat /\ opts[t].at \in Nat /\ opts[s].at <= opts[t].at
          /\ opts[t].at <= Len(asked)
      BY <2>1, <3>1 DEF ThreadState
    <3>3. CASE opts[t].at = 0
      <4>1. asked = <<>> /\ opts[s].at = Len(asked)
        BY <2>1, <2>3, <3>2, <3>3 DEF OptionsRead, Loaded, OptionsInv
      <4> QED
        BY <2>1, <2>3, <4>1 DEF OptionsRead, Loaded
    <3>4. CASE opts[t].at > 0
      <4>1. Loaded(t)
        BY <2>3, <3>4 DEF Loading, Loaded
      <4>2. opts[t].at \notin nuls
        BY <3>1, <3>2, <2>1 DEF OptionsInv, ThreadState
      <4>3. opts[t].at = Len(asked)
        BY <2>1, <4>1, <4>2 DEF OptionsRead, Loaded
      <4> QED
        BY <2>1, <4>1, <4>3 DEF OptionsRead, Loaded
    <3> QED
      BY <3>2, <3>3, <3>4
  <2>4. \A t \in Threads : Loaded(t) /\ opts[t].after => opts[t].on = Upto(1)
    BY <2>1 DEF OptionsRead, Loaded
  <2> QED
    BY <2>2, <2>3, <2>4 DEF OptionsAsked
<1> QED
  BY <1>1, InitOptionsInv, NextOptionsInv, PTL DEF OptionsSpec
=============================================================================
