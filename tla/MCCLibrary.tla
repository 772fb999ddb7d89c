----------------------------- MODULE MCCLibrary -----------------------------
(***************************************************************************)
(* Small files, pages and contents for the C library.                      *)
(***************************************************************************)
EXTENDS CLibrary, TLC

-----------------------------------------------------------------------------
(* Files: one of Jet3, one of Jet3 with a key, one of Jet4 with a key, one *)
(* that is no database, an empty one; under the name asked for, or in the  *)
(* directory of MDBPATH.                                                   *)
Dir(a, b) == [p \in Places |-> IF p = <<"", "a">> THEN a ELSE b]
Disk(there, bytes, pages) == [there |-> there, bytes |-> bytes, pages |-> pages]
NoFile == Disk(FALSE, <<>>, <<>>)
Plain3 == Disk(TRUE, <<0, 0, 3, 0, 1, 0, 1, 2, 3, 0, 1, 2, 2, 2, 0, 1, 3, 3>>,
               <<<<0, 0, 3, 0, 1, 0>>, <<1, 2, 3, 0, 1, 2>>, <<2, 2, 0, 1, 3, 3>>>>)
Keyed3 == Disk(TRUE, <<0, 0, 2, 2, 1, 3, 2, 0, 1, 1, 2, 1, 0, 2, 1, 2, 3, 3>>,
               <<<<0, 0, 2, 2, 1, 3>>, <<1, 2, 3, 0, 1, 2>>, <<2, 2, 0, 1, 3, 3>>>>)
Keyed4 == Disk(TRUE, <<0, 1, 1, 0, 0, 1, 0, 0, 0, 0, 0, 0, 2, 2, 0, 1, 0, 0, 3, 0, 2, 1, 0, 0>>,
               <<<<0, 1, 1, 0, 0, 1, 0, 0, 0, 0, 0, 0>>, <<1, 2, 3, 0, 1, 2, 0, 1, 2, 3, 3, 3>>>>)
Odd == Disk(TRUE, <<0, 3, 1, 1, 1, 1>>, <<>>)
Nothing == Disk(TRUE, <<>>, <<>>)
MCDirs == {Dir(Plain3, NoFile), Dir(Keyed3, Odd), Dir(NoFile, Keyed4), Dir(Nothing, NoFile),
           Dir(NoFile, NoFile)}
MCFaulty == {-1, 3}
MCPlaces == {<<"", "a">>, <<"b", "a">>}
Sym == Permutations(Handles)

-----------------------------------------------------------------------------
(* Pages: an empty one, one with two rows, one whose middle row is flagged.*)
Slot(start, what) == [start |-> start, flag |-> FALSE, what |-> what]
Gone(start, what) == [start |-> start, flag |-> TRUE, what |-> what]
PageOf(rows) == [free |-> mdb_pg_get_freespace([rows |-> rows]), rows |-> rows]
MCTables ==
  {[pg \in {5, 7} |-> IF pg = 5 THEN PageOf(<<Slot(PgSize - 3, "a")>>) ELSE PageOf(rows)] :
     rows \in {<<>>, <<Slot(PgSize - 2, "a"), Slot(PgSize - 5, "b")>>,
               <<Slot(PgSize - 2, "a"), Gone(PgSize - 4, "b"), Slot(PgSize - 6, "a")>>}}
MCFilePages == <<7, 5>>

-----------------------------------------------------------------------------
(* Options.                                                                *)
MCEnvironments == UNION {[1 .. k -> {"debug_row", "debug_all", "other"}] : k \in 0 .. 3}

-----------------------------------------------------------------------------
(* What is read: sizes and places chosen so that every wrap, page end,     *)
(* chunk end and digit carry falls within them.                            *)
Filled(n, b) == [i \in 1 .. n |-> b]
Fixed(size, offset, num) == [fixed |-> TRUE, offset |-> offset, size |-> size, num |-> num, var |-> 0]
Var(k, num)              == [fixed |-> FALSE, offset |-> 0, size |-> 0, num |-> num, var |-> k]
Value(n, b) == [null |-> FALSE, value |-> Filled(n, b)]
Null        == [null |-> TRUE, value |-> <<>>]
MCRowCases ==
  {[jet3 |-> jet3, cols |-> <<Fixed(2, 0, 0), Var(0, 1), Var(1, 2)>>, fields |-> <<f, Value(a, 7), v>>] :
     jet3 \in BOOLEAN, a \in 0 .. 50, f \in {Null, Value(2, 3)},
     v \in {Null} \cup {Value(n, 9) : n \in {0, 1, 20, 31, 32, 33, 40}}}
  \cup {[jet3 |-> jet3, cols |-> [i \in 1 .. n |-> Fixed(1, i - 1, i - 1)],
         fields |-> [i \in 1 .. n |-> IF i = gone THEN Null ELSE Value(1, i)]] :
          jet3 \in BOOLEAN, n \in 1 .. 17, gone \in {1, 2, 8, 9}}

Col(num, name) == [type |-> num, num |-> num, fixed |-> num % 2 = 0, name |-> name]
MCNames == {<<>>, <<5>>, <<5, 6, 7>>}
MCCols  == {<<Col(0, a)>> : a \in MCNames}
           \cup {<<Col(1, a), Col(0, b)>> : a, b \in MCNames}
           \cup {<<Col(2, a), Col(0, b), Col(1, c)>> : a, b, c \in MCNames}
Key(num, asc)  == [num |-> num, asc |-> asc]
Index(num, type, keys, name) ==
  [num |-> num, type |-> type, keys |-> keys, first |-> 9 + num, unique |-> type = 1, name |-> name]
MCIndexes == {<<0, <<>>>>, <<1, <<Index(0, 1, <<Key(0, TRUE)>>, <<3>>)>>>>,
              <<2, <<Index(1, 0, <<Key(0, FALSE)>>, <<4, 5>>), Index(0, 2, <<>>, <<6>>),
                     Index(0, 1, <<Key(0, TRUE), Key(0, FALSE)>>, <<7>>)>>>>,
              <<2, <<Index(0, 0, <<Key(0, TRUE)>>, <<>>), Index(0, 2, <<>>, <<6, 7>>)>>>>}
Map(there) == [there |-> there, bytes |-> <<0>>]
MCTableCases ==
  {[table |-> [jet3 |-> jet3, ridxs |-> idx[1], cols |-> cols, rest |-> <<>>],
    idxs |-> idx[2], upto |-> upto,
    usage |-> Map(idx[1] # 1 \/ upto # 3), free |-> Map(idx[1] # 1 \/ upto # 2)] :
     jet3 \in BOOLEAN, cols \in MCCols, idx \in MCIndexes, upto \in {1, 2, 3, 20}}

Prop(elem, value) == [elem |-> elem, kind |-> "text", value |-> value, whole |-> TRUE]
Torn(elem, value) == [Prop(elem, value) EXCEPT !.whole = FALSE]
Block(name, props) == [type |-> "block", name |-> name, props |-> props]
Heading == [type |-> "names", names |-> <<"Order", "Format", "Caption">>]
Want(name, key, value) == [name |-> name, key |-> key, value |-> value]
MCPropCases ==
  LET order == Block("", <<Prop(0, "up")>>)
      date  == Block("d", <<Prop(1, "Short Date"), Prop(2, "Day")>>)
      name  == Block("n", <<Prop(2, "Name"), Torn(1, "Long Da")>>)
      odd   == [type |-> "odd"]
  IN  {[chunks |-> <<Heading>> \o [i \in 1 .. 4 |-> <<order, date, name, odd>>[p[i]]], table |-> "up",
        want |-> {Want("d", "Format", "Short Date"), Want("d", "Caption", "Day"),
                  Want("n", "Caption", "Name"), Want("n", "Format", "none"), Want("x", "Format", "none")}] :
         p \in {q \in [1 .. 4 -> 1 .. 4] : \A i, j \in 1 .. 4 : q[i] = q[j] => i = j}}

RowsAt(values, k) == [i \in DOMAIN values |-> [v |-> values[i], pg |-> 20 + k, row |-> i]]
MCShapes(n) ==
  CASE n = 1 -> {<<>>, <<<<1>>>>}
    [] n = 2 -> {<<<<1>>>>, <<<<1, 2>>>>, <<<<1>>, <<2>>>>}
    [] n = 3 -> {<<<<1>>>>, <<<<1, 2>>>>, <<<<1, 2, 3>>>>, <<<<1>>, <<2>>>>, <<<<1, 2>>, <<3>>>>}
MCLeaves(values) ==
  LET n == Len(values)
      split(cuts) ==
        LET ends == SetToSortSeq(cuts \cup {n}, <)
            from(k) == IF k = 1 THEN 1 ELSE ends[k - 1] + 1
        IN  [k \in DOMAIN ends |-> RowsAt(SubSeq(values, from(k), ends[k]), k)]
  IN  {split(cuts) : cuts \in {c \in SUBSET (1 .. n - 1) : Cardinality(c) <= 2}}
Sarg(op, v) == [op |-> op, v |-> v]
MCNumbers == {<<0, 1, 1, 2>>, <<1, 4, 5, 6, 7>>, <<3, 3, 3>>}
MCTexts   == {<<<<1>>, <<1, 2>>, <<7, 2>>, <<2>>>>, <<<<1, 2, 1>>, <<1, 2, 2>>, <<1, 2, 3>>, <<1, 3>>>>}
MCTrees(values, type, sargs) ==
  UNION {{[type |-> type, leaves |-> leaves, shape |-> shape, sargs |-> s] :
            shape \in MCShapes(Len(leaves)), s \in sargs} : leaves \in MCLeaves(values)}
MCTreeCases ==
  {[type |-> "TEXT", leaves |-> <<<<>>>>, shape |-> <<>>, sargs |-> {}]}
  \cup UNION {MCTrees(v, "LONGINT", {{}} \cup {{Sarg("EQUAL", n)} : n \in 0 .. 7}) : v \in MCNumbers}
  \cup UNION {MCTrees(v, "TEXT", {{Sarg(op, t)} : op \in {"EQUAL", "GTEQ", "LT"},
                                                 t \in {<<1>>, <<1, 2>>, <<7, 2, 2>>, <<2>>}}) : v \in MCTexts}

Arg(op) == <<[op |-> op, wild |-> FALSE]>>
MCKeys == {<<a>> : a \in {<<>>, Arg("EQUAL"), Arg("LIKE"), Arg("ISNULL"), Arg("GT")}}
          \cup {<<a, b>> : a \in {<<>>, Arg("EQUAL"), Arg("GT")}, b \in {<<>>, Arg("EQUAL")}}
MCUsed == {[key |-> k, unique |-> u] : k \in MCKeys, u \in BOOLEAN}
MCChoiceCases == {<<a>> : a \in MCUsed} \cup {<<a, b>> : a, b \in MCUsed}

MCObject(name, type, id) == [name |-> name, type |-> type, id |-> id, flags |-> 0]
MCCatalogCases ==
  {[objects |-> o, name |-> n] : n \in {"t", "T", "u"},
     o \in UNION {[1 .. k -> {MCObject("t", 5, 7), MCObject("T", 1, 8), MCObject("u", 1, 9),
                             MCObject("u", 129, 10), MCObject("u", -32768, 11)}] : k \in 0 .. 3}}
MCNumberCases ==
  {[type |-> "BYTE", n |-> n] : n \in 0 .. 15} \cup {[type |-> "INT", n |-> n] : n \in -128 .. 127}
  \cup {[type |-> t, n |-> n] : t \in {"LONGINT", "COMPLEX"}, n \in {-32768, -32767, -257, -1, 0, 1, 255, 256, 32767}}
  \cup {[type |-> "REPID", n |-> 0]}
MCBytes == {0, 1, 9, 10, 99, 127, 128, 255}
MCMoneyCases == {<<a, b, c>> : a, b, c \in MCBytes}
MCNumericCases == {[sign |-> s, bytes |-> <<a, 0, b, c>>, prec |-> n] :
                     s \in {0, 128}, a, b, c \in {0, 1, 100, 255}, n \in {0, 2}}
MCUnits == {<<65, 0>>, <<233, 0>>, <<1, 4>>, <<0, 1>>, <<0, 0>>, <<255, 254>>, <<1, 216>>, <<2, 220>>}
Words(set) == UNION {[1 .. k -> set] : k \in 0 .. 4}
Text(jet3, latin1, units, dlen) == [jet3 |-> jet3, latin1 |-> latin1, units |-> units, dlen |-> dlen]
MCTextCases ==
  {Text(FALSE, FALSE, u, n) : u \in Words(MCUnits), n \in {4, 20}}
  \cup {Text(TRUE, latin1, u, n) : latin1 \in BOOLEAN, n \in {4, 20},
                                   u \in Words({<<65, 0>>, <<233, 0>>, <<0, 0>>})}
MCChunks == UNION {[1 .. k -> {<<>>, <<1>>, <<2, 3>>}] : k \in 1 .. 3}
Chain(chunks, lost, cut) ==
  [r \in DOMAIN chunks \ {lost} |->
     [next |-> IF r = Len(chunks) THEN 0 ELSE r + 1, data |-> chunks[r], short |-> r = cut]]
MCLongCases ==
  {[chunks |-> c, lost |-> gone[1], cut |-> gone[2], rows |-> Chain(c, gone[1], gone[2]),
    field |-> [kind |-> "multi", len |-> len, data |-> <<>>, row |-> 1], bind |-> bind] :
     c \in MCChunks, len \in 0 .. 6, bind \in {4, 20}, gone \in {<<0, 0>>, <<1, 0>>, <<2, 0>>, <<0, 1>>, <<0, 2>>}}
  \cup {[chunks |-> <<d>>, lost |-> 0, cut |-> 0, rows |-> Chain(<<d>>, 0, 0),
         field |-> [kind |-> kind, len |-> Len(d), data |-> d, row |-> 1], bind |-> 20] :
          d \in {<<>>, <<5>>, <<5, 6>>}, kind \in {"inline", "single"}}
Cut(bytes, i, j) == <<SubSeq(bytes, 1, i), SubSeq(bytes, i + 1, j), SubSeq(bytes, j + 1, Len(bytes))>>
MCMemoUnits == {<<65, 0>>, <<1, 4>>, <<1, 216>>, <<2, 220>>}
MCMemos ==
  LET a == <<65, 0>>
  IN  [1 .. 3 -> MCMemoUnits] \cup {<<a, a, a, a, x, y>> : x, y \in MCMemoUnits}
MCMemoCases ==
  UNION {{Cut(V!Shortened(u), i, j) : <<i, j>> \in {p \in (1 .. 12) \X (1 .. 12) :
            p[1] < p[2] /\ p[2] <= Len(V!Shortened(u))}} : u \in MCMemos}
MCDateCases == 1 .. 1500 \cup 36400 .. 37400 \cup {73000 + 31 * k : k \in 0 .. 100}
=============================================================================
