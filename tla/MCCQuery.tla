------------------------------ MODULE MCCQuery ------------------------------
(* Small instances of CQuery for TLC: a table over a few pages under every *)
(* kind of usage map, and statements of every form.                        *)
EXTENDS CQuery, TLC

Types == [n |-> "INT", t |-> "TEXT", b |-> "BOOL", d |-> "DATETIME", x |-> "BYTE"]
Order == <<"n", "t", "b", "d", "x">>
F(v)    == [null |-> FALSE, there |-> TRUE, raw |-> v]
Null(v) == [null |-> TRUE, there |-> TRUE, raw |-> v]
Absent(v) == [null |-> TRUE, there |-> FALSE, raw |-> v]
Row(n, t, b, d, x) == [state |-> "live", fields |-> [n |-> n, t |-> t, b |-> b, d |-> d, x |-> x]]

\* 1 January 2000 and noon on 2 January 2001, in halves of a day.
Y2000 == 2 * 36526
Y2001 == 2 * 36893 + 1
R1 == Row(F(1), F(<<1, 102>>), F(0), F(Y2001), F(1))
R2 == Row(F(2), F(<<101>>), Null(0), F(Y2000), F(200))
R3 == Row(F(3), F(<<>>), F(0), F(Y2001), F(3))
R4 == Row(F(65535), Null(<<>>), Null(0), Null(0), F(4))
R5 == Row(F(5), F(<<1, 2, 1>>), F(0), F(Y2001), F(5))
Short == Row(F(6), Absent(<<>>), F(0), Absent(0), Absent(0))
Deleted == [R1 EXCEPT !.state = "deleted"]
Bad     == [R1 EXCEPT !.state = "bad"]

Blank == [type |-> "none", owner |-> 0, rows |-> <<>>, bits |-> {}]
Data(owner, rows) == [Blank EXCEPT !.type = "data", !.owner = owner, !.rows = rows]
Map(bits) == [Blank EXCEPT !.type = "map", !.bits = bits]

Table(map, n) == [name |-> "T", state |-> "ok", user |-> TRUE, pg |-> 1, types |-> Types,
                  order |-> Order, sizes |-> <<2, 20, 1, 8, 1>>, nrows |-> n, map |-> map]
Catalog(map, n) ==
  <<[Table(map, n) EXCEPT !.name = "MSys", !.user = FALSE], Table(map, n),
    [Table(map, n) EXCEPT !.name = "Torn", !.state = "no columns"],
    [Table(map, n) EXCEPT !.name = "Gone", !.state = "bad"]>>

Pages == <<Blank, Blank, Data(1, <<R1, Deleted, R2>>), Data(9, <<R3>>), Data(1, <<Bad, R3>>),
           Data(1, <<R4, R5>>)>>
InRow(bits)   == [type |-> 0, first |-> 1, bits |-> bits]
OnPages(pgs)  == [type |-> 1, pages |-> pgs]
Db(pages, map, n) == [pages |-> pages, catalog |-> Catalog(map, n)]

Plain1 == Db(Pages, InRow({1, 2, 3, 4}), 4)
\* The map on two pages (6 and 7), which are for 4 pages of the file each.
Mapped == Db(Pages \o <<Map({2, 3}), Map({0, 1})>>, OnPages(<<6, 7>>), 4)
Torn2  == Db(Pages \o <<Map({2, 3})>>, OnPages(<<6, 99>>), 4)
Zeroed == Db(Pages \o <<Map({0, 1})>>, OnPages(<<0, 6>>), 4)
Odd    == Db(Pages, [type |-> 2], 4)
Beyond == Db(Pages, InRow({1, 5, 7}), 4)
Emptied == Db(<<Blank, Blank, Data(1, <<R1>>), Data(1, <<>>), Data(1, <<R3>>)>>, InRow({1, 2, 3}), 2)
NoRows  == Db(<<Blank, Blank>>, InRow({}), 0)
Shorts  == Db(<<Blank, Blank, Data(1, <<R1, Short, R3>>)>>, InRow({1}), 3)
Lone    == [Plain1 EXCEPT !.catalog = <<[@[1] EXCEPT !.name = "MSys"]>>]
Files   == {Plain1, Mapped, Torn2, Zeroed, Odd, Beyond, Emptied, NoRows, Shorts}

-----------------------------------------------------------------------------
Int2(v)  == [t |-> "int", v |-> 2 * v]
Half(v)  == [t |-> "double", v |-> v]
Text(s)  == [t |-> "text", v |-> s]
Cmp(c, op, l)  == <<[k |-> "cmp", col |-> c, op |-> op, lit |-> l]>>
Flip(c, op, l) == <<[k |-> "flip", col |-> c, op |-> op, lit |-> l]>>
IsNull(c, op)  == <<[k |-> "null", col |-> c, op |-> op]>>
Const(l, op, r) == <<[k |-> "const", left |-> l, op |-> op, right |-> r]>>
Strptime(c)    == <<[k |-> "strptime"]>> \o Cmp(c, "EQUAL", Int2(0))
Not(c)         == c \o <<[k |-> "not"]>>
Both(S, T)     == {l \o r \o <<[k |-> op]>> : op \in {"and", "or"}, l \in S, r \in T}
None           == <<>>

Compare == {"EQUAL", "NEQ", "GT", "LT", "GTEQ", "LTEQ"}
Leaf ==
  {Cmp("n", op, Int2(2)) : op \in Compare} \cup {Flip("n", op, Int2(2)) : op \in Compare}
  \cup {Cmp("t", op, Text(<<1>>)) : op \in Compare}
  \cup {Cmp("t", op, Text(p)) : op \in {"LIKE", "ILIKE"},
            p \in {<<1, AnyChar>>, <<AnyChar, 1>>, <<AnyChar, 2, AnyChar>>, <<OneChar>>, <<1, AnyChar, OneChar>>, <<>>}}
  \cup {Cmp("d", "EQUAL", Int2(946684800)), Cmp("d", "GT", Int2(946684800)),
        Cmp("d", "EQUAL", Int2(978436800)), Cmp("d", "LTEQ", Half(Y2000)), Flip("d", "LT", Half(Y2000))}
  \cup {Cmp("b", "EQUAL", Int2(1)), Cmp("b", "NEQ", Int2(1)), Cmp("x", "GT", Int2(3)),
        Cmp("n", "EQUAL", Half(3)), Cmp("u", "EQUAL", Int2(1)), Cmp("u", "EQUAL", Int2(0))}
  \cup {IsNull(c, op) : c \in {"t", "b"}, op \in {"ISNULL", "NOTNULL"}}
  \cup {Const(Int2(1), op, Int2(2)) : op \in Compare \cup {"LIKE"}}
  \cup {Const(Text(<<1>>), "LIKE", Text(<<AnyChar>>)), Const(Text(<<1>>), "EQUAL", Int2(1))}
Pair  == {Cmp("n", "GT", Int2(1)), Cmp("b", "EQUAL", Int2(1)), Cmp("t", "LIKE", Text(<<1, AnyChar>>))}
Resets == {Strptime("d"), Const(Text(<<1>>), "EQUAL", Int2(1))}
Trees1 == Both(Pair, Pair) \cup {Not(c) : c \in Pair}
Trees == {Not(c) : c \in Trees1 \cup Resets} \cup Both(Trees1, Pair) \cup Both(Pair, Trees1)
         \cup Both(Resets, Pair) \cup Both(Pair, Resets)

NoTop == [n |-> -1, percent |-> FALSE]
Top1(n) == [n |-> n, percent |-> FALSE]
Percent(n) == [n |-> n, percent |-> TRUE]
Sel(cols, where) == [kind |-> "select", top |-> NoTop, cols |-> cols, from |-> "T",
                     where |-> where, limit |-> -1, cut |-> -1]
Other(kind) == [kind |-> kind, from |-> "T", cut |-> -1]

Base == Sel(<<"n", "t", "d">>, None)
One  == Sel(<<"n">>, Cmp("n", "GT", Int2(1)))
Forms ==
  {Base, One, Sel(<<"*">>, None), Sel(<<"count">>, None), Sel(<<"count">>, One.where),
   Sel(<<"n", "b", "n">>, None), Sel(<<"u">>, One.where), [Base EXCEPT !.from = "Torn"],
   [One EXCEPT !.from = "Torn"], [One EXCEPT !.from = "Gone"], [Base EXCEPT !.from = "U"]}
  \cup {[One EXCEPT !.limit = k] : k \in {0, 2, 9}}
  \cup {[One EXCEPT !.top = t] : t \in {Top1(0), Top1(2), Percent(0), Percent(50), Percent(100), Percent(101)}}
  \cup {[One EXCEPT !.top = Top1(1), !.limit = 1]}
  \cup {[One EXCEPT !.where = CHOOSE c \in Both({One.where}, {One.where}) : TRUE, !.cut = k] : k \in 0 .. 5}
  \cup {Other("list"), Other("describe"), Other("disconnect"), [Other("describe") EXCEPT !.from = "Torn"],
        [Other("describe") EXCEPT !.from = "U"], [Other("list") EXCEPT !.cut = 0],
        [kind |-> "connect", found |-> TRUE, cut |-> -1, from |-> "T"],
        [kind |-> "connect", found |-> FALSE, cut |-> -1, from |-> "T"]}

On(statements, dbs) == {[stmt |-> s, pages |-> d.pages, catalog |-> d.catalog] : s \in statements, d \in dbs}
MCQueries ==
  On(Forms \cup {Sel(<<"n", "d">>, c) : c \in Trees}, {Plain1})
  \cup On({Sel(<<"n", "t">>, c) : c \in Leaf}, {Plain1, Shorts})
  \cup On({Base, One, [One EXCEPT !.limit = 2], Sel(<<"count">>, None)}, Files)
  \cup On({Other("list")}, {Lone})
=============================================================================
