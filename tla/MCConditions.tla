---------------------------- MODULE MCConditions ----------------------------
(* Small instances of Conditions for TLC.                                   *)
EXTENDS Conditions, TLC

TypeOf == [n |-> "int", x |-> "double", b |-> "bool", t |-> "text", m |-> "memo", z |-> "other"]

InOrder == <<"%", "0", "1", "2", "a", "b">>

Numbers == <<"0">> :> 0 @@ <<"1">> :> 2 @@ <<"2">> :> 4 @@ <<"1", ".", "5">> :> 3

Texts(chars, n) == UNION {[1..k -> chars] : k \in 0..n}

Str(t) == Token("string", "", t)
Num(t) == Token("number", "", t)

Cond(op, col, vals) == [op |-> op, col |-> col, vals |-> vals]
Not(c) == [op |-> "NOT", left |-> c]
Both(S, T) == [op : {"AND", "OR"}, left : S, right : T]

\* Comparisons of every column with literals of every type.
Literals == {Num(t) : t \in DOMAIN Numbers} \cup {Str(<<>>), Str(<<"a">>), Str(<<"1">>)}
            \cup {Keyword("TRUE"), Keyword("FALSE"), Keyword("NULL")}
Leaves ==
    {Cond(op, c, <<>>) : op \in {"IS NULL", "NOT NULL", "bare"}, c \in Columns}
    \cup {Cond(op, c, <<l>>) : op \in Comparisons \ {"LIKE"}, c \in Columns \cup {"u"},
                               l \in Literals}

\* IN lists below and above the limit for sorting.
Lists ==
    {Cond("IN", c, vals) : c \in Columns,
        vals \in UNION {[1..k -> Literals] : k \in 1..2}
                 \cup [1..4 -> {Num(<<"0">>), Num(<<"1">>), Str(<<"2">>), Str(<<"b">>)}]}

Patterns == {Cond("LIKE", "t", <<Str(p)>>) : p \in Texts({"a", "b", "%", "_"}, 4)}

\* Trees over four comparisons.
Simple == {Cond("=", "n", <<Num(<<"1">>)>>), Cond("<", "t", <<Str(<<"b">>)>>),
           Cond("IS NULL", "n", <<>>), Cond("bare", "b", <<>>)}
Trees1 == Simple \cup {Not(c) : c \in Simple} \cup Both(Simple, Simple)
Trees == {Not(c) : c \in Trees1} \cup Both(Trees1, Trees1)

AllConds == Leaves \cup Lists \cup Patterns \cup Trees

Field(null, num, text) == [null |-> null, num |-> num, text |-> text]
Null == Field(TRUE, 0, <<>>)

\* Rows that hold the same in all columns, as far as their types allow, with n and t apart.
Values == {Null, Field(FALSE, 0, <<>>), Field(FALSE, 1, <<"a">>), Field(FALSE, 2, <<"1">>),
           Field(FALSE, 3, <<"b">>)}
SmallRows == {[c \in Columns |-> IF c \in {"t", "b"} THEN v ELSE w] : v, w \in Values}

\* Rows for the patterns.
TextRows == {[c \in Columns |-> Field(FALSE, 0, t)] : t \in Texts({"a", "b", "%"}, 4)}

AllRows == SmallRows \cup TextRows
==============================================================================
