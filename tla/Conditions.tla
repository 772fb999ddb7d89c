----------------------------- MODULE Conditions -----------------------------
(***************************************************************************)
(* The WHERE clause of a query: it is parsed (parser in                    *)
(* src/internal/gomdb/sql.go), its columns and IN lists are resolved       *)
(* (mdbExecute), and the tree is tested on row after row (TestSargs in     *)
(* sargs.go, by the synchronous scan and by the workers of the fast scan). *)
(*                                                                         *)
(* A condition is an abstract term; Written gives the tokens for it, with  *)
(* no more parentheses than needed, and Meaning what it stands for.        *)
(*                                                                         *)
(* Texts are sequences of characters, as LIKE needs them.  Numbers are     *)
(* counted in halves where they may have a fraction.  Dates, Unicode,      *)
(* ILIKE (LIKE after folding) and strptime are left out.                   *)
(***************************************************************************)
EXTENDS Like, FiniteSets, SequencesExt

CONSTANTS
    Columns,
    ColType,    \* "bool", "int", "double", "text", "memo", or "other" (Money, Numeric, ...)
    Chars,      \* the characters in the order of their codes
    Numerals,   \* the texts that are numbers, and what they stand for in halves
    Conds,      \* the conditions
    Rows,       \* the rows, functions from columns to fields
    InMax       \* inLinearSearchMax, 8

ASSUME ConditionsAssumption ==
    /\ ColType \in [Columns -> {"bool", "int", "double", "text", "memo", "other"}]
    /\ InMax \in Nat

VARIABLES
    cond,       \* the condition of the query
    pc,         \* what the query does next
    tree,       \* the tree of search arguments
    row, result \* the last row tested and the value of the tree for it

vars == <<cond, pc, tree, row, result>>

NoRow == <<>>
NoTree == [op |-> "none"]
Comparisons == {"=", "<>", "<", "<=", ">", ">=", "LIKE"}
------------------------------------------------------------------------------
(* Conditions as they are written *)

Token(typ, name, text) == [typ |-> typ, name |-> name, text |-> text]
Keyword(w) == Token("ident", w, <<>>)
Mark(m) == Token(m, m, <<>>)

Separated(vals) ==
    [i \in 1..2 * Len(vals) - 1 |-> IF i % 2 = 1 THEN vals[(i + 1) \div 2] ELSE Mark(",")]

WrittenLeaf(c) ==
    <<Keyword(c.col)>> \o
    CASE c.op = "IS NULL" -> <<Keyword("IS"), Keyword("NULL")>>
      [] c.op = "NOT NULL" -> <<Keyword("IS"), Keyword("NOT"), Keyword("NULL")>>
      [] c.op = "IN" -> <<Keyword("IN"), Mark("(")>> \o Separated(c.vals) \o <<Mark(")")>>
      [] c.op = "bare" -> <<>>
      [] OTHER -> <<Token("op", c.op, <<>>), c.vals[1]>>

RECURSIVE Written(_)

\* c as an operand, in parentheses if its operator binds no tighter than needed.
Operand(c, looser) ==
    IF c.op \in looser THEN <<Mark("(")>> \o Written(c) \o <<Mark(")")>> ELSE Written(c)

Written(c) ==
    CASE c.op = "NOT" -> <<Keyword("NOT")>> \o Operand(c.left, {"AND", "OR"})
      [] c.op = "AND" -> Operand(c.left, {"OR"}) \o <<Keyword("AND")>> \o Operand(c.right, {"OR"})
      [] c.op = "OR" -> Written(c.left) \o <<Keyword("OR")>> \o Written(c.right)
      [] OTHER -> WrittenLeaf(c)
------------------------------------------------------------------------------
(* Numbers and texts *)

IsNumber(t) == t \in DOMAIN Numerals
IsInt(t) == IsNumber(t) /\ ~Contains(t, ".")
ToInt(t) == Numerals[t] \div 2

Code(ch) == CHOOSE i \in DOMAIN Chars : Chars[i] = ch

\* bytes.Compare(a, b) < 0.
TextLess(a, b) ==
    \E i \in 1..Len(b) :
        /\ i <= Len(a) + 1 /\ SubSeq(a, 1, i - 1) = SubSeq(b, 1, i - 1)
        /\ i > Len(a) \/ Code(a[i]) < Code(b[i])

IsText(col) == ColType[col] \in {"text", "memo"}

Less(col, a, b) == IF IsText(col) THEN TextLess(a, b) ELSE a < b
------------------------------------------------------------------------------
(* The parser: a position in the tokens, and the node that was parsed or a failure *)

At(ts, i) == IF i <= Len(ts) THEN ts[i] ELSE Mark("eof")
Parsed(node, i) == [ok |-> TRUE, node |-> node, i |-> i]
Failed == [ok |-> FALSE]

NoVal == [I |-> 0, D |-> 0, S |-> <<>>]
Leaf(op, name, val, valType) ==
    [op |-> op, name |-> name, val |-> val, valType |-> valType, elems |-> <<>>]

TruthWords == {Keyword("TRUE"), Keyword("FALSE")}

\* The value of a literal, or a word taken for a text: only the field of its type is set.
Value(tok) ==
    CASE tok.typ = "string" -> [NoVal EXCEPT !.S = tok.text]
      [] tok.typ = "number" /\ IsInt(tok.text) -> [NoVal EXCEPT !.I = ToInt(tok.text)]
      [] tok.typ = "number" /\ ~IsInt(tok.text) -> [NoVal EXCEPT !.D = Numerals[tok.text]]
      [] tok \in TruthWords -> [NoVal EXCEPT !.I = IF tok.name = "TRUE" THEN 1 ELSE 0]
      [] tok.typ = "ident" /\ tok \notin TruthWords -> [NoVal EXCEPT !.S = tok.text]

ValType(tok) ==
    CASE tok.typ = "string" \/ (tok.typ = "ident" /\ tok \notin TruthWords) -> "text"
      [] tok.typ = "number" /\ ~IsInt(tok.text) -> "double"
      [] OTHER -> "int"

\* An element of an IN list keeps its text.
Elem(tok) ==
    CASE tok.name = "TRUE" -> [typ |-> "int", S |-> <<"1">>, I |-> 1]
      [] tok.name = "FALSE" -> [typ |-> "int", S |-> <<"0">>, I |-> 0]
      [] OTHER -> [typ |-> tok.typ, S |-> tok.text, I |-> 0]

RECURSIVE ParseInList(_, _, _)

\* From an element on; a NULL is dropped, but not the comma behind it.
ParseInList(ts, i, node) ==
    LET tok == At(ts, i)
        longer == [node EXCEPT !.elems = Append(@, Elem(tok))]
    IN  CASE tok = Keyword("NULL") -> ParseInList(ts, i + 1, node)
          [] tok.typ \in {"string", "number"} \/ tok \in TruthWords ->
                 CASE At(ts, i + 1).typ = ")" -> Parsed(longer, i + 2)
                   [] At(ts, i + 1).typ = "," -> ParseInList(ts, i + 2, longer)
                   [] OTHER -> Failed
          [] OTHER -> Failed

\* IS NULL and IS NOT NULL, from behind IS.
ParseIsNull(ts, i, name) ==
    LET not == At(ts, i) = Keyword("NOT")
        j == IF not THEN i + 1 ELSE i
    IN  IF At(ts, j) = Keyword("NULL")
        THEN Parsed(Leaf(IF not THEN "NOT NULL" ELSE "IS NULL", name, NoVal, "none"), j + 1)
        ELSE Failed

\* A comparison with a literal, from its operator on.
ParseBinary(ts, i, name) ==
    LET op == At(ts, i).name
        lit == At(ts, i + 1)
    IN  CASE op \notin Comparisons \/ lit.typ \notin {"string", "number", "ident"} -> Failed
          [] op \in Comparisons /\ lit = Keyword("NULL") ->
                 Parsed(Leaf("IS NULL", name, NoVal, "none"), i + 2)
          [] OTHER -> Parsed(Leaf(op, name, Value(lit), ValType(lit)), i + 2)

\* A column with nothing behind it becomes a comparison without a column.
BareColumn == Leaf("=", "", [NoVal EXCEPT !.I = 1], "none")

RECURSIVE ParseChain(_, _, _)

ParseComparison(ts, i) ==
    LET name == At(ts, i).name
        next == At(ts, i + 1)
    IN  CASE At(ts, i).typ = "(" ->
                 LET inner == ParseChain("OR", ts, i + 1)
                 IN  IF inner.ok THEN Parsed(inner.node, inner.i + 1) ELSE Failed
          [] At(ts, i).typ = "ident" ->
                 CASE next.typ \in {"eof", ")"} -> Parsed(BareColumn, i + 1)
                   [] next = Keyword("IN") /\ At(ts, i + 2).typ = "(" ->
                          ParseInList(ts, i + 3, Leaf("IN", name, NoVal, "none"))
                   [] next = Keyword("IS") -> ParseIsNull(ts, i + 2, name)
                   [] OTHER -> ParseBinary(ts, i + 1, name)
          [] OTHER -> Failed

RECURSIVE ParseNot(_, _)
ParseNot(ts, i) ==
    IF At(ts, i) = Keyword("NOT")
    THEN LET arg == ParseNot(ts, i + 1)
         IN  IF arg.ok THEN Parsed([op |-> "NOT", left |-> arg.node], arg.i) ELSE Failed
    ELSE ParseComparison(ts, i)

\* Fault: AND and OR change places.
TighterSwapped(kw, ts, i) == IF kw = "AND" THEN ParseChain("OR", ts, i) ELSE ParseNot(ts, i)

\* What OR connects are chains of AND, and what AND connects may have a NOT.
Tighter(kw, ts, i) == IF kw = "OR" THEN ParseChain("AND", ts, i) ELSE ParseNot(ts, i)

RECURSIVE Longer(_, _, _)

\* The chain of kw goes on to the left of its last operand.
Longer(kw, ts, left) ==
    IF left.ok /\ At(ts, left.i) = Keyword(kw)
    THEN LET right == Tighter(kw, ts, left.i + 1)
         IN  IF right.ok
             THEN Longer(kw, ts, Parsed([op |-> kw, left |-> left.node, right |-> right.node],
                                        right.i))
             ELSE Failed
    ELSE left

\* parseOr and parseAnd.
ParseChain(kw, ts, i) == Longer(kw, ts, Tighter(kw, ts, i))
------------------------------------------------------------------------------
(* Columns and IN lists *)

\* Elements that are no value of the type of the column are dropped.
TypedElems(col, elems) ==
    CASE IsText(col) -> [i \in DOMAIN elems |-> elems[i].S]
      [] ColType[col] \in {"bool", "int"} ->
             LET fit == SelectSeq(elems, LAMBDA e : e.typ = "int" \/ IsInt(e.S))
             IN  [i \in DOMAIN fit |-> IF fit[i].typ = "int" THEN fit[i].I ELSE ToInt(fit[i].S)]
      [] ColType[col] = "double" ->
             LET fit == SelectSeq(elems, LAMBDA e : e.typ = "int" \/ IsNumber(e.S))
             IN  [i \in DOMAIN fit |->
                     IF fit[i].typ = "int" THEN 2 * fit[i].I ELSE Numerals[fit[i].S]]
      [] OTHER -> <<>>

\* A long list is sorted, each element once.
Sorted(col, list) == SetToSortSeq(ToSet(list), LAMBDA a, b : Less(col, a, b))

\* The elements of an IN list and whether they are sorted; those of a memo are not used so.
ResolveIn(col, elems) ==
    LET list == TypedElems(col, elems)
        long == Len(list) > InMax /\ ColType[col] # "memo"
    IN  [list |-> IF long THEN Sorted(col, list) ELSE list, sorted |-> long]

RECURSIVE ResolveColumns(_)
ResolveColumns(n) ==
    CASE n.op = "NOT" -> [n EXCEPT !.left = ResolveColumns(@)]
      [] n.op \in {"AND", "OR"} ->
             [n EXCEPT !.left = ResolveColumns(@), !.right = ResolveColumns(@)]
      [] OTHER -> [leaf |-> n, op |-> n.op, known |-> n.name \in Columns,
                   in |-> IF n.op = "IN" /\ n.name \in Columns
                          THEN ResolveIn(n.name, n.elems)
                          ELSE [list |-> <<>>, sorted |-> FALSE]]
------------------------------------------------------------------------------
(* Testing a row *)

\* testInt, testDouble and testStringBytes, with the value of the field first.
Compare(col, op, v, w) ==
    CASE op = "=" -> v = w
      [] op = "<>" -> v # w
      [] op = "<" -> Less(col, v, w)
      [] op = ">" -> Less(col, w, v)
      [] op = "<=" -> ~Less(col, w, v)
      [] op = ">=" -> ~Less(col, v, w)
      [] op = "LIKE" -> IsText(col) /\ LikeCmp(v, w)

\* sort.Search: the number of elements before the first that is not less than v.
Search(col, list, v) ==
    LET from[i \in 0..Len(list), j \in 0..Len(list)] ==
            LET h == (i + j) \div 2
            IN  IF i >= j THEN i
                ELSE IF Less(col, list[h + 1], v) THEN from[h + 1, j] ELSE from[i, h]
    IN  from[0, Len(list)]

\* testIntList, testDoubleList, testStringList and testInBytes.
InList(col, in, v) ==
    IF in.sorted
    THEN LET i == Search(col, in.list, v) IN i < Len(in.list) /\ in.list[i + 1] = v
    ELSE Contains(in.list, v)

\* The value of a field: a Boolean is FALSE when its field is null.
FieldValue(col, f) ==
    CASE ColType[col] = "bool" -> IF f.null THEN 0 ELSE 1
      [] IsText(col) -> f.text
      [] OTHER -> f.num

\* The value of the literal, in the form that the type of the column asks for.
NodeValue(col, n) ==
    CASE IsText(col) -> n.val.S
      [] ColType[col] = "double" -> IF n.valType = "int" THEN 2 * n.val.I ELSE n.val.D
      [] OTHER -> n.val.I

\* A comparison is false on a null field, unless it is a Boolean.
Comparable(col, f) == ColType[col] = "bool" \/ ~f.null

TestSarg(n, f) ==
    LET col == n.leaf.name IN
    CASE n.op = "IS NULL" -> f.null
      [] n.op = "NOT NULL" -> ~f.null
      [] n.op = "IN" ->
             ColType[col] # "other" /\ Comparable(col, f) /\ InList(col, n.in, FieldValue(col, f))
      [] n.op \in Comparisons /\ ColType[col] = "other" -> TRUE
      [] OTHER -> Comparable(col, f) /\ Compare(col, n.op, FieldValue(col, f), NodeValue(col, n.leaf))

Complement(v) == 1 - v

RECURSIVE Test(_, _)

\* The value of a tree for row r; without a column it is the constant in the node.
Test(n, r) ==
    CASE n.op = "NOT" -> Complement(Test(n.left, r))
      [] n.op = "AND" -> IF Test(n.left, r) = 0 THEN 0 ELSE Test(n.right, r)
      [] n.op = "OR" -> IF Test(n.left, r) # 0 THEN 1 ELSE Test(n.right, r)
      [] OTHER -> IF ~n.known THEN n.leaf.val.I
                  ELSE IF TestSarg(n, r[n.leaf.name]) THEN 1 ELSE 0
------------------------------------------------------------------------------
(* The life of a query *)

Init ==
    /\ cond \in Conds
    /\ pc = "parse" /\ tree = NoTree /\ row = NoRow /\ result = 0

ParseWhere ==
    /\ pc = "parse"
    /\ LET p == ParseChain("OR", Written(cond), 1)
       IN  IF p.ok THEN tree' = p.node /\ pc' = "resolve" ELSE tree' = tree /\ pc' = "refused"
    /\ UNCHANGED <<cond, row, result>>

Resolve ==
    /\ pc = "resolve"
    /\ tree' = ResolveColumns(tree)
    /\ pc' = "rows"
    /\ UNCHANGED <<cond, row, result>>

\* One row is enough, as a test leaves nothing behind.
TestRow ==
    /\ pc = "rows" /\ row = NoRow
    /\ \E r \in Rows : row' = r /\ result' = Test(tree, r)
    /\ UNCHANGED <<cond, pc, tree>>

Next == ParseWhere \/ Resolve \/ TestRow

Spec == Init /\ [][Next]_vars
------------------------------------------------------------------------------
(* What a condition means *)

\* The values of the type of a column that a literal stands for, if any.
Denotes(col, lit) ==
    LET text == Elem(lit).S IN
    CASE IsText(col) -> {text}
      [] ColType[col] \in {"bool", "int"} -> IF IsInt(text) THEN {ToInt(text)} ELSE {}
      [] OTHER -> IF IsNumber(text) THEN {Numerals[text]} ELSE {}

RECURSIVE Meaning(_, _)
Meaning(c, r) ==
    LET f == r[c.col]
        v == FieldValue(c.col, f)
    IN
    CASE c.op = "NOT" -> ~Meaning(c.left, r)
      [] c.op = "AND" -> Meaning(c.left, r) /\ Meaning(c.right, r)
      [] c.op = "OR" -> Meaning(c.left, r) \/ Meaning(c.right, r)
      [] c.op = "IS NULL" -> f.null
      [] c.op = "NOT NULL" -> ~f.null
      [] c.op = "LIKE" -> ~f.null /\ Like(v, c.vals[1].text)
      [] OTHER ->
             /\ ColType[c.col] = "bool" \/ ~f.null
             /\ \E i \in DOMAIN c.vals : \E w \in Denotes(c.col, c.vals[i]) :
                    Compare(c.col, IF c.op = "IN" THEN "=" ELSE c.op, v, w)

\* The literal is one of the type of the column.
Fits(col, lit) ==
    IF IsText(col) THEN lit.typ = "string"
    ELSE /\ lit.typ = "number" => ColType[col] = "double" \/ IsInt(lit.text)
         /\ lit.typ \in {"number", "ident"}

RECURSIVE WellTyped(_)

\* Conditions whose meaning is not in question: on columns of the table that can be
\* compared, with literals of their type, and any but NULL in an IN list.
WellTyped(c) ==
    CASE c.op = "NOT" -> WellTyped(c.left)
      [] c.op \in {"AND", "OR"} -> WellTyped(c.left) /\ WellTyped(c.right)
      [] c.op = "bare" -> FALSE
      [] OTHER ->
             /\ c.col \in Columns /\ ColType[c.col] # "other"
             /\ c.op \in {"IS NULL", "NOT NULL"} => ColType[c.col] # "bool"
             /\ c.op = "LIKE" => IsText(c.col)
             /\ \A i \in DOMAIN c.vals : c.vals[i] # Keyword("NULL")
             /\ c.op \in Comparisons => Fits(c.col, c.vals[1])
------------------------------------------------------------------------------
(* Properties *)

\* Parser, resolution and short cuts together: a condition is understood, and a row is
\* selected just when the condition, with a comparison false on a null field, is true of it.
SelectsAsMeant ==
    WellTyped(cond) /\ cond.op # "LIKE" =>
        /\ pc # "refused"
        /\ row # NoRow => (result # 0 <=> Meaning(cond, row))

LikeSelects(r) == ~r[cond.col].null /\ Like(r[cond.col].text, cond.vals[1].text)

\* LIKE selects as defined where the text has no %, however often the matcher goes back
\* to its last %.
LikeMatches ==
    cond.op = "LIKE" /\ row # NoRow /\ WellTyped(cond) /\ ~Contains(row[cond.col].text, "%")
        => (result # 0 <=> LikeSelects(row))
==============================================================================
