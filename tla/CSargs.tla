------------------------------- MODULE CSargs -------------------------------
(***************************************************************************)
(* Search arguments of the C library: how a row is tested against the      *)
(* condition tree (sargs.c) and how LIKE compares (like.c).                *)
(*                                                                         *)
(* Every test returns the SET of answers the build may give: TRUE, FALSE,  *)
(* or Fault when a field is read through a null pointer.  The set has more *)
(* than one member exactly where the code reads memory it has not set.     *)
(*                                                                         *)
(* A node is [op, col, lit, left, right].  Numbers of literals, and the    *)
(* contents of DOUBLE and DATETIME fields, are doubled, so that a half can *)
(* be written.  A text is a sequence of letters 1..26 (upper case: 101..).  *)
(* A field is [null, there, raw]: the null bit, whether crack_row found a  *)
(* place for it in the row, and the bytes at that place as an unsigned     *)
(* number (BYTE, INT), a number (LONGINT, DOUBLE, DATETIME) or a text.     *)
(***************************************************************************)
EXTENDS Integers, Sequences, FiniteSets, Functions

CONSTANTS NoCol, Fault

RelationalOps == {"EQUAL", "GT", "LT", "GTEQ", "LTEQ", "NEQ",
                  "LIKE", "ILIKE", "ISNULL", "NOTNULL"}
AnyChar == 201     \* %
OneChar == 202     \* _
Lower(c) == IF c \in 101 .. 126 THEN c - 100 ELSE c
Casefold(s) == [i \in DOMAIN s |-> Lower(s[i])]

(* mdb_like_cmp, from a place p of the text and of the pattern on: an       *)
(* underscore skips a character even at the end of the text, where it steps *)
(* over the terminator into whatever lies behind.                           *)
like_cmp(s, r) ==
  LET match[p \in (0 .. Len(s)) \X (0 .. Len(r))] ==
        LET i == p[1]  j == p[2]
            tries == {match[<<k, j + 1>>] : k \in i .. Len(s)}
        IN  IF j = Len(r) THEN {i = Len(s)}
            ELSE IF r[j + 1] = OneChar
              THEN IF i = Len(s) THEN BOOLEAN ELSE match[<<i + 1, j + 1>>]
            ELSE IF r[j + 1] = AnyChar
              THEN {b \in BOOLEAN : IF b THEN \E t \in tries : TRUE \in t
                                    ELSE \A t \in tries : FALSE \in t}
            ELSE IF i < Len(s) /\ s[i + 1] = r[j + 1] THEN match[<<i + 1, j + 1>>]
            ELSE {FALSE}
  IN  match[<<0, 0>>]

ilike_cmp(s, r) == like_cmp(Casefold(s), Casefold(r))

(* strcoll in the "C" locale, which no one changes in a Go program.        *)
Before(s, t) ==
  \E n \in 0 .. Len(s) :
    /\ n <= Len(t) /\ SubSeq(s, 1, n) = SubSeq(t, 1, n)
    /\ n < Len(t)
    /\ n = Len(s) \/ s[n + 1] < t[n + 1]

mdb_test_string(node, s) ==
  CASE node.op = "LIKE"  -> like_cmp(s, node.lit.v)
    [] node.op = "ILIKE" -> ilike_cmp(s, node.lit.v)
    [] node.op = "EQUAL" -> {s = node.lit.v}
    [] node.op = "GT"    -> {Before(node.lit.v, s)}
    [] node.op = "LT"    -> {Before(s, node.lit.v)}
    [] node.op = "GTEQ"  -> {~Before(s, node.lit.v)}
    [] node.op = "LTEQ"  -> {~Before(node.lit.v, s)}
    [] node.op = "NEQ"   -> {s # node.lit.v}
    [] OTHER             -> {FALSE}

(* The six comparisons of mdb_test_double and mdb_test_int; an operator    *)
(* they do not know answers no.                                            *)
mdb_test_double(op, vd, d) ==
  CASE op = "EQUAL" -> vd = d
    [] op = "GT"    -> vd < d
    [] op = "LT"    -> vd > d
    [] op = "GTEQ"  -> vd <= d
    [] op = "LTEQ"  -> vd >= d
    [] op = "NEQ"   -> vd # d
    [] OTHER        -> FALSE

Truncated(doubled) == IF doubled >= 0 THEN doubled \div 2 ELSE -((-doubled) \div 2)
mdb_test_int(node, i) == mdb_test_double(node.op, Truncated(node.lit.v), i)

SignedChar(b) == IF b >= 128 THEN b - 256 ELSE b

(* mdb_test_sarg: the answer of IS [NOT] NULL is overwritten by the switch *)
(* on the type of the column, unless the type is one it does not list.     *)
mdb_test_sarg(type, node, field) ==
  IF type = "BOOL" THEN {mdb_test_int(node, IF field.null THEN 0 ELSE 1)}
  ELSE IF type \in {"BYTE", "INT", "LONGINT", "DOUBLE", "DATETIME", "MEMO"} /\ ~field.there
    THEN {Fault}
  ELSE CASE type = "BYTE"    -> {mdb_test_int(node, SignedChar(field.raw))}
         [] type = "INT"     -> {mdb_test_int(node, field.raw)}
         [] type = "LONGINT" -> {mdb_test_int(node, field.raw)}
         [] type \in {"DOUBLE", "DATETIME"}
                             -> {mdb_test_double(node.op, node.lit.v, field.raw)}
         [] type = "TEXT"    -> IF field.there THEN mdb_test_string(node, field.raw)
                                ELSE BOOLEAN
         [] type = "MEMO"    -> mdb_test_string(node, field.raw)
         [] OTHER            -> CASE node.op = "ISNULL"  -> {field.null}
                                  [] node.op = "NOTNULL" -> {~field.null}
                                  [] OTHER               -> {TRUE}

(* mdb_test_sarg_node over the nodes `heap`, for the row `fields` (by      *)
(* column) of a table with column types `types`; `answers` are those for   *)
(* the children.                                                           *)
AnswersAt(node, answers, types, fields) ==
  IF node.op \in RelationalOps
    THEN IF node.col = NoCol THEN {node.lit.v # 0}
         ELSE mdb_test_sarg(types[node.col], node, fields[node.col])
  ELSE LET left  == answers[node.left]
           right == answers[node.right]
       IN  CASE node.op = "NOT" -> {IF a = Fault THEN Fault ELSE ~a : a \in left}
             [] node.op = "AND" -> (left \ {TRUE}) \cup (IF TRUE \in left THEN right ELSE {})
             [] node.op = "OR"  -> (left \ {FALSE}) \cup (IF FALSE \in left THEN right ELSE {})
mdb_test_sarg_node(heap, n, types, fields) ==
  LET answers[k \in DOMAIN heap] == AnswersAt(heap[k], answers, types, fields)
  IN  answers[n]

mdb_test_sargs(heap, tree, types, fields) ==
  IF tree = 0 THEN {TRUE} ELSE mdb_test_sarg_node(heap, tree, types, fields)

(* mdb_sql_walk_tree with a function that stops below a node: the nodes it *)
(* visits, and with mdb_find_indexable_sargs those it adds to a column.    *)
VisitedAt(heap, stops, visited, n) ==
  IF n = 0 THEN {}
  ELSE {n} \cup IF heap[n].op \in stops THEN {}
                ELSE visited[heap[n].left] \cup visited[heap[n].right]
mdb_sql_walk_tree(heap, n, stops) ==
  LET visited[k \in 0 .. Len(heap)] == VisitedAt(heap, stops, visited, k)
  IN  visited[n]

mdb_find_indexable_sargs(heap, tree) ==
  {n \in mdb_sql_walk_tree(heap, tree, {"OR", "NOT"}) :
     heap[n].op \in RelationalOps /\ heap[n].col # NoCol}

-----------------------------------------------------------------------------
(* What a test means, and where the code departs from it.                  *)

(* The value that mdb_col_to_string shows for a field (data.c:1011-1023).  *)
Shown(type, field) ==
  CASE type = "BOOL" -> IF field.null THEN 0 ELSE 1
    [] type = "INT" /\ field.raw >= 32768 -> field.raw - 65536
    [] OTHER -> field.raw

(* A text matches a pattern when the pattern's letters cover it.           *)
Covers(r, s) ==
  LET covers[p \in (0 .. Len(r)) \X (0 .. Len(s))] ==
        LET j == p[1]  i == p[2] IN
        IF j = Len(r) THEN i = Len(s)
        ELSE IF r[j + 1] = AnyChar THEN \E k \in i .. Len(s) : covers[<<j + 1, k>>]
        ELSE i < Len(s) /\ r[j + 1] \in {OneChar, s[i + 1]} /\ covers[<<j + 1, i + 1>>]
  IN  covers[<<0, 0>>]

Means(type, node, field) ==
  LET v   == Shown(type, field)
      lit == node.lit.v
      num == IF type \in {"DOUBLE", "DATETIME"} THEN v ELSE 2 * v
  IN  CASE node.op = "ISNULL"  -> field.null
        [] node.op = "NOTNULL" -> ~field.null
        [] type = "TEXT" -> (CASE node.op = "EQUAL" -> v = lit
                              [] node.op = "NEQ"   -> v # lit
                              [] node.op = "LT"    -> Before(v, lit)
                              [] node.op = "GTEQ"  -> ~Before(v, lit)
                              [] node.op = "GT"    -> Before(lit, v)
                              [] node.op = "LTEQ"  -> ~Before(lit, v)
                              [] node.op = "LIKE"  -> Covers(lit, v)
                              [] node.op = "ILIKE" -> Covers(Casefold(lit), Casefold(v)))
        [] OTHER         -> CASE node.op = "EQUAL" -> num = lit
                              [] node.op = "NEQ"   -> num # lit
                              [] node.op = "LT"    -> num < lit
                              [] node.op = "GTEQ"  -> num >= lit
                              [] node.op = "GT"    -> num > lit
                              [] node.op = "LTEQ"  -> num <= lit

(* The departures: IS [NOT] NULL on a listed type answers no; a null field *)
(* is compared by the bytes it happens to have; a BYTE above 127 and a     *)
(* negative INT change sign; a fraction is cut off for an integer column;  *)
(* an underscore may read behind the text.                                 *)
Departs(type, node, field) ==
  \/ node.op \in {"ISNULL", "NOTNULL"}
  \/ ~field.there
  \/ field.null /\ type # "BOOL"
  \/ type = "BYTE" /\ field.raw >= 128
  \/ type = "INT" /\ field.raw >= 32768
  \/ type \notin {"TEXT", "DOUBLE", "DATETIME"} /\ node.lit.v % 2 # 0
  \/ node.op \in {"LIKE", "ILIKE"} /\ \E i \in DOMAIN node.lit.v : node.lit.v[i] = OneChar
=============================================================================
