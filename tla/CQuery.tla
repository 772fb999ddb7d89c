------------------------------- MODULE CQuery -------------------------------
(***************************************************************************)
(* One query of the C driver, from cmdb_query_open to cmdb_query_close: a  *)
(* statement is parsed (the actions of the grammar in parser.c, in the     *)
(* order the parser reduces them, with an optional syntax error), the      *)
(* actions build the condition tree on a stack and read the table          *)
(* (mdbsql.c), and the caller fetches row after row (bridge.c).            *)
(*                                                                         *)
(* A statement is its abstract syntax, so that what it asks for can be     *)
(* compared with what it gets; the parser's tables are not modelled, only  *)
(* the order of its reductions.  The condition of a select is written in   *)
(* postfix form: comparisons, each "and" and "or" behind its two operands, *)
(* each "not" behind its one; <<>> is no condition.  Names are compared    *)
(* without case.  Literals have the type of the column they are compared   *)
(* with.                                                                   *)
(***************************************************************************)
EXTENDS CScan, CDates, SequencesExt

CONSTANTS
    Empty,      \* the empty string in a buffer
    Queries     \* statements with the database they are for: [stmt, pages, catalog]

(* A condition as the grammar delivers it: an operator has its operands.   *)
Operators == {"not", "and", "or"}
Depth(where, i) ==
  Cardinality({j \in 1 .. i : where[j].k \notin Operators \cup {"strptime"}})
    - Cardinality({j \in 1 .. i : where[j].k \in {"and", "or"}})
IsCondition(where) ==
  /\ where \in Seq(ToSet(where))
  /\ \A i \in DOMAIN where :
       /\ where[i].k \in Operators \cup {"cmp", "flip", "null", "const", "strptime"}
       /\ where[i].k = "not" => Depth(where, i - 1) >= 1
       /\ where[i].k \in {"and", "or"} => Depth(where, i - 1) >= 2
  /\ where # <<>> => Depth(where, Len(where)) = 1

IsStatement(s) ==
  /\ s.kind \in {"select", "describe", "list", "connect", "disconnect"}
  /\ s.cut \in Int
  /\ s.kind = "select" =>
       /\ s.top.n \in Nat \cup {-1} /\ s.top.percent \in BOOLEAN /\ (s.top.n = -1 => ~s.top.percent)
       /\ s.limit \in Nat \cup {-1}
       /\ s.cols \in Seq(STRING) /\ s.cols # <<>>
       /\ IsCondition(s.where)

(* A table with a definition that can be read has columns.                 *)
IsCatalog(tables) ==
  /\ tables \in Seq(ToSet(tables))
  /\ \A t \in ToSet(tables) :
       /\ t.state \in {"ok", "no columns", "bad"}
       /\ t.state = "ok" => t.order \in Seq(STRING) /\ t.order # <<>> /\ ToSet(t.order) = DOMAIN t.types

ASSUME QueriesAssumption == \A s \in Queries : IsStatement(s.stmt) /\ IsCatalog(s.catalog)

VARIABLES
    stmt,       \* the statement of the query
    catalog,    \* the tables of the database file
    pc,         \* what the query does next
    todo,       \* the reductions that the parser has still to do
    q,          \* the MdbSQL
    dead,       \* the nodes that have been freed
    held,       \* [handles, tables]: what is allocated and not yet released
    out         \* the values of the rows delivered

vars == <<file, heap, table, cur, buf, at, got, stmt, catalog, pc, todo, q, dead, held, out>>
query == <<stmt, catalog, pc, todo, q, dead, held, out>>

NoTable == [name |-> "", temp |-> FALSE, types |-> <<>>, order |-> <<>>, pg |-> 0,
            nrows |-> 0, map |-> [type |-> 0, first |-> 0, bits |-> {}],
            pages |-> <<>>, tree |-> 0, bind |-> <<>>]
NoNode  == [op |-> "NONE", col |-> NoCol, name |-> NoCol,
            lit |-> [t |-> "int", v |-> 0], left |-> 0, right |-> 0]

(* mdb_sql_init, and what mdb_sql_reset leaves: the percent flag stays.    *)
mdb_sql_init ==
  [mdb |-> 0, err |-> "", cur |-> FALSE, columns |-> <<>>, tables |-> <<>>, tree |-> 0,
   stack |-> <<>>, all |-> FALSE, count |-> FALSE, limit |-> -1, percent |-> FALSE,
   row_count |-> 0, values |-> <<>>]

-----------------------------------------------------------------------------
(* The statement as the parser reduces it                                  *)

Flipped == [GT |-> "LT", LT |-> "GT", GTEQ |-> "LTEQ", LTEQ |-> "GTEQ"]

(* Constant operator column is turned.                                     *)
OpOf(c) == IF c.k = "flip" /\ c.op \in DOMAIN Flipped THEN Flipped[c.op] ELSE c.op

(* The reduction of an item of a condition; operands come first, from left *)
(* to right, and the date of a strptime before its comparison.             *)
Reduction(c) ==
  CASE c.k \in {"not", "and", "or", "strptime"} -> [rule |-> c.k]
    [] c.k = "const" -> [rule |-> "const", op |-> c.op, left |-> c.left, right |-> c.right]
    [] c.k = "null"  -> [rule |-> "sarg", col |-> c.col, op |-> c.op, lit |-> NoNode.lit]
    [] OTHER -> [rule |-> "sarg", col |-> c.col, op |-> OpOf(c), lit |-> c.lit]

TopRules(s) ==
  IF s.top.n = -1 THEN <<>> ELSE <<[rule |-> "top", n |-> s.top.n, percent |-> s.top.percent]>>
ColumnRules(s) ==
  IF s.cols \in {<<"*">>, <<"count">>} THEN <<[rule |-> s.cols[1]]>>
  ELSE [i \in DOMAIN s.cols |-> [rule |-> "column", name |-> s.cols[i]]]
TableRule(s)  == [rule |-> "table", name |-> s.from]
WhereRules(s) == [i \in DOMAIN s.where |-> Reduction(s.where[i])]
LimitRules(s) == IF s.limit = -1 THEN <<>> ELSE <<[rule |-> "limit", n |-> s.limit]>>
Rules(s) ==
  CASE s.kind = "select" -> TopRules(s) \o ColumnRules(s) \o <<TableRule(s)>>
                            \o WhereRules(s) \o LimitRules(s) \o <<[rule |-> "select"]>>
    [] s.kind = "describe" -> <<TableRule(s), [rule |-> "describe"]>>
    [] s.kind = "connect"  -> <<[rule |-> "connect", found |-> s.found]>>
    [] OTHER -> <<[rule |-> s.kind]>>
Whole(s) == s.cut < 0 \/ s.cut >= Len(Rules(s))
Parse(s) == IF Whole(s) THEN Rules(s) ELSE Append(SubSeq(Rules(s), 1, s.cut), [rule |-> "error"])

-----------------------------------------------------------------------------
(* The stack of nodes                                                      *)

\* Fault: the node stays on the stack.
PeekNode(s) == s

(* mdb_sql_push_node over the list of fakeglib.c, whose g_list_append puts *)
(* the node in front; mdb_sql_pop_node takes the last of the list, so the  *)
(* node that has waited longest.                                           *)
mdb_sql_push_node(s, n) == [s EXCEPT !.stack = <<n>> \o @, !.tree = n]
mdb_sql_pop_node(s)     == [s EXCEPT !.stack = Front(@)]
Top(s)                  == Last(s.stack)

(* mdb_sql_free, shared by reset and exit: the table, the tree and the     *)
(* bindings; nodes on the stack that are not in the tree stay.  The tree   *)
(* that a select moved to the table is not freed with the table.           *)
Freed(s)    == mdb_sql_walk_tree(heap, s.tree, {})
mdb_sql_reset(s) == [mdb_sql_init EXCEPT !.mdb = s.mdb, !.err = s.err, !.percent = s.percent]

ResetWith(e) ==
  /\ q' = mdb_sql_reset([q EXCEPT !.err = e])
  /\ dead' = dead \cup Freed(q)
  /\ held' = IF q.cur THEN [held EXCEPT !.tables = @ \ {table.name}] ELSE held
  /\ table' = IF q.cur THEN NoTable ELSE table

AddNode(node) ==
  /\ heap' = Append(heap, node)
  /\ UNCHANGED <<dead, held, table>>

-----------------------------------------------------------------------------
(* The grammar's actions                                                   *)

Reducing(rule) ==
  /\ pc = "parse" /\ todo # <<>> /\ Head(todo).rule = rule
  /\ todo' = Tail(todo)
  /\ UNCHANGED <<scan, file, stmt, catalog, pc, out>>
KeepMemory == UNCHANGED <<heap, dead, held, table>>

mdb_sql_add_limit ==
  /\ Reducing("top") /\ KeepMemory
  /\ LET r == Head(todo) IN
     q' = [q EXCEPT !.limit = r.n, !.percent = r.percent,
             !.err = IF r.percent /\ r.n \notin 0 .. 100 THEN "percent" ELSE @]

\* Fault: TOP and LIMIT are not told apart.
LimitAfterTop ==
  /\ Reducing("limit") /\ KeepMemory
  /\ q' = [q EXCEPT !.limit = Head(todo).n, !.percent = FALSE]

mdb_sql_get_limit ==
  /\ Reducing("limit") /\ KeepMemory
  /\ q' = IF q.limit # -1 THEN [q EXCEPT !.err = "top and limit"]
          ELSE [q EXCEPT !.limit = Head(todo).n, !.percent = FALSE]

mdb_sql_add_column ==
  /\ Reducing("column") /\ KeepMemory
  /\ q' = [q EXCEPT !.columns = Append(@, Head(todo).name)]
mdb_sql_all_columns == Reducing("*") /\ KeepMemory /\ q' = [q EXCEPT !.all = TRUE]
mdb_sql_sel_count   == Reducing("count") /\ KeepMemory /\ q' = [q EXCEPT !.count = TRUE]
mdb_sql_add_table ==
  /\ Reducing("table") /\ KeepMemory
  /\ q' = [q EXCEPT !.tables = Append(@, Head(todo).name)]

mdb_sql_add_sarg ==
  /\ Reducing("sarg")
  /\ AddNode([NoNode EXCEPT !.op = Head(todo).op, !.name = Head(todo).col, !.lit = Head(todo).lit])
  /\ q' = mdb_sql_push_node(q, Len(heap'))

(* Two constants: both texts or both numbers; LIKE compares only texts.    *)
mdb_sql_eval_expr ==
  /\ Reducing("const")
  /\ LET l == Head(todo).left  r == Head(todo).right  op == Head(todo).op
         texts == l.t = "text"
         holds == IF texts THEN mdb_test_string([op |-> op, lit |-> r], l.v)
                  ELSE {mdb_test_double(op, Truncated(r.v), Truncated(l.v))}
     IN  IF texts # (r.t = "text") \/ (~texts /\ op \in {"LIKE", "ILIKE"})
           THEN ResetWith("literals") /\ UNCHANGED heap
         ELSE \E h \in holds :
                /\ AddNode([NoNode EXCEPT !.op = "EQUAL", !.lit.v = IF h THEN 2 ELSE 0])
                /\ q' = mdb_sql_push_node(q, Len(heap'))

(* strptime is not in this build: the statement is reset, parsing goes on. *)
mdb_sql_strptime == Reducing("strptime") /\ ResetWith("strptime") /\ UNCHANGED heap

mdb_sql_add_not ==
  /\ Reducing("not")
  /\ IF q.stack = <<>> THEN ResetWith("parse") /\ UNCHANGED heap
     ELSE /\ AddNode([NoNode EXCEPT !.op = "NOT", !.left = Top(q)])
          /\ q' = mdb_sql_push_node(mdb_sql_pop_node(q), Len(heap'))

(* mdb_sql_add_and and mdb_sql_add_or.                                     *)
AddBinary(rule, op) ==
  /\ Reducing(rule)
  /\ IF Len(q.stack) < 2 THEN ResetWith("parse") /\ UNCHANGED heap
     ELSE LET one == mdb_sql_pop_node(q) IN
          /\ AddNode([NoNode EXCEPT !.op = op, !.left = Top(q), !.right = Top(one)])
          /\ q' = mdb_sql_push_node(mdb_sql_pop_node(one), Len(heap'))
mdb_sql_add_and == AddBinary("and", "AND")
\* Fault: OR builds an AND.
OrCopiedFromAnd == AddBinary("or", "AND")
mdb_sql_add_or  == AddBinary("or", "OR")

(* A syntax error: yyerror, and the reset of the rule for errors, once for *)
(* every token thrown away after it.                                       *)
yyerrlab == Reducing("error") /\ ResetWith("syntax") /\ UNCHANGED heap

(* CONNECT TO replaces the handle without closing it.                      *)
mdb_sql_open ==
  /\ Reducing("connect")
  /\ q' = IF Head(todo).found THEN [q EXCEPT !.mdb = @ + 1]
          ELSE [q EXCEPT !.mdb = 0, !.err = "locate"]
  /\ held' = IF Head(todo).found THEN [held EXCEPT !.handles = @ \cup {q.mdb + 1}] ELSE held
  /\ UNCHANGED <<heap, dead, table>>
mdb_sql_close ==
  /\ Reducing("disconnect")
  /\ q' = [q EXCEPT !.mdb = 0]
  /\ held' = [held EXCEPT !.handles = @ \ {q.mdb}]
  /\ UNCHANGED <<heap, dead, table>>

-----------------------------------------------------------------------------
(* The tables                                                              *)

(* A temporary table of texts with `rows`, TempRows to a page.             *)
TempTable(cols, rows) ==
  [NoTable EXCEPT
     !.name = "#temp", !.temp = TRUE, !.order = cols,
     !.types = [c \in ToSet(cols) |-> "TEXT"], !.nrows = Len(rows),
     !.pages = [p \in 1 .. (Len(rows) + TempRows - 1) \div TempRows |->
                  SubSeq(rows, (p - 1) * TempRows + 1, AtMost(p * TempRows, Len(rows)))]]
TempRow(cols, values) ==
  [state |-> "live", fields |-> [c \in ToSet(cols) |->
     [null |-> FALSE, there |-> TRUE, raw |-> values[CHOOSE i \in DOMAIN cols : cols[i] = c]]]]
SetTemp(cols, rows) ==
  /\ table' = TempTable(cols, rows)
  /\ q' = [q EXCEPT !.cur = TRUE, !.columns = @ \o cols]

mdb_sql_listtables ==
  /\ Reducing("list")
  /\ SetTemp(<<"Tables">>, LET user == SelectSeq(catalog, LAMBDA t : t.user)
                           IN  [i \in DOMAIN user |-> TempRow(<<"Tables">>, <<user[i].name>>)])
  /\ held' = [held EXCEPT !.tables = @ \cup {"#temp"}]
  /\ UNCHANGED <<heap, dead>>

Named(name) == {i \in DOMAIN catalog : catalog[i].name = name /\ catalog[i].state # "bad"}

(* DESCRIBE TABLE: the definition of the table described is not released.  *)
mdb_sql_describe_table ==
  /\ Reducing("describe") /\ UNCHANGED heap
  /\ LET name == q.tables[1]  cols == <<"Column Name", "Type", "Size">> IN
     IF Named(name) = {} THEN ResetWith("table")
     ELSE LET t == catalog[Min(Named(name))] IN
          IF t.state = "no columns"
            THEN /\ q' = mdb_sql_reset([q EXCEPT !.err = "columns"])
                 /\ held' = [held EXCEPT !.tables = @ \cup {name}]
                 /\ UNCHANGED <<dead, table>>
          ELSE /\ SetTemp(cols, [i \in DOMAIN t.order |->
                            TempRow(cols, <<t.order[i], t.types[t.order[i]], t.sizes[i]>>)])
               /\ held' = [held EXCEPT !.tables = @ \cup {name, "#temp"}]
               /\ UNCHANGED dead

(* A node gets its column; a whole number compared with a date is a number *)
(* of seconds since 1970 and becomes a date.                               *)
mdb_sql_find_sargcol(node, t) ==
  IF node.op \notin RelationalOps \/ node.name \notin DOMAIN t.types THEN node
  ELSE [node EXCEPT
          !.col = node.name,
          !.lit = IF t.types[node.name] = "DATETIME" /\ @.t = "int"
                    THEN LET day == mdb_tm_to_date(gmtime(Truncated(@.v)))
                         IN  [t |-> "double", v |-> 2 * day.day + day.secs \div 43200]
                    ELSE @]

PercentOf(n, percent) ==
  LET exact == (n * percent) \div 100
  IN  {exact} \cup IF exact > 0 /\ (n * percent) % 100 = 0 THEN {exact - 1} ELSE {}

(* mdb_sql_select.  The percentage is taken in floating point of the row   *)
(* count in the table's definition, and cut off.                           *)
Select(t) ==
  LET cols == q.columns \o (IF q.all THEN t.order ELSE <<>>) IN
  IF q.count /\ q.tree = 0
    THEN /\ SetTemp(<<"count">>, <<TempRow(<<"count">>, <<t.nrows>>)>>)
         /\ held' = [held EXCEPT !.tables = @ \cup {"#temp"}]
         /\ UNCHANGED <<heap, dead>>
  ELSE IF ~(ToSet(cols) \subseteq DOMAIN t.types) THEN ResetWith("column") /\ UNCHANGED heap
  ELSE /\ LET tree == mdb_sql_walk_tree(heap, q.tree, {})
          IN  heap' = [n \in DOMAIN heap |-> IF n \in tree THEN mdb_sql_find_sargcol(heap[n], t) ELSE heap[n]]
       /\ table' = [NoTable EXCEPT !.name = t.name, !.types = t.types, !.order = t.order, !.pg = t.pg,
                                   !.nrows = t.nrows, !.map = t.map, !.tree = q.tree]
       /\ \E limit \in IF q.limit # -1 /\ q.percent THEN PercentOf(t.nrows, q.limit) ELSE {q.limit} :
            q' = [q EXCEPT !.columns = cols, !.tree = 0, !.cur = TRUE, !.limit = limit, !.percent = FALSE]
       /\ held' = [held EXCEPT !.tables = @ \cup {t.name}]
       /\ UNCHANGED dead

mdb_sql_select ==
  /\ Reducing("select")
  /\ IF q.tables = <<>> THEN UNCHANGED q /\ KeepMemory
     ELSE LET name == q.tables[1] IN
          IF Named(name) = {} THEN ResetWith("table") /\ UNCHANGED heap
          ELSE LET t == catalog[Min(Named(name))] IN
               IF t.state = "no columns"
                 THEN /\ q' = mdb_sql_reset([q EXCEPT !.err = "columns"])
                      /\ dead' = dead \cup Freed(q)
                      /\ held' = [held EXCEPT !.tables = @ \cup {name}]
                      /\ UNCHANGED <<heap, table>>
               ELSE Select(t)

Reduce ==
  \/ mdb_sql_add_limit \/ mdb_sql_get_limit \/ mdb_sql_add_column \/ mdb_sql_all_columns
  \/ mdb_sql_sel_count \/ mdb_sql_add_table \/ mdb_sql_add_sarg \/ mdb_sql_eval_expr
  \/ mdb_sql_strptime \/ mdb_sql_add_not \/ mdb_sql_add_and \/ mdb_sql_add_or \/ yyerrlab
  \/ mdb_sql_open \/ mdb_sql_close \/ mdb_sql_listtables \/ mdb_sql_describe_table \/ mdb_sql_select

-----------------------------------------------------------------------------
(* The calls of the bridge                                                 *)

(* cmdb_query_open up to the parser.                                       *)
cmdb_query_open ==
  /\ pc = "none"
  /\ \E s \in Queries, found \in BOOLEAN :
       /\ stmt' = s.stmt
       /\ file' = s.pages /\ catalog' = s.catalog
       /\ IF found THEN /\ q' = [mdb_sql_init EXCEPT !.mdb = 1]
                        /\ held' = [held EXCEPT !.handles = {1}]
                        /\ pc' = "parse" /\ todo' = Parse(s.stmt)
          ELSE /\ q' = [mdb_sql_init EXCEPT !.err = "locate"]
               /\ pc' = "opened" /\ UNCHANGED <<held, todo>>
  /\ UNCHANGED <<scan, heap, table, dead, out>>

(* mdb_sql_bind_all: a buffer for every column selected, bound to the      *)
(* first column of its name; a column selected twice has the last buffer.  *)
mdb_sql_bind_all ==
  /\ table' = [table EXCEPT !.bind = [c \in ToSet(q.columns) |->
                                        Max({i \in DOMAIN q.columns : q.columns[i] = c})]]
  /\ q' = [q EXCEPT !.values = [i \in DOMAIN q.columns |-> Empty]]

(* The rest of mdb_sql_run_query.                                          *)
mdb_sql_run_query ==
  /\ pc = "parse" /\ todo = <<>>
  /\ pc' = "opened"
  /\ IF q.cur THEN mdb_sql_bind_all
     ELSE q' = [q EXCEPT !.err = "no result"] /\ UNCHANGED table
  /\ UNCHANGED <<scan, file, heap, stmt, catalog, todo, dead, held, out>>

(* mdb_sql_exit.                                                           *)
Exit ==
  /\ q' = mdb_sql_init
  /\ dead' = dead \cup Freed(q)
  /\ held' = [handles |-> held.handles \ {q.mdb},
              tables |-> IF q.cur THEN held.tables \ {table.name} ELSE held.tables]
  /\ table' = IF q.cur THEN NoTable ELSE table

\* Fault: a query that failed is not closed.
ForgottenOnFailure ==
  /\ pc = "opened"
  /\ pc' = IF q.err # "" \/ q.columns = <<>> THEN "failed" ELSE "query"
  /\ UNCHANGED <<q, dead, held, table, scan, file, heap, stmt, catalog, todo, out>>

(* OpenQuery of cmdb.go: an error, or no columns, closes the query.        *)
OpenQuery ==
  /\ pc = "opened"
  /\ IF q.err # "" \/ q.columns = <<>>
       THEN Exit /\ pc' = "failed"
       ELSE pc' = "query" /\ UNCHANGED <<q, dead, held, table>>
  /\ UNCHANGED <<scan, file, heap, stmt, catalog, todo, out>>

cmdb_query_next ==
  /\ pc = "query"
  /\ Fetch
  /\ pc' = "fetch"
  /\ UNCHANGED <<file, heap, table, stmt, catalog, todo, q, dead, held, out>>

FetchStep == pc = "fetch" /\ ScanStep /\ UNCHANGED query

(* The values that _mdb_attempt_bind leaves in the buffers for a row.      *)
_mdb_attempt_bind(fields, i) ==
  LET c == q.columns[i] IN
  IF table.bind[c] # i THEN q.values[i]
  ELSE IF fields[c].null /\ table.types[c] # "BOOL" THEN Empty
  ELSE Shown(table.types[c], fields[c])

(* mdb_sql_fetch_row when mdb_fetch_row has returned: a row over the limit *)
(* is bound, too, but not delivered.                                       *)
mdb_sql_fetch_row ==
  /\ pc = "fetch" /\ at = "rest"
  /\ LET values == [i \in DOMAIN q.columns |-> _mdb_attempt_bind(got, i)] IN
     IF got = NoRow
       THEN pc' = "end" /\ UNCHANGED <<q, out>>
     ELSE IF q.limit >= 0 /\ q.row_count + 1 > q.limit
       THEN pc' = "end" /\ q' = [q EXCEPT !.values = values] /\ UNCHANGED out
     ELSE /\ pc' = "query"
          /\ q' = [q EXCEPT !.row_count = @ + 1, !.values = values]
          /\ out' = Append(out, values)
  /\ UNCHANGED <<scan, file, heap, table, stmt, catalog, todo, dead, held>>

cmdb_query_close ==
  /\ pc \in {"query", "end"}
  /\ Exit /\ pc' = "closed"
  /\ UNCHANGED <<scan, file, heap, stmt, catalog, todo, out>>

Init ==
  /\ file = <<>> /\ catalog = <<>> /\ heap = <<>> /\ table = NoTable
  /\ cur = [pg |-> 0, phys |-> 0, row |-> 0]
  /\ buf = [pg |-> 0, page |-> ZeroPage]
  /\ at = "rest" /\ got = NoRow
  /\ stmt = [kind |-> "none"] /\ pc = "none" /\ todo = <<>> /\ q = mdb_sql_init
  /\ dead = {} /\ held = [handles |-> {}, tables |-> {}] /\ out = <<>>

Next ==
  \/ cmdb_query_open \/ Reduce \/ mdb_sql_run_query \/ OpenQuery
  \/ cmdb_query_next \/ FetchStep \/ mdb_sql_fetch_row \/ cmdb_query_close

(* The C code runs to the end of a call; the caller may stop anywhere.     *)
InCall == Reduce \/ mdb_sql_run_query \/ OpenQuery \/ FetchStep \/ mdb_sql_fetch_row
Spec == Init /\ [][Next]_vars /\ WF_vars(InCall)

-----------------------------------------------------------------------------
(* What a query promises                                                   *)

(* The nodes under the trees and on the stack are alive, and every one has *)
(* one owner: freeing the tree frees each once (mdb_sql_free_tree), and no *)
(* test reads a freed node.                                                *)
TreesLive ==
  LET roots   == ({q.tree, table.tree} \cup ToSet(q.stack)) \ {0}
      nodes   == UNION {mdb_sql_walk_tree(heap, r, {}) : r \in roots}
      kids(n) == {heap[n].left, heap[n].right} \ {0}
  IN  /\ nodes \cap dead = {}
      /\ \A n \in nodes : /\ heap[n].left = 0 \/ heap[n].left # heap[n].right
                          /\ \A m \in nodes \ {n} : kids(n) \cap kids(m) = {}

(* The nodes of a tree in postfix form; whether a tree is the condition's. *)
PostfixAt(nodes, post, n) ==
  IF n = 0 THEN <<>> ELSE post[nodes[n].left] \o post[nodes[n].right] \o <<n>>
Postfix(nodes, n) ==
  LET post[k \in 0 .. Len(nodes)] == PostfixAt(nodes, post, k) IN post[n]
Stands(node, c) ==
  CASE c.k = "not" -> node.op = "NOT" /\ node.left # 0 /\ node.right = 0
    [] c.k = "and" -> node.op = "AND" /\ node.left # 0 /\ node.right # 0
    [] c.k = "or"  -> node.op = "OR" /\ node.left # 0 /\ node.right # 0
    [] OTHER -> /\ node.left = 0 /\ node.right = 0
                /\ node.name = IF c.k = "const" THEN NoCol ELSE c.col
                /\ node.op = IF c.k = "const" THEN "EQUAL" ELSE OpOf(c)
Same(n, where) ==
  LET nodes == Postfix(heap, n)
  IN  Len(nodes) = Len(where) /\ \A i \in DOMAIN where : Stands(heap[nodes[i]], where[i])

Leaves(where) == {c \in ToSet(where) : c.k \notin Operators}

(* Conditions for which the order of the stack makes no difference: every  *)
(* comparison but the first is the right operand of an AND or an OR.       *)
Straight(where) ==
  \A i \in 2 .. Len(where) :
    where[i].k \notin Operators => i < Len(where) /\ where[i + 1].k \in {"and", "or"}

(* What a comparison asks of a row.                                        *)
Days(l, type) == IF type = "DATETIME" /\ l.lit.t = "int"
                   THEN [l.lit EXCEPT !.v = 2 * (25569 + Truncated(@) \div 86400)
                                            + (Truncated(@) % 86400) \div 43200]
                   ELSE l.lit
Asks(l, types, fields) ==
  IF l.k = "const"
    THEN IF l.left.t = "text" THEN Means("TEXT", [op |-> l.op, lit |-> l.right], [raw |-> l.left.v])
         ELSE Means("DOUBLE", [op |-> l.op, lit |-> l.right], [raw |-> l.left.v])
  ELSE Means(types[l.col], [op |-> OpOf(l), lit |-> Days(l, types[l.col])], fields[l.col])

Wants(where, types, fields) ==
  LET Asked(stack, c) ==
        LET n == Len(stack)  rest == SubSeq(stack, 1, n - 2) IN
        CASE c.k = "not" -> [stack EXCEPT ![n] = ~@]
          [] c.k = "and" -> Append(rest, stack[n - 1] /\ stack[n])
          [] c.k = "or"  -> Append(rest, stack[n - 1] \/ stack[n])
          [] OTHER       -> Append(stack, Asks(c, types, fields))
  IN  where = <<>> \/ Last(FoldLeft(Asked, <<>>, where))

(* The code departs from what a comparison asks (Departs, CSargs), answers *)
(* no to every IS [NOT] NULL on the types of these tables, takes           *)
(* whole seconds of a leap year for a date one day too late, and answers   *)
(* for a column the table does not have.                                   *)
Exact(l, types, rows) ==
  CASE l.k = "const" -> l.left.t = "text" \/ (l.left.v % 2 = 0 /\ l.right.v % 2 = 0)
    [] l.k \in {"strptime", "null"} -> FALSE
    [] OTHER -> /\ l.col \in DOMAIN types
                /\ \A r \in rows : ~Departs(types[l.col], [op |-> OpOf(l), lit |-> l.lit], r.fields[l.col])
                /\ types[l.col] = "DATETIME" /\ l.lit.t = "int" => ~Leap(gmtime(Truncated(l.lit.v)).year)

(* The pages a map names, and whether the scan can rely on it: every page  *)
(* is in the file and has rows, and no entry is zero before another.       *)
PagesOf(map) ==
  CASE map.type = 0 -> {map.first + i : i \in map.bits}
    [] map.type = 1 -> UNION {{(m - 1) * MapBits + i : i \in PageAt(map.pages[m]).bits} : m \in DOMAIN map.pages}
    [] OTHER -> 0 .. Len(file) - 1
Own(pages) == {p \in pages \ {0} : PageAt(p).type = "data" /\ PageAt(p).owner = table.pg}
MapWhole(map) ==
  /\ \A p \in PagesOf(map) : Readable(p)
  /\ \A p \in Own(PagesOf(map)) : PageAt(p).rows # <<>>
  /\ map.type = 1 => \A m \in DOMAIN map.pages : map.pages[m] # 0 /\ Readable(map.pages[m])

LiveRows(pages) == FlattenSeq([i \in 1 .. Cardinality(pages) |->
    SelectSeq(PageAt(SetToSortSeq(pages, <)[i]).rows, LAMBDA r : r.state = "live")])

(* A select delivers, of the rows of its table in page order, those its    *)
(* condition asks for, each selected column with its value in that row,    *)
(* as many as the limit lets through and no more (select, fetch_row).      *)
RowsAsAsked ==
  (pc \in {"query", "fetch", "end"} /\ stmt.kind = "select" /\ ~table.temp) =>
    LET rows == LiveRows(Own(PagesOf(table.map)))
        want == SelectSeq(rows, LAMBDA r : Wants(stmt.where, table.types, r.fields))
        caps == CASE stmt.limit # -1 -> {stmt.limit}
                  [] stmt.top.percent -> PercentOf(table.nrows, stmt.top.n)
                  [] OTHER -> {stmt.top.n}
        alone(i) == \A j \in DOMAIN q.columns : j > i => q.columns[j] # q.columns[i]
    IN  (MapWhole(table.map) /\ Straight(stmt.where)
         /\ \A l \in Leaves(stmt.where) : Exact(l, table.types, ToSet(rows))) =>
          /\ q.limit \in caps
          /\ Len(out) <= Len(want)
          /\ q.limit >= 0 => Len(out) <= q.limit
          /\ \A k \in DOMAIN out, i \in DOMAIN q.columns : alone(i) =>
               out[k][i] = LET c == q.columns[i]  f == want[k].fields[c]
                           IN  IF f.null /\ table.types[c] # "BOOL" THEN Empty
                               ELSE Shown(table.types[c], f)
          /\ (pc = "end" /\ Len(out) < Len(want)) => Len(out) = q.limit

(* The tree built for a condition whose right operands are comparisons has *)
(* the shape of the condition.                                             *)
TreeAsAsked ==
  (pc \in {"query", "fetch", "end"} /\ stmt.kind = "select" /\ table.tree # 0
   /\ Straight(stmt.where)) => Same(table.tree, stmt.where)

(* What mdbsql.c:219-220 and the precedences of parser.y say of every one. *)
TreeAsWritten ==
  (pc \in {"query", "fetch", "end"} /\ stmt.kind = "select" /\ table.tree # 0)
    => Same(table.tree, stmt.where)

(* OpenQuery answers with rows exactly for the statements that can have    *)
(* them: whole, on a table and on columns there are, with one limit.       *)
Found(name) ==
  {catalog[i] : i \in {j \in Named(name) : j = Min(Named(name)) /\ catalog[j].state = "ok"}}
Literate(l) ==
  /\ l.k # "strptime"
  /\ l.k = "const" => /\ l.left.t = "text" <=> l.right.t = "text"
                      /\ l.op \in {"LIKE", "ILIKE"} => l.left.t = "text"
Answerable(s) ==
  /\ Whole(s)
  /\ \/ s.kind = "list"
     \/ s.kind = "describe" /\ Found(s.from) # {}
     \/ /\ s.kind = "select" /\ Found(s.from) # {}
        /\ s.top.percent => s.top.n \in 0 .. 100
        /\ s.top.n = -1 \/ s.limit = -1
        /\ \A t \in Found(s.from) : s.cols \in {<<"*">>, <<"count">>} \/ ToSet(s.cols) \subseteq DOMAIN t.types
        /\ s.cols = <<"count">> => s.where = <<>>
        /\ \A l \in Leaves(s.where) : Literate(l)
OpenAnswers ==
  /\ pc = "opened" => ((q.err = "" /\ q.columns # <<>>) <=> (q.err # "locate" /\ Answerable(stmt)))
  /\ pc \in {"query", "fetch", "end"} =>
       q.cur /\ q.mdb # 0 /\ Len(q.values) = Len(q.columns) /\ ToSet(q.columns) \subseteq DOMAIN table.types

(* A closed query holds nothing, but for what a CONNECT replaced and the   *)
(* definition that DESCRIBE TABLE read or whose columns were unreadable.   *)
Released ==
  pc \in {"closed", "failed"} =>
    /\ held.handles # {} => stmt.kind = "connect"
    /\ \A t \in held.tables : t = stmt.from /\ (stmt.kind = "describe" \/ Found(t) = {})

(* Every call returns: the parse ends, and the scan meets its end.         *)
CallsReturn ==
  pc \in {"parse", "opened", "fetch"} ~>
    (pc \in {"query", "end", "failed"} \/ at \in {"garbage", "crashed"})
=============================================================================
