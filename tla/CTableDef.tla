----------------------------- MODULE CTableDef ------------------------------
(***************************************************************************)
(* How the definition of a table is read: the page chain with its columns  *)
(* (table.c), the properties of a table and its columns (props.c), and the *)
(* catalog that names the tables (catalog.c).                              *)
(*                                                                         *)
(* A file is a function from page numbers to pages, and a page a record    *)
(* [type, next, at]; at[8 .. PgSize - 1] are its bytes.  A handle is       *)
(* [buf, cur, pos], as in file.c: the page in its buffer, the number that  *)
(* mdb_read_pg left, and the reader's position.                            *)
(***************************************************************************)
EXTENDS Integers, Sequences, FiniteSets, SequencesExt

CONSTANTS PgSize, ColsStart, RidxSize, Lost

EntrySize == 3
Header    == 8

(* A read that fails leaves the number of the page behind, with the old    *)
(* bytes, so that reading the page again "succeeds" (file.c:335-347).      *)
mdb_read_pg(file, h, n) ==
  IF n # 0 /\ h.cur = n THEN [ok |-> TRUE, h |-> h]
  ELSE IF n \in DOMAIN file THEN [ok |-> TRUE, h |-> [h EXCEPT !.buf = file[n], !.cur = n]]
  ELSE [ok |-> FALSE, h |-> [h EXCEPT !.cur = n]]

-----------------------------------------------------------------------------
(* read_pg_if_n: bytes that may lie across pages.  Bytes that end with the *)
(* page already take the next one into the buffer.                         *)
FirstOfNext == Header
NextPage(file, h, pos) ==
  LET r == mdb_read_pg(file, h, h.buf.next) IN [r EXCEPT !.h.pos = IF r.ok THEN pos ELSE h.pos]

RECURSIVE Advanced(_, _)
Advanced(file, h) ==
  IF h.pos < PgSize THEN [ok |-> TRUE, h |-> h]
  ELSE LET r == NextPage(file, h, h.pos - (PgSize - FirstOfNext))
       IN  IF r.ok THEN Advanced(file, r.h) ELSE r

Bytes(h, n) == [i \in 1 .. n |-> h.buf.at[h.pos + i - 1]]
RECURSIVE Gathered(_, _, _, _)
Gathered(file, h, len, out) ==
  IF h.pos + len < PgSize
    THEN [ok |-> TRUE, out |-> out \o Bytes(h, len), h |-> [h EXCEPT !.pos = @ + len]]
  ELSE LET piece == PgSize - h.pos
           r == NextPage(file, h, FirstOfNext)
       IN  IF r.ok THEN Gathered(file, r.h, len - piece, out \o Bytes(h, piece))
           ELSE [ok |-> FALSE, out |-> <<>>, h |-> r.h]

read_pg_if_n(file, h, len) ==
  LET r == Advanced(file, h)
  IN  IF r.ok THEN Gathered(file, r.h, len, <<>>) ELSE [ok |-> FALSE, out |-> <<>>, h |-> r.h]

-----------------------------------------------------------------------------
(* mdb_read_columns.  The entries, in the order of the file; the first     *)
(* that cannot be read ends it.                                            *)
RECURSIVE Entries(_, _, _, _)
Entries(file, h, n, cols) ==
  IF n = 0 THEN [ok |-> TRUE, cols |-> cols, h |-> h]
  ELSE LET r == read_pg_if_n(file, h, EntrySize)
           col == [type |-> r.out[1], num |-> r.out[2], fixed |-> r.out[3] % 2 = 1, name |-> <<>>]
       IN  IF r.ok THEN Entries(file, r.h, n - 1, Append(cols, col))
           ELSE [ok |-> FALSE, cols |-> <<>>, h |-> r.h]

(* The names, in the same order.  A length that cannot be read is whatever *)
(* the stack holds: from there on the names are Lost.  A name that cannot  *)
(* be read stays empty.                                                    *)
LengthSize(jet3) == IF jet3 THEN 1 ELSE 2
LengthOf(bytes)  == IF Len(bytes) = 1 THEN bytes[1] ELSE bytes[1] + 256 * bytes[2]
RECURSIVE NamesFrom(_, _, _, _, _)
NamesFrom(file, jet3, h, i, cols) ==
  IF i > Len(cols) THEN [cols |-> cols, h |-> h, sure |-> TRUE]
  ELSE LET size == read_pg_if_n(file, h, LengthSize(jet3))
           name == read_pg_if_n(file, size.h, LengthOf(size.out))
       IN  IF ~size.ok
             THEN [cols |-> [k \in DOMAIN cols |-> IF k < i THEN cols[k] ELSE [cols[k] EXCEPT !.name = Lost]],
                   h |-> h, sure |-> FALSE]
             ELSE NamesFrom(file, jet3, name.h, i + 1, [cols EXCEPT ![i].name = name.out])

Ordered(cols) == SortSeq(cols, LAMBDA a, b : a.num < b.num)
\* Fault: the columns are sorted before they have their names.
NamedWhenOrdered(file, jet3, h, cols) == NamesFrom(file, jet3, h, 1, Ordered(cols))
Named(file, jet3, h, cols) ==
  LET r == NamesFrom(file, jet3, h, 1, cols) IN [r EXCEPT !.cols = Ordered(r.cols)]

mdb_read_columns(file, jet3, h, ridxs, n) ==
  LET e == Entries(file, [h EXCEPT !.pos = ColsStart + ridxs * RidxSize], n, <<>>)
  IN  IF e.ok THEN Named(file, jet3, e.h, e.cols) ELSE [cols |-> <<>>, h |-> e.h, sure |-> FALSE]

(* mdb_read_table: the first page must be one of a definition; the usage   *)
(* map and the free map are rows of other pages, [there, bytes].           *)
mdb_read_table(file, h, pg, usage, free) ==
  LET r == mdb_read_pg(file, h, pg)
  IN  IF ~r.ok \/ r.h.buf.type # 2 \/ ~usage.there \/ usage.bytes = <<>> \/ ~free.there
        THEN [ok |-> FALSE, h |-> r.h]
        ELSE [ok |-> TRUE, h |-> r.h]

-----------------------------------------------------------------------------
(* Properties.  A buffer is a sequence of chunks: [type, names] for a list *)
(* of names, [type, name, props] for a block of properties, each           *)
(* [elem, kind, value, whole] with elem an index from 0 into the last      *)
(* list, and whole if the value ends within the block.                     *)
Text(p) ==
  CASE p.kind = "bool" -> IF p.value # 0 THEN "yes" ELSE "no"
    [] p.kind \in {"binary", "ole"} -> "binary data"
    [] OTHER -> p.value

(* mdb_read_props stops at the first property whose name is not listed, or *)
(* whose value is longer than what is left of the block.                   *)
Listed(names, props) ==
  LET odd == {i \in DOMAIN props : props[i].elem >= Len(names) \/ ~props[i].whole}
  IN  SubSeq(props, 1, IF odd = {} THEN Len(props) ELSE (CHOOSE i \in odd : \A j \in odd : i <= j) - 1)
mdb_read_props(names, chunk) ==
  [name |-> chunk.name,
   hash |-> [i \in DOMAIN Listed(names, chunk.props) |->
               <<names[chunk.props[i].elem + 1], Text(chunk.props[i])>>]]

(* mdb_kkd_to_props: a block that comes before any list of names is left   *)
(* out; so are chunks of unknown types.                                    *)
mdb_kkd_to_props(chunks) ==
  FoldLeft(LAMBDA a, c :
             IF c.type = "names" THEN [a EXCEPT !.names = <<c.names>>]
             ELSE IF c.type = "block" /\ a.names # <<>>
               THEN [a EXCEPT !.result = Append(@, mdb_read_props(a.names[1], c))]
             ELSE a,
           [names |-> <<>>, result |-> <<>>], chunks).result

(* The hash table of fakeglib.c appends: the pair put in first is found.   *)
g_hash_table_lookup(hash, key) ==
  LET hits == {i \in DOMAIN hash : hash[i][1] = key}
  IN  IF hits = {} THEN "none" ELSE hash[CHOOSE i \in hits : \A j \in hits : i <= j][2]

(* mdb_read_columns gives a column the first block of its name;            *)
(* mdb_read_table gives the table the last block without one.              *)
mdb_col_get_prop(props, name, key) ==
  LET mine == SelectSeq(props, LAMBDA p : p.name = name)
  IN  IF mine = <<>> THEN "none" ELSE g_hash_table_lookup(mine[1].hash, key)
mdb_table_get_prop(props, key) ==
  LET mine == SelectSeq(props, LAMBDA p : p.name = "")
  IN  IF mine = <<>> THEN "none" ELSE g_hash_table_lookup(Last(mine).hash, key)
-----------------------------------------------------------------------------
(* mdb_read_catalog: the objects of one kind, or of any.  `state` is what  *)
(* can be wrong with the table MSysObjects itself.                         *)
AnyType == -1
mdb_read_catalog(state, objects, kind) ==
  IF state \in {"no table", "no columns", "no binding"} THEN <<>>
  ELSE LET mine == SelectSeq(objects, LAMBDA o : kind \in {AnyType, o.type})
       IN  [i \in DOMAIN mine |-> [name |-> mine[i].name, type |-> mine[i].type % 128,
                                   pg |-> mine[i].id % 16777216, flags |-> mine[i].flags]]
(* Names are letters here; one of them has a lower and an upper case.      *)
g_ascii_strcasecmp(a, b) == a = b \/ {a, b} = {"t", "T"}
mdb_get_catalogentry_by_name(catalog, name) ==
  LET hits == SelectSeq(catalog, LAMBDA e : g_ascii_strcasecmp(e.name, name))
  IN  IF hits = <<>> THEN <<>> ELSE <<hits[1]>>
mdb_read_table_by_name(state, objects, name) ==
  mdb_get_catalogentry_by_name(mdb_read_catalog(state, objects, 1), name)

-----------------------------------------------------------------------------
(* What Access writes: the pages of a definition.                          *)
Stream(table) ==
  [i \in 1 .. table.ridxs * RidxSize |-> 2]
  \o FlattenSeq([i \in DOMAIN table.cols |->
       <<table.cols[i].type, table.cols[i].num, IF table.cols[i].fixed THEN 1 ELSE 2>>])
  \o FlattenSeq([i \in DOMAIN table.cols |->
       (IF table.jet3 THEN <<Len(table.cols[i].name)>> ELSE <<Len(table.cols[i].name), 0>>)
       \o table.cols[i].name])
  \o table.rest
Room(k) == IF k = 1 THEN PgSize - ColsStart ELSE PgSize - Header
Before(k) == IF k = 1 THEN 0 ELSE PgSize - ColsStart + (k - 2) * (PgSize - Header)
PagesOf(table) ==
  LET stream == Stream(table)
      n == CHOOSE k \in 1 .. 20 : Before(k) < Len(stream) /\ Len(stream) <= Before(k + 1)
      from(k) == IF k = 1 THEN ColsStart ELSE Header
  IN  [k \in 0 .. n |->
         IF k = 0 THEN [type |-> 0, next |-> 0, at |-> [o \in 0 .. PgSize - 1 |-> 1]]
         ELSE [type |-> 2, next |-> IF k = n THEN 0 ELSE k + 1,
               at |-> [o \in 0 .. PgSize - 1 |->
                         IF o >= from(k) /\ Before(k) + o - from(k) + 1 \in DOMAIN stream
                           THEN stream[Before(k) + o - from(k) + 1] ELSE 1]]]
=============================================================================
