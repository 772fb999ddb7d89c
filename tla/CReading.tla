------------------------------ MODULE CReading ------------------------------
(***************************************************************************)
(* What the C library makes of bytes: rows, definitions of tables, their   *)
(* properties and indexes, index trees, and the values of fields; and what *)
(* the Go driver makes of the same bytes.  The functions are those of      *)
(* CRow, CTableDef, CIndex, CValues, CDates and GReading; a step calls one *)
(* of them with bytes that were written for some content, and `job` holds  *)
(* the call, the content and what was read.                                *)
(***************************************************************************)
EXTENDS Integers, Sequences, FiniteSets, FiniteSetsExt, SequencesExt

CONSTANTS RowCases,    \* [jet3, cols, fields]
          TableCases,  \* [table, idxs, ridxs, upto]
          PropCases,   \* [names, cols, want]
          TreeCases,   \* [type, leaves, shape, sargs]
          ChoiceCases, \* sequences of indexes as mdb_choose_index sees them
          CatalogCases, \* [objects, name]
          NumberCases, MoneyCases, NumericCases, DateCases,
          TextCases,   \* [jet3, latin1, units, dlen]
          LongCases,   \* [chunks, lost, cut, rows, field, bind]
          MemoCases    \* sequences of bytes, the chunks of a memo

VARIABLE job

R == INSTANCE CRow WITH Byte <- 32, PgSize <- 128, Invalid <- <<"invalid">>
RowStart == 20
Digit6(c) == c % 6
T == INSTANCE CIndex WITH PgSize <- 16, ColsStart <- 9, RidxSize <- 2, Lost <- <<"lost">>,
       MaxDepth <- 3, MaxKeys <- 2, Base <- 4, Hash <- Digit6
V == INSTANCE CValues WITH Byte <- 256, NumericWord <- 2, Precision <- 10
N == INSTANCE CValues WITH Byte <- 16, NumericWord <- 2, Precision <- 10
D == INSTANCE CDates
G == INSTANCE GReading WITH Byte <- 256, PgSize <- 16, ColsStart <- 9, RidxSize <- 2
GR == INSTANCE GReading WITH Byte <- 32, PgSize <- 128, ColsStart <- 9, RidxSize <- 2

Start == [kind |-> "none"]
ReadingInit == job = Start

-----------------------------------------------------------------------------
mdb_crack_row(c) ==
  LET row == IF c.jet3 THEN R!mdb_pack_row3(c.cols, c.fields) ELSE R!mdb_pack_row4(c.cols, c.fields)
  IN  job' = [kind |-> "row", case |-> c, got |-> R!mdb_crack_row(c.jet3, c.cols, row, RowStart),
              go |-> GR!crackRowInto(c.jet3, c.cols, row, RowStart)]

mdb_read_columns(c) ==
  LET t    == [c.table EXCEPT !.rest = T!IndexStream(c.table.jet3, c.table.ridxs, c.idxs)]
      all  == T!PagesOf(t)
      file == [k \in {j \in DOMAIN all : j <= c.upto} |-> all[k]]
      h    == [buf |-> file[0], cur |-> 0, pos |-> 0]
      def  == T!mdb_read_table(file, h, 1, c.usage, c.free)
      godef == G!ReadTable(file, h, 1, c.usage, c.free)
      cols == IF def.ok THEN T!mdb_read_columns(file, t.jet3, def.h, t.ridxs, Len(t.cols))
              ELSE [cols |-> <<>>, h |-> def.h, sure |-> FALSE]
  IN  job' = [kind |-> "table", case |-> c, cols |-> cols.cols, found |-> def.ok,
              torn |-> ~def.ok \/ c.upto < Cardinality(DOMAIN all) - 1,
              go |-> IF godef.ok THEN G!ReadColumns(file, t.jet3, godef.h, t.ridxs, Len(t.cols))
                     ELSE [st |-> "none", cols |-> <<>>],
              idxs |-> IF cols.sure THEN T!mdb_read_indices(file, t.jet3, cols.h, t.ridxs, Len(c.idxs), cols.cols)
                       ELSE <<>>]

mdb_read_table_by_name(c) ==
  job' = [kind |-> "catalog", case |-> c,
          got |-> T!mdb_read_table_by_name("sound", c.objects, c.name)]

mdb_kkd_to_props(c) == job' = [kind |-> "props", case |-> c, got |-> T!mdb_kkd_to_props(c.chunks)]

LeafPage(k) == 10 + k
IndexFile(c) ==
  LET n    == Len(c.leaves)
      leaf == [k \in 1 .. n |-> T!LeafOf(c.type, c.leaves[k], IF k = n THEN 0 ELSE LeafPage(k + 1))]
      node == [k \in DOMAIN c.shape |-> T!NodeOf([i \in DOMAIN c.shape[k] |-> LeafPage(c.shape[k][i])])]
      root == T!NodeOf([k \in DOMAIN c.shape |-> 5 + k])
  IN  [pg \in 5 .. LeafPage(n) |->
         IF pg > 10 THEN leaf[pg - 10] ELSE IF pg - 5 \in DOMAIN node THEN node[pg - 5] ELSE root]
IndexRoot(c) == IF c.shape = <<>> THEN LeafPage(1) ELSE IF Len(c.shape) = 1 THEN 6 ELSE 5
EntryEnds(rows) ==
  [i \in 1 .. Len(rows) + 1 |-> 22 + FoldLeft(LAMBDA a, r : a + 3 + r.row, 0, SubSeq(rows, 1, i - 1))]
mdb_index_find_next(c) ==
  LET cols == <<[type |-> c.type, size |-> 2, sargs |-> c.sargs]>>
  IN  job' = [kind |-> "index", case |-> c,
              got |-> T!Scanned(IndexFile(c), IndexRoot(c), cols, T!NewChain),
              known |-> {r \in Range(FlattenSeq(c.leaves)) :
                           T!mdb_index_find_row(IndexFile(c), IndexRoot(c), r.pg, r.row)},
              ends |-> [k \in DOMAIN c.leaves |-> T!mdb_index_unpack_bitmap(
                          T!mdb_index_pack_bitmap(EntryEnds(c.leaves[k])), EntryEnds(c.leaves[k])[1])]]

mdb_choose_index(c) == job' = [kind |-> "choice", case |-> c, got |-> T!mdb_choose_index(c)]

mdb_money_to_string(c)   == job' = [kind |-> "money", case |-> c, got |-> V!mdb_money_to_string(c, 4)]
mdb_numeric_to_string(c) == job' = [kind |-> "numeric", case |-> c,
                                    got |-> V!mdb_numeric_to_string(c.sign, c.bytes, c.prec)]
Width(type) == CASE type = "BYTE" -> 1 [] type = "INT" -> 2 [] type \in {"LONGINT", "COMPLEX"} -> 4
Upto16 == [i \in 1 .. 16 |-> i]
BytesOf(c) ==
  IF c.type = "REPID" THEN Upto16 ELSE [i \in 1 .. Width(c.type) |-> (c.n \div 16^(i - 1)) % 16]
mdb_col_to_string(c) ==
  job' = [kind |-> "number", case |-> c, got |-> N!mdb_col_to_string(c.type, BytesOf(c))]
Lows(units) == [i \in DOMAIN units |-> IF units[i][1] = 0 THEN 1 ELSE units[i][1]]
mdb_unicode2ascii(c) ==
  LET bytes == IF c.jet3 THEN [i \in DOMAIN c.units |-> c.units[i][1]] ELSE V!Shortened(c.units)
  IN  job' = [kind |-> "text", case |-> c,
          got |-> V!mdb_xfer_bound_data(
                    V!mdb_unicode2ascii(c.jet3, c.latin1, bytes, c.dlen), Len(c.units), c.dlen),
          go  |-> G!trimNUL(G!appendUnicodeUTF8(c.jet3, bytes)),
          back |-> V!mdb_unicode2ascii(FALSE, FALSE, V!mdb_ascii2unicode(FALSE, Lows(c.units), 20), 20)]
mdb_memo_to_string(c) ==
  job' = [kind |-> "long", case |-> c,
          got |-> V!mdb_memo_to_string(c.rows, c.field, c.bind, 5),
          gomemo |-> G!trimNUL(G!memoToString(G!Chunks(c.rows, c.field, 5))),
          ole |-> V!mdb_ole_read_full(c.rows, c.field, 9, 5),
          go  |-> G!LongBytes(c.rows, c.field, 5)]
memoToString(c) ==
  job' = [kind |-> "memo", case |-> c, got |-> G!memoToString(c), fast |-> G!memoToStringIn(c)]
mdb_date_to_tm(c) == job' = [kind |-> "date", case |-> c, got |-> D!mdb_date_to_tm([day |-> c, secs |-> 0])]

ReadingNext ==
  /\ job = Start
  /\ \/ \E c \in RowCases : mdb_crack_row(c)
     \/ \E c \in TableCases : mdb_read_columns(c)
     \/ \E c \in PropCases : mdb_kkd_to_props(c)
     \/ \E c \in TreeCases : mdb_index_find_next(c)
     \/ \E c \in ChoiceCases : mdb_choose_index(c)
     \/ \E c \in CatalogCases : mdb_read_table_by_name(c)
     \/ \E c \in NumberCases : mdb_col_to_string(c)
     \/ \E c \in MoneyCases : mdb_money_to_string(c)
     \/ \E c \in NumericCases : mdb_numeric_to_string(c)
     \/ \E c \in TextCases : mdb_unicode2ascii(c)
     \/ \E c \in LongCases : mdb_memo_to_string(c)
     \/ \E c \in DateCases : mdb_date_to_tm(c)
     \/ \E c \in MemoCases : memoToString(c)
ReadingSpec == ReadingInit /\ [][ReadingNext]_job

-----------------------------------------------------------------------------
(* A row that the library packs is cracked into the fields it was packed   *)
(* from, wherever its offsets wrap, except that a Jet3 row whose variable  *)
(* fields lie more than one wrap apart loses them (mdb_pack_row3).         *)
RowRoundTrip ==
  job.kind = "row" =>
    \/ job.got = R!Recovered(job.case.cols, job.case.fields)
    \/ job.case.jet3 /\ R!Steep(job.case.cols, job.case.fields)

(* The definition of a table is read as it was written, in the order of    *)
(* the column numbers, wherever pages end in it: every column under its    *)
(* own name, and every index with the columns of its key; a file that ends *)
(* in the middle gives no column a number or type of another, and one      *)
(* whose maps are lost no column at all (mdb_read_columns,                 *)
(* mdb_read_indices).  A property is found under its own column, whatever  *)
(* order the blocks come in (mdb_kkd_to_props); and the name of a table    *)
(* leads to it, not to a query or form beside it (mdb_read_table_by_name). *)
Position(cols, num) == CHOOSE k \in DOMAIN cols : cols[k].num = num
ColumnsRead(c, cols) ==
  LET want == T!Ordered(c.table.cols)
      bare(s) == [k \in DOMAIN s |-> [s[k] EXCEPT !.name = <<>>]]
  IN  IF ~job.found THEN cols = <<>>
      ELSE IF job.torn THEN cols = <<>> \/ bare(cols) = bare(want)
      ELSE cols = want
IndexesRead(c, cols, idxs) ==
  job.torn \/
    /\ Len(idxs) = Len(c.idxs)
    /\ \A j \in DOMAIN idxs :
         /\ idxs[j].name = c.idxs[j].name
         /\ IF c.idxs[j].type = T!Foreign THEN idxs[j].keys = <<>>
            ELSE /\ idxs[j].first = c.idxs[j].first /\ idxs[j].unique = c.idxs[j].unique
                 /\ idxs[j].keys = [k \in DOMAIN c.idxs[j].keys |->
                      [col |-> Position(cols, c.idxs[j].keys[k].num), asc |-> c.idxs[j].keys[k].asc]]
PropsFound(c, props) ==
  /\ \A w \in c.want : T!mdb_col_get_prop(props, w.name, w.key) = w.value
  /\ T!mdb_table_get_prop(props, "Order") = c.table
DefinitionRead ==
  /\ job.kind = "table" => /\ ColumnsRead(job.case, job.cols)
                           /\ IndexesRead(job.case, job.cols, job.idxs)
  /\ job.kind = "props" => PropsFound(job.case, job.got)
  /\ job.kind = "catalog" =>
       LET mine == {o \in Range(job.case.objects) :
                      o.type = 1 /\ T!g_ascii_strcasecmp(o.name, job.case.name)}
       IN  IF mine = {} THEN job.got = <<>>
           ELSE Len(job.got) = 1 /\ \E o \in mine : o.id = job.got[1].pg

(* A scan by an index meets every row whose key may match, in the order of *)
(* the keys, once, also those of the leaves that no node names, wherever   *)
(* the matches begin and end among the pages (mdb_index_find_next); the    *)
(* search for the entry of a row knows the first leaf only                 *)
(* (mdb_index_find_row), and the ends of the entries are written as they   *)
(* are read.  An index is used only if the condition says something about  *)
(* its first column, and none that is compared for equality is passed over *)
(* for one that is not (mdb_choose_index).                                 *)
KeyMatches(c, v) ==
  \A sarg \in c.sargs :
    LET key(x) == IF c.type = "TEXT" THEN [i \in DOMAIN x |-> Digit6(x[i])] ELSE x
    IN  CASE sarg.op = "EQUAL" -> key(v) = key(sarg.v)
          [] sarg.op = "GTEQ"  -> ~T!S!Before(key(v), key(sarg.v))
          [] sarg.op = "LT"    -> T!S!Before(key(v), key(sarg.v))
IndexScanned(c, got) ==
  LET hits == SelectSeq(FlattenSeq(c.leaves), LAMBDA r : KeyMatches(c, r.v))
  IN  got = [i \in DOMAIN hits |-> <<hits[i].pg, hits[i].row>>]
IndexChosen(c, got) ==
  LET Eq(i) == c[i].key[1] # <<>> /\ c[i].key[1][1].op = "EQUAL"
  IN  /\ got # 0 => c[got].key[1] # <<>>
      /\ (\E i \in DOMAIN c : Eq(i)) => got # 0 /\ Eq(got)
IndexFindsAll ==
  /\ job.kind = "index" => /\ IndexScanned(job.case, job.got)
                           /\ job.known = Range(job.case.leaves[1])
                           /\ job.ends = [k \in DOMAIN job.case.leaves |-> EntryEnds(job.case.leaves[k])]
  /\ job.kind = "choice" => IndexChosen(job.case, job.got)

(* What a value looks like when it is shown as it is.                      *)
RECURSIVE Number(_)
Number(digits) == IF digits = <<>> THEN 0 ELSE 10 * Number(Front(digits)) + Last(digits)
RECURSIVE LittleEndian(_)
LittleEndian(b) == IF b = <<>> THEN 0 ELSE Head(b) + 256 * LittleEndian(Tail(b))
MoneyExact(bytes, got) ==
  LET n == LittleEndian(bytes) - (IF Last(bytes) >= 128 THEN 256^Len(bytes) ELSE 0)
  IN  /\ got.neg <=> n < 0
      /\ Number(got.whole \o got.point) = IF n < 0 THEN -n ELSE n
      /\ got.whole # <<>> /\ (got.whole[1] = 0 => Len(got.whole) = 1)
NumericExact(c, got) ==
  /\ got.neg <=> c.sign >= 128
  /\ Number(got.whole \o got.point) = LittleEndian(SubSeq(c.bytes, 3, 4) \o SubSeq(c.bytes, 1, 2))
  /\ Len(got.point) = c.prec
(* The points of a text as the C library writes them for its code page.    *)
Coded(c, points) == IF c.jet3 /\ ~c.latin1 THEN V!Raw(points) ELSE points
TextShown(c, got, back) ==
  LET points == V!UntilZero([i \in DOMAIN c.units |-> c.units[i][1] + 256 * c.units[i][2]])
      mark   == V!Shortened(c.units) = FlattenSeq(c.units) /\ c.units # <<>> /\ c.units[1] = <<255, 254>>
  IN  /\ back = Lows(c.units) \/ SubSeq(Lows(c.units), 1, 2) = <<255, 254>>
      /\ ~mark =>
               \/ got = V!Fitting(Coded(c, points), c.dlen - 1)
               \/ got = <<>> /\ \E i \in DOMAIN points : V!Surrogate(points[i])
LongShown(c, memo, ole) ==
  LET n      == Len(c.chunks)
      upto(ends) == FlattenSeq(SubSeq(c.chunks, 1, Min(ends \cup {n + 1}) - 1))
      long   == {k \in 1 .. n : Len(upto({k + 1})) > c.field.len}
      bytes  == upto(long \cup ({c.cut} \ {0}))
      points == [i \in 1 .. Len(bytes) \div 2 |-> bytes[2 * i - 1] + 256 * bytes[2 * i]]
  IN  /\ memo = IF c.lost \in 1 .. Min(long \cup {n}) THEN <<>>
               ELSE V!Fitting(points, c.bind - 1)
      /\ c.field.kind = "multi" =>
           ole = upto({i \in 2 .. n : c.chunks[i] = <<>>} \cup ({c.lost, c.cut} \ {0}))
NumberExact(c, got) == IF c.type = "REPID" THEN Range(got) = Range(Upto16) ELSE got = c.n

(* Rows are cracked as they were packed, and values are shown as they are: *)
(* integers of every width, money and numerics to the last digit, for the  *)
(* smallest negative one too; a text as it was compressed, as far as the   *)
(* room goes and up to a zero, but not at all if a surrogate is met in it; *)
(* a memo as far as the room goes, up to a row too short for a link or one *)
(* that would make it longer than its field says, and not at all if a row  *)
(* before that is lost; an OLE object up to whichever row is lost or too   *)
(* short or has no bytes; and every day of the calendar (mdb_crack_row,    *)
(* mdb_col_to_string, mdb_memo_to_string).                                 *)
ValuesShown ==
  /\ RowRoundTrip
  /\ job.kind = "number" => NumberExact(job.case, job.got)
  /\ job.kind = "money" => MoneyExact(job.case, job.got)
  /\ job.kind = "numeric" => NumericExact(job.case, job.got)
  /\ job.kind = "text" => TextShown(job.case, job.got, job.back)
  /\ job.kind = "long" => LongShown(job.case, job.got, job.ole)
  /\ job.kind = "date" => D!DayOf(job.got) = job.case

-----------------------------------------------------------------------------
(* What the two drivers make of the same bytes, and where they differ.     *)
DefinitionFits(t) ==
  9 + 2 * t.ridxs + 3 * Len(t.cols)
    + FoldLeft(LAMBDA a, col : a + G!LengthSize(t.jet3) + Len(col.name), 0, t.cols) <= 16
TablesAgree(c, cols, go) ==
  IF ~job.found THEN go.st = "none"
  ELSE IF DefinitionFits(c.table)
    THEN go.st = "ok" /\ go.cols = T!Ordered(c.table.cols) /\ (job.torn \/ cols = go.cols)
  ELSE go.st = "panic" \/ job.torn
TextsAgree(c, got, go) ==
  \/ got = V!Fitting(Coded(c, go), c.dlen - 1)
  \/ got = <<>> /\ ~c.jet3 /\ \E i \in DOMAIN c.units : V!Surrogate(c.units[i][1] + 256 * c.units[i][2])
LongsAgree(c, got, ole, gomemo, go) ==
  LET ends  == {c.lost, c.cut} \ {0}
      upto  == SubSeq(c.chunks, 1, Min(ends \cup {Len(c.chunks) + 1}) - 1)
      shown == V!Fitting(gomemo, c.bind - 1)
  IN  /\ go = FlattenSeq(upto)
      /\ got = shown \/ (c.lost \in DOMAIN c.chunks /\ got = <<>>)
           \/ (Len(FlattenSeq(c.chunks)) > c.field.len /\ IsPrefix(got, shown))
      /\ c.field.kind = "multi" => go = ole \/ <<>> \in Range(Tail(c.chunks))

(* The places where a text may be cut: between two characters, and in a    *)
(* compressed one only where single bytes are read.                        *)
RECURSIVE Breaks(_, _, _, _)
Breaks(bytes, at, marked, narrow) ==
  LET pair == Len(bytes) >= 4 /\ G!High(bytes[1] + 256 * bytes[2]) /\ G!Low(bytes[3] + 256 * bytes[4])
      step == IF marked /\ (narrow \/ Head(bytes) = 0) THEN 1 ELSE IF pair THEN 4 ELSE 2
      here == IF marked = narrow THEN {at} ELSE {}
  IN  IF bytes = <<>> THEN here
      ELSE here \cup Breaks(SubSeq(bytes, step + 1, Len(bytes)), at + step, marked,
                            narrow # (marked /\ Head(bytes) = 0))
WellCut(chunks) ==
  LET bytes  == FlattenSeq(chunks)
      breaks == IF G!Bom(bytes) THEN Breaks(G!Rest(bytes), 2, TRUE, TRUE) ELSE Breaks(bytes, 0, FALSE, FALSE)
  IN  \A k \in 1 .. Len(chunks) - 1 : Len(FlattenSeq(SubSeq(chunks, 1, k))) \in breaks

(* "Both drivers are feature-equivalent and produce identical results"     *)
(* (README.md:12): from the same bytes the Go driver reads the columns,    *)
(* the fields, the texts and the long values that the C library reads, and *)
(* a worker of its fast scan the memos that its synchronous path reads,    *)
(* but for these:                                                          *)
(*   - a definition longer than a page makes ReadPgIfN panic;              *)
(*   - a text or memo that needs more than bind_size bytes (data.c:302,    *)
(*     789, 806, 841) is cut there by the C library, between characters;   *)
(*   - a text with a surrogate is shown empty by the C library;            *)
(*   - a Jet3 text of a code page other than 1252 has its bytes from 128   *)
(*     on as they are in the C library (iconv.c:139-146), and as Latin-1   *)
(*     in Go (encoding.go:306-309);                                        *)
(*   - a memo whose rows hold more than its field says ends in the C       *)
(*     library before the row that is too much (data.c:828);               *)
(*   - a memo of which a row is lost is shown empty by the C library, and  *)
(*     up to that row in Go;                                               *)
(*   - an OLE object with an empty chunk ends there in the C library;      *)
(*   - a memo cut inside a character or in two-byte mode is decoded wrongly*)
(*     by a worker (appendUnicodeChunk).                                   *)
(* Not compared are the formats of dates and floating-point numbers, and   *)
(* chains end in a link of 0 (C follows any other, Go none to page 0).     *)
DriversAgree ==
  /\ job.kind = "row" => job.go = job.got
  /\ job.kind = "table" => TablesAgree(job.case, job.cols, job.go)
  /\ job.kind = "text" => TextsAgree(job.case, job.got, job.go)
  /\ job.kind = "long" => LongsAgree(job.case, job.got, job.ole, job.gomemo, job.go)
  /\ job.kind = "memo" => job.fast = job.got \/ ~WellCut(job.case)
=============================================================================
