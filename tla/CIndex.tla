------------------------------- MODULE CIndex -------------------------------
(***************************************************************************)
(* Indexes of the C library (index.c): how their definitions are read from *)
(* the pages of a table's definition, how a scan walks the tree of an      *)
(* index, how a search argument is tested against the keys, and how one    *)
(* index is chosen.  Nothing of it is reached through the driver, which is *)
(* built without the library that the option use_index needs.              *)
(*                                                                         *)
(* A page of an index is [leaf, next, shared, entries].  An entry of a     *)
(* node is [child], one of a leaf is [bytes, pg, row]; bytes are the key's,*)
(* flag first, without the `shared` first ones unless it leads the page.   *)
(* A digit stands for a byte of a number: Base digits, two to a number.    *)
(***************************************************************************)
EXTENDS CTableDef, FiniteSetsExt

CONSTANTS MaxDepth, MaxKeys, Base, Hash(_)

S == INSTANCE CSargs WITH NoCol <- 0, Fault <- "fault"

-----------------------------------------------------------------------------
(* mdb_read_indices.  The definitions, [num, type], and then the names.    *)
NoNumber == 9
RealSize(jet3) == IF jet3 THEN 2 * MaxKeys + 3 ELSE 2 * MaxKeys + 6
Foreign == 2

RECURSIVE Definitions(_, _, _, _)
Definitions(file, h, n, idxs) ==
  IF n = 0 THEN [ok |-> TRUE, idxs |-> idxs, h |-> h]
  ELSE LET r == read_pg_if_n(file, h, 2)
       IN  IF ~r.ok THEN [ok |-> FALSE, idxs |-> <<>>, h |-> r.h]
           ELSE Definitions(file, r.h, n - 1, Append(idxs,
                  [num |-> r.out[1], type |-> r.out[2], name |-> <<>>, keys |-> <<>>,
                   rows |-> 0, first |-> 0, unique |-> FALSE]))

(* The columns of a key: the position of each in the table, and its order. *)
(* An unused place, and a column the table no longer has, are skipped.     *)
RECURSIVE Keys(_, _, _, _, _)
Keys(file, h, k, cols, keys) ==
  IF k > MaxKeys THEN [h |-> h, keys |-> keys]
  ELSE LET num  == read_pg_if_n(file, h, 1)
           at   == {c \in DOMAIN cols : num.ok /\ cols[c].num = num.out[1]}
           skip == [num.h EXCEPT !.pos = @ + 1]
           ord  == read_pg_if_n(file, num.h, 1)
       IN  IF ~num.ok \/ num.out[1] = NoNumber \/ at = {}
             THEN Keys(file, skip, k + 1, cols, keys)
             ELSE Keys(file, ord.h, k + 1, cols,
                       Append(keys, [col |-> Min(at), asc |-> ord.out # <<0>>]))

(* What the columns of the real indexes are, found by their number among   *)
(* the definitions; one that is not found leaves its bytes unread, so that *)
(* the next starts in the middle of them.                                  *)
RECURSIVE Real(_, _, _, _, _, _, _)
Real(file, jet3, h, i, n, cols, idxs) ==
  LET pad  == IF jet3 THEN 0 ELSE 1
      mine == {j \in DOMAIN idxs : idxs[j].type # Foreign /\ idxs[j].num = i}
      h1   == [h EXCEPT !.pos = @ + pad]
      k    == Keys(file, h1, 1, cols, <<>>)
      pg   == read_pg_if_n(file, [k.h EXCEPT !.pos = @ + 1], 1)
      flag == read_pg_if_n(file, [pg.h EXCEPT !.pos = @ + pad], 1)
      h2   == [flag.h EXCEPT !.pos = @ + pad]
  IN  IF i = n THEN idxs
      ELSE IF mine = {} THEN Real(file, jet3, h1, i + 1, n, cols, idxs)
      ELSE Real(file, jet3, h2, i + 1, n, cols,
             [idxs EXCEPT ![Min(mine)] =
                [@ EXCEPT !.rows = file[1].at[ColsStart + i * RidxSize], !.keys = k.keys,
                          !.first = IF pg.ok THEN pg.out[1] ELSE Lost,
                          !.unique = flag.out = <<1>>]])

mdb_read_indices(file, jet3, h, ridxs, n, cols) ==
  LET d == Definitions(file, [h EXCEPT !.pos = @ + ridxs * RealSize(jet3)], n, <<>>)
      clamped == Min({ridxs, Cardinality({j \in DOMAIN d.idxs : d.idxs[j].type # Foreign})})
      named   == NamesFrom(file, jet3, d.h, 1, d.idxs)
      again   == mdb_read_pg(file, named.h, h.cur)
  IN  IF ~d.ok THEN <<>>
      ELSE Real(file, jet3, [again.h EXCEPT !.pos = h.pos], 0, clamped, cols, named.cols)

-----------------------------------------------------------------------------
(* The bitmap of a page: bit p says that an entry ends p bytes behind the  *)
(* place where the first one starts.  Bit 0 is set and never looked at.    *)
mdb_index_pack_bitmap(starts) ==
  {starts[k] - starts[1] : k \in 2 .. Len(starts)} \cup (IF Len(starts) = 1 THEN {0} ELSE {})
mdb_index_unpack_bitmap(bits, jetstart) ==
  <<jetstart>> \o [k \in 1 .. Cardinality(bits \ {0}) |->
                     jetstart + SetToSortSeq(bits \ {0}, <)[k]]

-----------------------------------------------------------------------------
(* The walk.  A chain is [pages, last, clean]: the pages from the root to  *)
(* the one in use, each [pg, at, hit, cache] (at: entries already taken;   *)
(* hit: one of them matched), the last leaf seen, and whether the tree is  *)
(* done and the leaves are followed by their own links.                    *)
mdb_index_page_init(pg) == [pg |-> pg, at |-> 0, hit |-> FALSE, cache |-> <<>>]
Stray    == [bytes |-> <<>>, pg |-> 0, row |-> 0]
NewChain == [pages |-> <<>>, last |-> 0, clean |-> FALSE]
Bottom(chain)      == Last(chain.pages)
More(file, chain)  == Bottom(chain).pg # 0 /\ Bottom(chain).at < Len(file[Bottom(chain).pg].entries)
Taken(chain)       == [chain EXCEPT !.pages[Len(chain.pages)].at = @ + 1]
mdb_index_find_next_on_page(file, chain) == IF More(file, chain) THEN Taken(chain) ELSE chain

(* mdb_find_next_leaf below the bottom page: [found, chain].               *)
RECURSIVE mdb_find_next_leaf(_, _)
mdb_find_next_leaf(file, chain) ==
  LET page  == file[Bottom(chain).pg]
      taken == Taken(chain)
      child == page.entries[Bottom(taken).at].child
  IN  IF page.leaf THEN [found |-> TRUE, chain |-> [chain EXCEPT !.last = Bottom(chain).pg]]
      ELSE IF ~More(file, chain) \/ Len(chain.pages) = MaxDepth
        THEN [found |-> FALSE, chain |-> mdb_index_find_next_on_page(file, chain)]
      ELSE mdb_find_next_leaf(file, [taken EXCEPT !.pages = Append(@, mdb_index_page_init(child))])

mdb_index_read_bottom_pg(file, first, chain) ==
  IF chain.pages # <<>> THEN [found |-> TRUE, chain |-> chain]
  ELSE mdb_find_next_leaf(file, [chain EXCEPT !.pages = <<mdb_index_page_init(first)>>])

(* Up the chain until a page leads to another leaf, whose first entry is   *)
(* taken at once.                                                          *)
RECURSIVE mdb_index_unwind(_, _)
mdb_index_unwind(file, chain) ==
  LET up == mdb_find_next_leaf(file, [chain EXCEPT !.pages = Front(@)])
  IN  IF Len(chain.pages) = 1 THEN [found |-> FALSE, chain |-> chain]
      ELSE IF ~up.found THEN mdb_index_unwind(file, up.chain)
      ELSE [found |-> TRUE, chain |-> mdb_index_find_next_on_page(file, up.chain)]

(* Past the tree: the leaf behind the last one.                            *)
Trailing(file, chain) ==
  LET next == IF chain.last = 0 THEN 0 ELSE file[chain.last].next
      c    == [pages |-> <<mdb_index_page_init(next)>>, last |-> next, clean |-> TRUE]
  IN  IF chain.last = 0 THEN [found |-> FALSE, chain |-> [chain EXCEPT !.clean = TRUE]]
      ELSE [found |-> More(file, c), chain |-> mdb_index_find_next_on_page(file, c)]
\* Fault: the leaves behind those that the nodes name are left out.
SteppedInTree(file, chain) ==
  IF More(file, chain) THEN [found |-> TRUE, chain |-> Taken(chain)] ELSE mdb_index_unwind(file, chain)
Stepped(file, chain) ==
  LET up == mdb_index_unwind(file, chain)
  IN  IF More(file, chain) THEN [found |-> TRUE, chain |-> Taken(chain)]
      ELSE IF chain.clean \/ Bottom(chain).hit THEN Trailing(file, chain)
      ELSE IF up.found THEN up
      ELSE Trailing(file, up.chain)

-----------------------------------------------------------------------------
(* The key of an entry.  One column and a prefix left out: the rest is put *)
(* behind what the entry before it had there; no bytes leave it as it was. *)
(* Otherwise the last bytes, as many as the first column of the key has.   *)
Overlay(old, from, new) == SubSeq(old, 1, from - 1) \o new
Cached(page, ipg, cols) ==
  LET e     == page.entries[ipg.at]
      text  == cols[1].type = "TEXT"
      size  == IF text THEN Len(e.bytes) - (IF ipg.at = 1 THEN 1 ELSE 0) ELSE cols[1].size
  IN  IF Len(cols) = 1 /\ size > 0 /\ page.shared > 1 /\ ipg.at > 1
        THEN Overlay(ipg.cache, page.shared, e.bytes)
      ELSE IF size = 0 THEN ipg.cache
      ELSE SubSeq(e.bytes, Len(e.bytes) - size + 1, Len(e.bytes))

(* mdb_index_cache_sarg: what a literal is compared as.  The sign of a     *)
(* LONGINT is always set in it, whatever it was.                           *)
Low(n)  == n % Base
High(n) == n \div Base
LittleEnd(b) == b[1] + Base * b[2]
Signed(d) == IF d < Base \div 2 THEN d + Base \div 2 ELSE d
mdb_index_swap_n(b) == Reverse(b)
mdb_index_cache_sarg(type, v) ==
  CASE type = "TEXT"    -> [i \in DOMAIN v |-> Hash(v[i])]
    [] type = "LONGINT" -> LittleEnd(<<Signed(High(v)), Low(v)>>)
    [] OTHER            -> v

(* Every column of the key is tested against the same bytes.               *)
mdb_index_test_sargs(cols, cache) ==
  \A k \in DOMAIN cols : \A sarg \in cols[k].sargs :
    LET v == mdb_index_cache_sarg(cols[k].type, sarg.v)
    IN  IF cols[k].type = "TEXT"
          THEN S!mdb_test_string([op |-> sarg.op, lit |-> [v |-> v]], cache) = {TRUE}
          ELSE S!mdb_test_double(sarg.op, v, LittleEnd(cache))

(* mdb_index_find_next: the next entry that passes; the first that does    *)
(* not, on a page where one did, ends it.  A page without entries that the *)
(* tree leads to is read all the same, ahead of its first byte.            *)
RECURSIVE Passed(_, _, _)
Passed(file, cols, step) ==
  LET ipg   == Bottom(step.chain)
      page  == file[ipg.pg]
      cache == Cached(page, ipg, cols)
      pass  == mdb_index_test_sargs(cols, cache)
      chain == [step.chain EXCEPT !.pages[Len(step.chain.pages)] =
                  [@ EXCEPT !.cache = cache, !.hit = @ \/ pass]]
  IN  IF ~step.found THEN [entry |-> <<>>, chain |-> step.chain]
      ELSE IF ipg.at = 0 THEN [entry |-> <<Stray>>, chain |-> step.chain]
      ELSE IF pass THEN [entry |-> <<page.entries[ipg.at]>>, chain |-> chain]
      ELSE IF ipg.hit THEN [entry |-> <<>>, chain |-> chain]
      ELSE Passed(file, cols, Stepped(file, chain))

mdb_index_find_next(file, first, cols, chain) ==
  LET b == mdb_index_read_bottom_pg(file, first, chain)
  IN  IF ~b.found THEN [entry |-> <<Stray>>, chain |-> b.chain]
      ELSE Passed(file, cols, Stepped(file, b.chain))

(* The rows that a scan by the index yields, as fetch_row calls it.        *)
RECURSIVE Scanned(_, _, _, _)
Scanned(file, first, cols, chain) ==
  LET r == mdb_index_find_next(file, first, cols, chain)
  IN  IF r.entry = <<>> THEN <<>>
      ELSE IF r.entry = <<Stray>> THEN r.entry
      ELSE <<<<r.entry[1].pg, r.entry[1].row>>>> \o Scanned(file, first, cols, r.chain)

(* mdb_index_find_row leaves a leaf upward only, page after page, so that  *)
(* it knows the rows of the first leaf and of no other.                    *)
mdb_index_find_row(file, first, pg, row) ==
  LET b == mdb_index_read_bottom_pg(file, first, NewChain)
  IN  b.found /\ \E i \in DOMAIN file[Bottom(b.chain).pg].entries :
        LET e == file[Bottom(b.chain).pg].entries[i] IN e.pg = pg /\ e.row = row

-----------------------------------------------------------------------------
(* mdb_index_compute_cost: 0 for no use.  `first` is the first argument of *)
(* a column, or <<>>.  A column without one takes that of the column       *)
(* before it in the key.                                                   *)
RECURSIVE AllEqual(_, _)
AllEqual(key, prev) ==
  key = <<>> \/ LET f == IF Head(key) = <<>> THEN prev ELSE Head(key)
                IN  f # <<>> /\ f[1].op = "EQUAL" /\ AllEqual(Tail(key), f)
mdb_index_compute_cost(idx) ==
  LET op  == idx.key[1][1].op
      one == Len(idx.key) = 1
      base(eq, like, other) ==
        CASE op = "EQUAL" -> eq
          [] op \in {"LIKE", "ILIKE"} -> like
          [] op = "ISNULL" -> 12
          [] OTHER -> other
      eqs == IF AllEqual(idx.key, <<>>) THEN 1 ELSE 2
  IN  IF idx.key = <<>> \/ idx.key[1] = <<>> THEN 0
      ELSE IF op \in {"LIKE", "ILIKE"} /\ idx.key[1][1].wild THEN 0
      ELSE IF idx.unique THEN IF one THEN base(1, 4, 8) ELSE base(eqs, 6, 9)
      ELSE IF one THEN base(2, 5, 10) ELSE base(eqs + 1, 7, 11)

(* mdb_choose_index: the first of the least cost; 0 for a table scan.      *)
mdb_choose_index(idxs) ==
  LET cost == [i \in DOMAIN idxs |-> mdb_index_compute_cost(idxs[i])]
      good == {i \in DOMAIN idxs : cost[i] # 0}
  IN  IF good = {} THEN 0
      ELSE Min({i \in good : \A j \in good : cost[i] <= cost[j]})

-----------------------------------------------------------------------------
(* What Access writes: the leaves of an index, linked, some of them not in *)
(* the tree; the keys of a page without what they share.                   *)
IndexStream(jet3, ridxs, idxs) ==
  LET pad  == IF jet3 THEN <<>> ELSE <<4>>
      real(i) == {j \in DOMAIN idxs : idxs[j].type # Foreign /\ idxs[j].num = i}
      keys(i) == IF real(i) = {} THEN <<>> ELSE idxs[Min(real(i))].keys
      place(i, k) == IF k \in DOMAIN keys(i)
                       THEN <<keys(i)[k].num, IF keys(i)[k].asc THEN 1 ELSE 0>>
                       ELSE <<NoNumber, 4>>
      end(i)  == IF real(i) = {} THEN <<4, 4>>
                 ELSE <<idxs[Min(real(i))].first>> \o pad \o <<IF idxs[Min(real(i))].unique THEN 1 ELSE 0>>
      body(i) == pad \o FlattenSeq([k \in 1 .. MaxKeys |-> place(i, k)]) \o <<4>> \o end(i)
                 \o (IF real(i) = {} THEN pad ELSE <<>>) \o pad
      name(s) == (IF jet3 THEN <<Len(s)>> ELSE <<Len(s), 0>>) \o s
  IN  FlattenSeq([i \in 1 .. ridxs |-> body(i - 1)])
      \o FlattenSeq([j \in DOMAIN idxs |-> <<idxs[j].num, idxs[j].type>>])
      \o FlattenSeq([j \in DOMAIN idxs |-> name(idxs[j].name)])

KeyOf(type, v) == <<127>> \o (IF type = "TEXT" THEN [i \in DOMAIN v |-> Hash(v[i])]
                              ELSE <<(High(v) + Base \div 2) % Base, Low(v)>>)
Shared(keys) ==
  LET n == Min({Len(keys[i]) : i \in DOMAIN keys})
  IN  Max({k \in 0 .. n : \A i, j \in DOMAIN keys : SubSeq(keys[i], 1, k) = SubSeq(keys[j], 1, k)})
LeafOf(type, rows, next) ==
  LET keys == [i \in DOMAIN rows |-> KeyOf(type, rows[i].v)]
      s    == IF rows = <<>> THEN 0 ELSE Shared(keys)
  IN  [leaf |-> TRUE, next |-> next, shared |-> s,
       entries |-> [i \in DOMAIN rows |->
          [bytes |-> IF i = 1 THEN keys[i] ELSE SubSeq(keys[i], s + 1, Len(keys[i])),
           pg |-> rows[i].pg, row |-> rows[i].row]]]
NodeOf(children) ==
  [leaf |-> FALSE, next |-> 0, shared |-> 0, entries |-> [i \in DOMAIN children |-> [child |-> children[i]]]]
=============================================================================
