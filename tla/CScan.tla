------------------------------- MODULE CScan -------------------------------
(***************************************************************************)
(* The table scan of the C library: the next data page of a table from its *)
(* usage map (map.c), the page buffer of the handle (file.c) and the loop  *)
(* of mdb_fetch_row over pages and rows (data.c), one iteration a step.    *)
(*                                                                         *)
(* A page is [type, owner, rows, bits]: its type, the table that the bytes *)
(* 4 to 7 name, its rows if it is a data page, and the bits that are set   *)
(* if it is a page of a usage map.  A row is [state, fields]; its state is *)
(* "live", "deleted", or "bad" if mdb_find_row or mdb_crack_row rejects    *)
(* it or it has no bytes.  Page 0 of the file is at index 1.               *)
(***************************************************************************)
EXTENDS CSargs, FiniteSetsExt

CONSTANTS
    MapBits,    \* the pages that one page of a usage map is for
    TempRows    \* the rows that fit on a page of a temporary table

VARIABLES
    file,       \* the pages of the database file
    heap,       \* the nodes of search arguments ever allocated
    table,      \* the table definition that is scanned
    cur,        \* its [pg, phys, row]: cur_pg_num, cur_phys_pg, cur_row
    buf,        \* the handle's [pg, page]: cur_pg and pg_buf
    at,         \* where mdb_fetch_row is; "rest" when it is not running
    got         \* the row that the last mdb_fetch_row bound, or NoRow

scan == <<cur, buf, at, got>>

NoRow == <<>>
ZeroPage == [type |-> "none", owner |-> 0, rows |-> <<>>, bits |-> {}]

\* Fault: the search starts at the page of the scan.
SamePageAgain(map, start_pg) ==
  LET set == {i \in map.bits : i >= IF start_pg >= map.first THEN start_pg - map.first ELSE 0}
  IN  IF set = {} THEN 0 ELSE map.first + Min(set)

(* mdb_map_find_next0: a map that lies in the row of its table.            *)
mdb_map_find_next0(map, start_pg) ==
  LET from == IF start_pg >= map.first THEN start_pg - map.first + 1 ELSE 0
      set  == {i \in map.bits : i >= from}
  IN  IF set = {} THEN 0 ELSE map.first + Min(set)

(* Whether _mdb_read_pg reads page pg, and what: the page right behind the *)
(* end of the file is read as zeros.                                       *)
Readable(pg) == pg <= Len(file)
PageAt(pg)   == IF pg < Len(file) THEN file[pg + 1] ELSE ZeroPage

(* mdb_map_find_next1: a map on pages of its own.  An entry that is zero   *)
(* is passed over without a reset of offset, so the offset counts in the   *)
(* first map page there is.                                                *)
mdb_map_find_next1(map, start_pg) ==
  LET offset  == (start_pg + 1) % MapBits
      present == {m \in (start_pg + 1) \div MapBits .. Len(map.pages) - 1 :
                    map.pages[m + 1] # 0}
      hits(m) == {i \in PageAt(map.pages[m + 1]).bits :
                    i >= IF m = Min(present) THEN offset ELSE 0}
      stops   == {m \in present : (~Readable(map.pages[m + 1])) \/ hits(m) # {}}
  IN  IF stops = {} THEN 0
      ELSE IF ~Readable(map.pages[Min(stops) + 1]) THEN -1
      ELSE Min(stops) * MapBits + Min(hits(Min(stops)))

mdb_map_find_next(map, start_pg) ==
  CASE map.type = 0 -> mdb_map_find_next0(map, start_pg)
    [] map.type = 1 -> mdb_map_find_next1(map, start_pg)
    [] OTHER        -> -1

(* mdb_read_pg into the page buffer.  cur_pg names the page even when the  *)
(* read failed.                                                            *)
mdb_read_pg(pg) ==
  buf' = IF pg # 0 /\ buf.pg = pg THEN buf
         ELSE [pg |-> pg, page |-> IF Readable(pg) THEN PageAt(pg) ELSE buf.page]
ReadSucceeds(pg) == Readable(pg) \/ (pg # 0 /\ buf.pg = pg)
OwnPage(page)    == page.type = "data" /\ page.owner = table.pg

-----------------------------------------------------------------------------
Return(row) == at' = "rest" /\ got' = row

mdb_rewind_table == cur' = [pg |-> 0, phys |-> 0, row |-> 0]

(* mdb_fetch_row is called.                                                *)
Fetch ==
  /\ at = "rest"
  /\ IF cur.pg = 0
       THEN /\ cur' = [cur EXCEPT !.pg = 1, !.row = 0]
            /\ at' = IF table.temp THEN "loop" ELSE "open"
       ELSE at' = "loop" /\ UNCHANGED cur
  /\ UNCHANGED <<buf, got>>

(* One iteration of the first loop of mdb_read_next_dpg, for the first     *)
(* page of the scan ("open"; the row count is then looked at) or for a     *)
(* page turned to ("turn"; its first row is read whatever its count).      *)
mdb_read_next_dpg ==
  /\ at \in {"open", "turn"}
  /\ LET next == mdb_map_find_next(table.map, cur.phys) IN
     CASE next < 0 -> at' = (IF at = "open" THEN "brute open" ELSE "brute turn")
                      /\ UNCHANGED <<cur, buf, got>>
       [] next = 0 \/ next = cur.phys -> Return(NoRow) /\ UNCHANGED <<cur, buf>>
       [] next > 0 /\ next # cur.phys /\ ~ReadSucceeds(next) ->
            mdb_read_pg(next) /\ Return(NoRow) /\ UNCHANGED cur
       [] OTHER -> /\ mdb_read_pg(next)
                   /\ cur' = [cur EXCEPT !.phys = next]
                   /\ at' = CASE ~OwnPage(buf'.page) -> at
                              [] at = "open"         -> "loop"
                              [] OTHER               -> "row"
                   /\ UNCHANGED got

\* Fault: the page is not counted up.
BruteForceInPlace ==
  /\ at \in {"brute open", "brute turn"}
  /\ mdb_read_pg(cur.phys)
  /\ IF ~ReadSucceeds(cur.phys) THEN Return(NoRow)
     ELSE /\ at' = CASE ~OwnPage(buf'.page)  -> at
                     [] at = "brute open"    -> "loop"
                     [] OTHER                -> "row"
          /\ UNCHANGED got
  /\ UNCHANGED cur

(* One iteration of its second loop, when the map cannot be read: every    *)
(* page from where the scan stands.                                        *)
BruteForce ==
  /\ at \in {"brute open", "brute turn"}
  /\ mdb_read_pg(cur.phys)
  /\ cur' = [cur EXCEPT !.phys = @ + 1]
  /\ IF ~ReadSucceeds(cur.phys) THEN Return(NoRow)
     ELSE /\ at' = CASE ~OwnPage(buf'.page)  -> at
                     [] at = "brute open"    -> "loop"
                     [] OTHER                -> "row"
          /\ UNCHANGED got

(* The top of the do loop: the next page if the rows of this one are done. *)
AtEndOfPage ==
  /\ at = "loop"
  /\ IF table.temp
       THEN LET pages == table.pages
                turned == cur.pg <= Len(pages) /\ cur.row >= Len(pages[cur.pg])
            IN  /\ cur' = IF turned THEN [cur EXCEPT !.row = 0, !.pg = @ + 1] ELSE cur
                /\ IF cur'.pg > Len(pages) THEN Return(NoRow) /\ UNCHANGED buf
                   ELSE /\ buf' = [buf EXCEPT !.page =
                                     [ZeroPage EXCEPT !.rows = pages[cur'.pg]]]
                        /\ at' = "row" /\ UNCHANGED got
       ELSE /\ IF cur.row >= Len(buf.page.rows)
                 THEN cur' = [cur EXCEPT !.row = 0] /\ at' = "turn"
                 ELSE at' = "row" /\ UNCHANGED cur
            /\ UNCHANGED <<buf, got>>

(* mdb_read_row and the increment behind it: the row is bound if it is not *)
(* deleted, mdb_crack_row takes it and the search arguments answer yes.    *)
(* Behind the last row there is free space, read as a row or not.          *)
mdb_read_row ==
  /\ at = "row"
  /\ cur' = [cur EXCEPT !.row = @ + 1]
  /\ UNCHANGED buf
  /\ IF cur.row >= Len(buf.page.rows)
       THEN \/ at' = "loop" /\ UNCHANGED got
            \/ at' = "garbage" /\ UNCHANGED got
     ELSE LET row == buf.page.rows[cur.row + 1] IN
          IF table.types = <<>> \/ row.state # "live" THEN at' = "loop" /\ UNCHANGED got
          ELSE \E answer \in mdb_test_sargs(heap, table.tree, table.types, row.fields) :
                 CASE answer = Fault -> at' = "crashed" /\ UNCHANGED got
                   [] answer = FALSE -> at' = "loop" /\ UNCHANGED got
                   [] answer = TRUE  -> Return(row.fields)

ScanStep ==
  /\ mdb_read_next_dpg \/ BruteForce \/ AtEndOfPage \/ mdb_read_row
  /\ UNCHANGED <<file, heap, table>>
=============================================================================
