------------------------------- MODULE CPage --------------------------------
(***************************************************************************)
(* Rows on data pages: the pages of a temporary table, and those of a      *)
(* table in a file open for writing (write.c, map.c, worktable.c).         *)
(*                                                                         *)
(* A page is [free, rows]: the free space it states, and its rows in the   *)
(* order of their slots, each [start, flag, what].  A row fills the bytes  *)
(* from its start to the start of the row before it, or to PgSize.  The    *)
(* slots, two bytes each, lie behind the header, at Rco + 2.  `what` names *)
(* the content of a row, and is Damaged when bytes of it were lost.        *)
(* `given` and `meant` are history variables: the rows that were added to  *)
(* the temporary table, and for each row of the file what it should hold   *)
(* and why it may not: it was squeezed in, or copied while it was flagged. *)
(***************************************************************************)
EXTENDS Integers, Sequences, FiniteSets

CONSTANTS PgSize, Rco, Rows, Sizes, Damaged, MaxAdded,
          FilePages, \* the file's pages: the sequence the free map names
          Tables     \* their initial contents

ASSUME PageAssumption ==
  /\ PgSize \in Nat /\ Rco \in Nat /\ PgSize >= Rco + 2
  /\ Sizes \subseteq Nat /\ \A n \in Sizes : n > 0 /\ n + 2 <= PgSize - Rco - 2
  /\ Damaged \notin Rows
  /\ MaxAdded \in Nat
(* In the file, the rows of a page lie one behind the other, above the     *)
(* slots, and the free map names pages of the file.                        *)
ASSUME FileAssumption ==
  \A pages \in Tables :
    /\ FilePages \in Seq(DOMAIN pages)
    /\ pages \in [DOMAIN pages ->
         [free : Int, rows : Seq([start : Int, flag : BOOLEAN, what : Rows])]]
    /\ \A pg \in DOMAIN pages : LET rows == pages[pg].rows IN
         \A i \in DOMAIN rows :
           /\ rows[i].start >= Rco + 2 + 2 * Len(rows)
           /\ rows[i].start < (IF i = 1 THEN PgSize ELSE rows[i - 1].start)

VARIABLES temp, given, file, meant, added
pageVars == <<temp, given, file, meant, added>>

-----------------------------------------------------------------------------
SlotsEnd(n) == Rco + 2 + 2 * n
mdb_new_data_pg == [free |-> PgSize - Rco - 2, rows |-> <<>>]

(* mdb_find_row: where row i starts and how long it is.                    *)
Bottom(page) == IF page.rows = <<>> THEN PgSize ELSE page.rows[Len(page.rows)].start
RowSize(page, i) == (IF i = 1 THEN PgSize ELSE page.rows[i - 1].start) - page.rows[i].start

(* mdb_pg_get_freespace.  On a page without rows the word before the slots *)
(* is the number of rows itself, 0.                                        *)
mdb_pg_get_freespace(page) ==
  (IF page.rows = <<>> THEN 0 ELSE Bottom(page)) - SlotsEnd(Len(page.rows))

(* A row behind the others, and the free space behind it.  The bytes of    *)
(* the row are copied first, then its slot is written, on top of them if   *)
(* they reach down to it.                                                  *)
WithRow(page, what, size) ==
  LET pos == Bottom(page) - size
      n   == Len(page.rows) + 1
  IN  [free |-> pos - SlotsEnd(n),
       rows |-> Append(page.rows, [start |-> pos, flag |-> FALSE,
                                   what |-> IF pos < SlotsEnd(n) THEN Damaged ELSE what])]

(* The rows of a page of the file are copied to a new page one by one.  A  *)
(* flagged row is copied from a place the flag is part of, and its flag is *)
(* not copied at all.                                                      *)
Copied(row) == [start |-> row.start, flag |-> FALSE,
                what |-> IF row.flag THEN Damaged ELSE row.what]
CopiedRows(page) == [page EXCEPT !.rows = [i \in DOMAIN @ |-> Copied(@[i])]]
CopiedMeant(ms, page) ==
  [i \in DOMAIN ms |-> [ms[i] EXCEPT !.flagged = @ \/ page.rows[i].flag]]

(* mdb_add_row_to_pg for a temporary table: a new page when there is none, *)
(* or when the last has no place for the row and its slot.                 *)
\* Fault: the slot is not counted.
HasPlaceForRow(page, size) == page.free >= size
HasPlace(page, size) == page.free >= size + 2
AddTemp(what, size) ==
  /\ added < MaxAdded
  /\ temp' = IF temp = <<>> \/ ~HasPlace(temp[Len(temp)], size)
               THEN Append(temp, WithRow(mdb_new_data_pg, what, size))
               ELSE [temp EXCEPT ![Len(temp)] = WithRow(@, what, size)]
  /\ given' = Append(given, [what |-> what, size |-> size])
  /\ added' = added + 1
  /\ UNCHANGED <<file, meant>>

(* mdb_insert_row: the first page of the free map with space for the row,  *)
(* which does not count its slot; none is ever allocated.                  *)
mdb_map_find_next_freepage(size) ==
  LET fits == {k \in DOMAIN FilePages : mdb_pg_get_freespace(file[FilePages[k]]) >= size}
  IN  IF fits = {} THEN 0 ELSE FilePages[CHOOSE k \in fits : \A j \in fits : k <= j]
mdb_insert_row(what, size) ==
  LET pg == mdb_map_find_next_freepage(size)
  IN  /\ added < MaxAdded
      /\ pg # 0
      /\ file' = [file EXCEPT ![pg] = WithRow(CopiedRows(@), what, size)]
      /\ meant' = [meant EXCEPT ![pg] = Append(CopiedMeant(@, file[pg]),
           [what |-> what, size |-> size, flagged |-> FALSE,
            squeezed |-> mdb_pg_get_freespace(file[pg]) < size + 2])]
      /\ added' = added + 1
      /\ UNCHANGED <<temp, given>>

(* mdb_update_row and mdb_replace_row: the row takes its new size where it *)
(* is, and the rows behind it move.  Both write flagged rows as Copied.    *)
RowsFit(page, i, size) == size <= RowSize(page, i) + mdb_pg_get_freespace(page)
\* Fault: the rows behind it stay where they are.
ReplacedKeepsStarts(page, i, what, size) ==
  [page EXCEPT !.rows[i] = [start |-> @.start + RowSize(page, i) - size, flag |-> FALSE, what |-> what]]
Replaced(page, i, what, size) ==
  LET delta(k) == IF k >= i THEN size - RowSize(page, i) ELSE 0
      rows == [k \in DOMAIN page.rows |->
                 IF k = i THEN [start |-> page.rows[k].start - delta(k), flag |-> FALSE, what |-> what]
                 ELSE [Copied(page.rows[k]) EXCEPT !.start = @ - delta(k)]]
      page1 == [page EXCEPT !.rows = rows]
  IN  [page1 EXCEPT !.free = mdb_pg_get_freespace(page1)]
mdb_update_row(pg, i, what, size) ==
  /\ added < MaxAdded
  /\ i \in DOMAIN file[pg].rows
  /\ RowsFit(file[pg], i, size)
  /\ file' = [file EXCEPT ![pg] = Replaced(@, i, what, size)]
  /\ meant' = [meant EXCEPT ![pg] =
       [CopiedMeant(@, file[pg]) EXCEPT ![i] =
          [what |-> what, size |-> size, squeezed |-> FALSE, flagged |-> FALSE]]]
  /\ added' = added + 1
  /\ UNCHANGED <<temp, given>>

-----------------------------------------------------------------------------
PageInit ==
  /\ temp = <<>> /\ given = <<>> /\ added = 0
  /\ file \in Tables
  /\ meant = [pg \in DOMAIN file |-> [i \in DOMAIN file[pg].rows |->
       [what |-> file[pg].rows[i].what, size |-> RowSize(file[pg], i),
        squeezed |-> FALSE, flagged |-> FALSE]]]

PageNext ==
  \E what \in Rows, size \in Sizes :
    \/ AddTemp(what, size)
    \/ mdb_insert_row(what, size)
    \/ \E pg \in DOMAIN file : \E i \in DOMAIN file[pg].rows : mdb_update_row(pg, i, what, size)

PageSpec == PageInit /\ [][PageNext]_pageVars

-----------------------------------------------------------------------------
(* The pages of a temporary table: each states the space between its slots *)
(* and its lowest row, rows and slots do not meet, and no row is empty of  *)
(* place (mdb_add_row_to_pg).                                              *)
PageSound(page) ==
  /\ page.free = Bottom(page) - SlotsEnd(Len(page.rows))
  /\ page.free >= 0
  /\ \A i \in DOMAIN page.rows :
       /\ page.rows[i].start < (IF i = 1 THEN PgSize ELSE page.rows[i - 1].start)
       /\ page.rows[i].what # Damaged /\ ~page.rows[i].flag
TempSound == \A p \in DOMAIN temp : PageSound(temp[p])

Held(page) == [i \in DOMAIN page.rows |-> [what |-> page.rows[i].what, size |-> RowSize(page, i)]]
RowsBefore[p \in Nat] == IF p = 0 THEN <<>> ELSE RowsBefore[p - 1] \o Held(temp[p])
TempRows == RowsBefore[Len(temp)] = given
(* A row of the file holds what was last written into it, whatever is      *)
(* inserted or updated beside it, unless it was squeezed in where its slot *)
(* had no place, or was copied while it was flagged (mdb_insert_row,       *)
(* mdb_replace_row); and a scan of the temporary table finds, page by page *)
(* and row by row, the rows that were added, in their order.               *)
FileRows ==
  \A pg \in DOMAIN file : \A i \in DOMAIN file[pg].rows :
    LET row == file[pg].rows[i]
        m   == meant[pg][i]
    IN  /\ RowSize(file[pg], i) = m.size
        /\ row.what # m.what => m.squeezed \/ m.flagged
        /\ \/ row.start >= SlotsEnd(Len(file[pg].rows))
           \/ \E k \in DOMAIN meant[pg] : meant[pg][k].squeezed
RowsKept == FileRows /\ TempRows
=============================================================================
