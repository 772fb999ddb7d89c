------------------------------ MODULE GReading ------------------------------
(***************************************************************************)
(* What the Go driver makes of the same bytes as the C library: the        *)
(* definition of a table (table.go, file.go), a row (crack.go), a text and *)
(* a memo (encoding.go, data.go).  Files, handles, columns, rows and long  *)
(* values are those of CTableDef, CRow and CValues.  A text is the         *)
(* sequence of its code points.                                            *)
(***************************************************************************)
EXTENDS Integers, Sequences, FiniteSets, SequencesExt

CONSTANTS Byte, PgSize, ColsStart, RidxSize

EntrySize == 3
Header    == 8
PadTo(n, bytes) == [i \in 1 .. n |-> IF i \in DOMAIN bytes THEN bytes[i] ELSE 0]

-----------------------------------------------------------------------------
(* The definition of a table.  readPage puts the reader at the start of a  *)
(* page that is not in the buffer, and leaves the handle alone if there is *)
(* none.                                                                   *)
readPage(file, h, n) ==
  IF n # 0 /\ h.cur = n THEN [ok |-> TRUE, h |-> h]
  ELSE IF n \in DOMAIN file THEN [ok |-> TRUE, h |-> [buf |-> file[n], cur |-> n, pos |-> 0]]
  ELSE [ok |-> FALSE, h |-> h]

(* ReadPgIfN.  It goes on as if readPage had kept the position: on a page  *)
(* that was not in the buffer the position becomes negative, and slicing   *)
(* the buffer there panics.                                                *)
RECURSIVE Copied(_, _, _, _)
Copied(file, h, n, out) ==
  LET next == readPage(file, h, h.buf.next)
      k    == IF n < PgSize - h.pos THEN n ELSE PgSize - h.pos
  IN  IF n = 0 THEN [st |-> "ok", out |-> out, h |-> h]
      ELSE IF h.pos >= PgSize
        THEN IF next.ok THEN Copied(file, [next.h EXCEPT !.pos = @ - (PgSize - Header)], n, out)
             ELSE [st |-> "short", out |-> out, h |-> h]
      ELSE IF h.pos < 0 THEN [st |-> "panic", out |-> out, h |-> h]
      ELSE Copied(file, [h EXCEPT !.pos = @ + k], n - k,
                  out \o [i \in 1 .. k |-> h.buf.at[h.pos + i - 1]])
ReadPgIfN(file, h, n) ==
  IF h.pos < 0 THEN [st |-> "short", out |-> <<>>, h |-> h] ELSE Copied(file, h, n, <<>>)

(* ReadTable: the maps are rows of other pages, read into another buffer.  *)
ReadTable(file, h, pg, usage, free) ==
  LET r == readPage(file, h, pg)
  IN  [ok |-> r.ok /\ r.h.buf.type = 2 /\ usage.there /\ usage.bytes # <<>> /\ free.there, h |-> r.h]

RECURSIVE Entries(_, _, _, _)
Entries(file, h, n, cols) ==
  LET r   == ReadPgIfN(file, h, EntrySize)
      col == [type |-> r.out[1], num |-> r.out[2], fixed |-> r.out[3] % 2 = 1, name |-> <<>>]
  IN  IF n = 0 THEN [st |-> "ok", cols |-> cols, h |-> h]
      ELSE IF r.st = "ok" THEN Entries(file, r.h, n - 1, Append(cols, col))
      ELSE [st |-> r.st, cols |-> <<>>, h |-> r.h]

(* ReadPgIf8 and ReadPgIf16 do not look at how much was read: what is      *)
(* missing of a length is zero.                                            *)
LengthSize(jet3) == IF jet3 THEN 1 ELSE 2
LengthOf(bytes)  == IF Len(bytes) = 1 THEN bytes[1] ELSE bytes[1] + 256 * bytes[2]
RECURSIVE NamesFrom(_, _, _, _, _)
NamesFrom(file, jet3, h, i, cols) ==
  LET size == ReadPgIfN(file, h, LengthSize(jet3))
      name == ReadPgIfN(file, size.h, LengthOf(PadTo(LengthSize(jet3), size.out)))
  IN  IF i > Len(cols) THEN [st |-> "ok", cols |-> cols]
      ELSE IF size.st = "panic" THEN [st |-> "panic", cols |-> <<>>]
      ELSE IF name.st # "ok" THEN [st |-> name.st, cols |-> <<>>]
      ELSE NamesFrom(file, jet3, name.h, i + 1, [cols EXCEPT ![i].name = name.out])

sortColumnsByNum(cols) == SortSeq(cols, LAMBDA a, b : a.num < b.num)
ReadColumns(file, jet3, h, ridxs, n) ==
  LET e == Entries(file, [h EXCEPT !.pos = ColsStart + ridxs * RidxSize], n, <<>>)
      r == IF e.st = "ok" THEN NamesFrom(file, jet3, e.h, 1, e.cols) ELSE [st |-> e.st, cols |-> <<>>]
  IN  [r EXCEPT !.cols = sortColumnsByNum(@)]

-----------------------------------------------------------------------------
(* A row, its bytes at offset `start` of the page.                         *)
At8(row, start, o)  == IF o - start + 1 \in DOMAIN row THEN row[o - start + 1] ELSE 0
At16(row, start, o) == At8(row, start, o) + Byte * At8(row, start, o + 1)

crackRow4OffsetsIn(row, start, end, mask, vars) ==
  [i \in 0 .. vars |-> At16(row, start, end - mask - 3 - i * 2)]

(* Without room for the offsets they stay what they are; here, zero.       *)
Quotient(a, b) == IF a < 0 THEN -((-a) \div b) ELSE a \div b
crackRow3OffsetsIn(row, start, end, mask, vars) ==
  LET all   == (Len(row) - 1) \div Byte
      ptr   == end - mask - all - 1
      jumps == IF Quotient(ptr - start - vars, Byte) < all THEN all - 1 ELSE all
      used[i \in 0 .. vars] ==
        LET u    == IF i = 0 THEN 0 ELSE used[i - 1]
            stop == {k \in u .. jumps : k = jumps \/ At8(row, start, end - mask - k - 1) # i}
        IN  IF stop = {} THEN u ELSE CHOOSE k \in stop : \A l \in stop : k <= l
  IN  [i \in 0 .. vars |-> IF mask + jumps + 1 > end \/ ptr >= PgSize \/ ptr < vars THEN 0
                           ELSE At8(row, start, ptr - i) + used[i] * Byte]

(* crackRowInto and crackColumnInto: a field beyond the end of its row has *)
(* no bytes.                                                               *)
crackRowInto(jet3, cols, row, start) ==
  LET end   == start + Len(row) - 1
      count == IF jet3 THEN 1 ELSE 2
      n     == IF jet3 THEN At8(row, start, start) ELSE At16(row, start, start)
      mask  == (n + 7) \div 8
      fixed == \A i \in DOMAIN cols : cols[i].fixed
      vars  == IF fixed THEN 0
               ELSE IF jet3 THEN At8(row, start, end - mask) ELSE At16(row, start, end - mask - 1)
      offs  == IF jet3 THEN crackRow3OffsetsIn(row, start, end, mask, vars)
               ELSE crackRow4OffsetsIn(row, start, end, mask, vars)
      null(i) == (At8(row, start, end - mask + 1 + cols[i].num \div 8) \div 2^(cols[i].num % 8)) % 2 = 0
      placed(i) == IF cols[i].fixed THEN Cardinality({j \in 1 .. i - 1 : cols[j].fixed}) < n - vars
                   ELSE cols[i].var < vars
      from(i) == IF cols[i].fixed THEN count + cols[i].offset ELSE offs[cols[i].var]
      size(i) == IF cols[i].fixed THEN cols[i].size ELSE offs[cols[i].var + 1] - from(i)
  IN  IF mask >= end - start THEN <<>>
      ELSE [i \in DOMAIN cols |->
              [null  |-> null(i) \/ ~placed(i),
               there |-> placed(i),
               value |-> IF placed(i) /\ from(i) + size(i) <= Len(row)
                           THEN SubSeq(row, from(i) + 1, from(i) + size(i)) ELSE <<>>]]

-----------------------------------------------------------------------------
(* Texts.  A decoder is [compressed, high, out]: the mode, the high half   *)
(* of a surrogate pair whose low half is awaited, or 0, and what it wrote. *)
RuneError == 65533
High(u) == u \in 55296 .. 56319
Low(u)  == u \in 56320 .. 57343
Paired(high, low) == 65536 + (high - 55296) * 1024 + (low - 56320)
Decoder(compressed) == [compressed |-> compressed, high |-> 0, out |-> <<>>]
Flushed(st) ==
  IF st.high = 0 THEN st ELSE [st EXCEPT !.high = 0, !.out = Append(@, RuneError)]

appendUTF16Unit(st, u) ==
  IF st.high # 0 /\ Low(u) THEN [st EXCEPT !.high = 0, !.out = Append(@, Paired(st.high, u))]
  ELSE LET s == Flushed(st)
       IN  IF High(u) THEN [s EXCEPT !.high = u]
           ELSE [s EXCEPT !.out = Append(@, IF Low(u) THEN RuneError ELSE u)]

(* An odd byte at the end is dropped, and a pair that is not complete is   *)
(* an error then.                                                          *)
appendUTF16LEState(st, src) ==
  Flushed(FoldLeft(appendUTF16Unit, st,
                   [i \in 1 .. Len(src) \div 2 |-> src[2 * i - 1] + Byte * src[2 * i]]))

Rest(src) == SubSeq(src, 3, Len(src))
RECURSIVE Units(_, _)
Units(st, src) ==
  IF src = <<>> THEN st
  ELSE IF Head(src) = 0 THEN Units([st EXCEPT !.compressed = ~@], Tail(src))
  ELSE IF st.compressed THEN Units([Flushed(st) EXCEPT !.out = Append(@, Head(src))], Tail(src))
  ELSE IF Len(src) = 1 THEN st
  ELSE Units(appendUTF16Unit(st, src[1] + Byte * src[2]), Rest(src))
appendCompressedUnicodeState(st, src) == Flushed(Units(st, src))

Bom(src) == Len(src) >= 2 /\ src[1] = Byte - 1 /\ src[2] = Byte - 2
appendUnicodeUTF8(jet3, src) ==
  IF jet3 THEN src
  ELSE IF Bom(src) THEN appendCompressedUnicodeState(Decoder(TRUE), Rest(src)).out
  ELSE appendUTF16LEState(Decoder(FALSE), src).out

(* appendUnicodeChunk: only the first chunk may say that the text is       *)
(* compressed, and a later one is decoded in the mode that the one before  *)
(* it ended in.                                                            *)
\* Fault: a later chunk is read as if the text were not compressed.
ChunkInFirstMode(src, first, st) ==
  IF first /\ Bom(src) THEN appendCompressedUnicodeState([st EXCEPT !.compressed = TRUE], Rest(src))
  ELSE appendUTF16LEState(st, src)
appendUnicodeChunk(src, first, st) ==
  IF first /\ Bom(src) THEN appendCompressedUnicodeState([st EXCEPT !.compressed = TRUE], Rest(src))
  ELSE IF ~first /\ st.compressed THEN appendCompressedUnicodeState(st, src)
  ELSE appendUTF16LEState(st, src)

-----------------------------------------------------------------------------
(* Long values: the chain of rows, as far as there are rows of four bytes. *)
RECURSIVE ChainOf(_, _, _)
ChainOf(rows, r, fuel) ==
  IF r \notin DOMAIN rows \/ fuel = 0 THEN <<>>
  ELSE IF rows[r].short THEN <<>>
  ELSE <<rows[r].data>> \o (IF rows[r].next = 0 THEN <<>> ELSE ChainOf(rows, rows[r].next, fuel - 1))

RowOf(rows, r) == IF r \in DOMAIN rows THEN rows[r].data ELSE <<>>
Chunks(rows, field, fuel) ==
  CASE field.kind = "inline" -> <<field.data>>
    [] field.kind = "single" -> <<RowOf(rows, field.row)>>
    [] field.kind = "multi"  -> ChainOf(rows, field.row, fuel)
    [] OTHER -> <<>>
LongBytes(rows, field, fuel) == FlattenSeq(Chunks(rows, field, fuel))

(* The synchronous path decodes the whole memo, a worker of a fast scan    *)
(* one chunk after the other.                                              *)
memoToString(chunks) == appendUnicodeUTF8(FALSE, FlattenSeq(chunks))
memoToStringIn(chunks) ==
  FoldLeft(LAMBDA a, c : [st |-> appendUnicodeChunk(c, a.first, a.st), first |-> FALSE],
           [st |-> Decoder(FALSE), first |-> TRUE], chunks).st.out

(* A value is shown up to its first zero.                                  *)
trimNUL(text) ==
  LET zeros == {i \in DOMAIN text : text[i] = 0}
  IN  SubSeq(text, 1, Min(zeros \cup {Len(text) + 1}) - 1)
=============================================================================
