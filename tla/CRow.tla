-------------------------------- MODULE CRow --------------------------------
(***************************************************************************)
(* The bytes of a row (write.c): how fields are packed into them and how   *)
(* they are cracked apart again, for Jet3, whose offsets are single bytes  *)
(* with a table of the places where they wrap, and for Jet4.               *)
(*                                                                         *)
(* A byte counts to Byte, 256 in the code; a byte of the null mask is the  *)
(* number its 8 bits are.  A column is [fixed, offset, size, num, var]; a  *)
(* field is [null, value], its value a sequence of bytes.  A field cracked *)
(* is [null, there, value].  A row that cannot be cracked is Invalid.      *)
(* Offsets count from 0, from the start of the page.                       *)
(***************************************************************************)
EXTENDS Integers, Sequences, FiniteSets, SequencesExt

CONSTANTS Byte, PgSize, Invalid

Low(n)  == n % Byte
High(n) == n \div Byte % Byte
Int16(n) == <<Low(n), High(n)>>

MaskSize(n) == (n + 7) \div 8

(* mdb_pack_null_mask: a bit for every field that is not null.             *)
mdb_pack_null_mask(fields) ==
  [b \in 1 .. MaskSize(Len(fields)) |->
     FoldLeft(+, 0, [k \in 1 .. 8 |->
        LET i == 8 * (b - 1) + k
        IN  IF i \in DOMAIN fields /\ ~fields[i].null THEN 2^(k - 1) ELSE 0])]

(* The fixed fields take their size whether null or not (what lies in the  *)
(* place of a null one is not written), the variable ones only if they are *)
(* not null.                                                               *)
FixedBytes(cols, fields) ==
  FlattenSeq([i \in DOMAIN fields |->
    IF ~cols[i].fixed THEN <<>>
    ELSE IF fields[i].null THEN [k \in 1 .. cols[i].size |-> 0] ELSE fields[i].value])
VarBytes(cols, fields) ==
  [i \in DOMAIN fields |-> IF cols[i].fixed \/ fields[i].null THEN <<>> ELSE fields[i].value]

(* The places where the variable fields start, and where the last ends.    *)
Ends(cols, fields, from) ==
  LET var == VarBytes(cols, fields)
      at(i) == from + Len(FlattenSeq(SubSeq(var, 1, i - 1)))
      which == SelectSeq([i \in DOMAIN fields |-> i], LAMBDA i : ~cols[i].fixed)
  IN  Append([k \in DOMAIN which |-> at(which[k])], at(Len(fields) + 1))

mdb_pack_row4(cols, fields) ==
  LET head == Int16(Len(fields)) \o FixedBytes(cols, fields)
      ends == Ends(cols, fields, Len(head))
      back == Reverse(ends)
  IN  head \o (IF Len(ends) = 1 THEN <<>>
               ELSE FlattenSeq(VarBytes(cols, fields))
                    \o FlattenSeq([k \in DOMAIN back |-> Int16(back[k])]) \o Int16(Len(ends) - 1))
           \o mdb_pack_null_mask(fields)

(* The jump table names a column wherever the high byte of the offset      *)
(* behind it is larger: once, however much larger it is.                   *)
JumpTable(back) ==
  LET n == Len(back) - 1
  IN  SelectSeq([i \in 1 .. n |-> IF High(back[i]) > High(back[i + 1]) THEN n + 1 - i ELSE -1],
                LAMBDA j : j # -1)

mdb_pack_row3(cols, fields) ==
  LET head == <<Len(fields)>> \o FixedBytes(cols, fields)
      ends == Ends(cols, fields, Len(head))
      back == Reverse(ends)
      pos  == Last(ends) + Len(back)
      dummy == IF High(Last(ends)) < (pos + MaskSize(Len(fields)) - 1) \div (Byte - 1)
                 THEN <<Byte - 1>> ELSE <<>>
  IN  head \o (IF Len(ends) = 1 THEN <<>>
               ELSE FlattenSeq(VarBytes(cols, fields)) \o [k \in DOMAIN back |-> Low(back[k])]
                    \o dummy \o JumpTable(back) \o <<Len(ends) - 1>>)
           \o mdb_pack_null_mask(fields)

-----------------------------------------------------------------------------
(* The bytes of `row`, which starts at offset `start`.                     *)
At8(row, start, o)  == IF o - start + 1 \in DOMAIN row THEN row[o - start + 1] ELSE 0
At16(row, start, o) == At8(row, start, o) + Byte * At8(row, start, o + 1)

(* Both return the offsets of the variable columns, Invalid if there is no *)
(* room for them.                                                          *)
mdb_crack_row4(row, start, mask, vars) ==
  LET end == start + Len(row) - 1
  IN  IF mask + 3 + vars * 2 + 2 > end THEN Invalid
      ELSE [i \in 0 .. vars |-> At16(row, start, end - mask - 3 - i * 2)]

mdb_crack_row3(row, start, mask, vars) ==
  LET end   == start + Len(row) - 1
      all   == (Len(row) - 1) \div Byte
      ptr   == end - mask - all - 1
      jumps == IF ptr >= start + vars /\ (ptr - start - vars) \div Byte < all THEN all - 1 ELSE all
      used[i \in 0 .. vars] ==
        LET u    == IF i = 0 THEN 0 ELSE used[i - 1]
            stop == {k \in u .. jumps : k = jumps \/ At8(row, start, end - mask - k - 1) # i}
        IN  CHOOSE k \in stop : \A l \in stop : k <= l
  IN  IF mask + jumps + 1 > end \/ ptr >= PgSize \/ ptr < vars THEN Invalid
      ELSE [i \in 0 .. vars |-> At8(row, start, ptr - i) + used[i] * Byte]

(* mdb_crack_row.  `jet3` is the version of the file.  A column whose      *)
(* place is beyond what the row has is null, without a value.              *)
mdb_crack_row(jet3, cols, row, start) ==
  LET end   == start + Len(row) - 1
      count == IF jet3 THEN 1 ELSE 2
      n     == IF jet3 THEN At8(row, start, start) ELSE At16(row, start, start)
      mask  == MaskSize(n)
      vars  == IF \A i \in DOMAIN cols : cols[i].fixed THEN 0
               ELSE IF jet3 THEN At8(row, start, end - mask) ELSE At16(row, start, end - mask - 1)
      offs  == IF \A i \in DOMAIN cols : cols[i].fixed THEN <<>>
               ELSE IF jet3 THEN mdb_crack_row3(row, start, mask, vars)
               ELSE mdb_crack_row4(row, start, mask, vars)
      null(i) == (At8(row, start, end - mask + 1 + cols[i].num \div 8) \div 2^(cols[i].num % 8)) % 2 = 0
      fixedBefore(i) == Cardinality({j \in 1 .. i - 1 : cols[j].fixed})
      placed(i) == IF cols[i].fixed THEN n < vars \/ fixedBefore(i) < n - vars ELSE cols[i].var < vars
      from(i) == IF cols[i].fixed THEN count + cols[i].offset ELSE offs[cols[i].var]
      size(i) == IF cols[i].fixed THEN cols[i].size ELSE offs[cols[i].var + 1] - from(i)
      beyond(i) == placed(i) /\ from(i) + size(i) > Len(row)
  IN  IF mask + (IF jet3 THEN 0 ELSE 1) >= end \/ offs = Invalid THEN Invalid
      ELSE IF \E i \in DOMAIN cols : beyond(i) THEN Invalid
      ELSE [i \in DOMAIN cols |->
              [null  |-> null(i) \/ ~placed(i),
               there |-> placed(i),
               value |-> IF placed(i) THEN SubSeq(row, from(i) + 1, from(i) + size(i)) ELSE <<>>]]

-----------------------------------------------------------------------------
(* The offsets of neighbours differ by so much that one jump is too few.   *)
Steep(cols, fields) ==
  LET ends == Ends(cols, fields, 1 + Len(FixedBytes(cols, fields)))
  IN  \E i \in 1 .. Len(ends) - 1 : High(ends[i + 1]) > High(ends[i]) + 1

Recovered(cols, fields) ==
  [i \in DOMAIN fields |-> [null |-> fields[i].null, there |-> TRUE,
     value |-> IF ~fields[i].null THEN fields[i].value
               ELSE [k \in 1 .. (IF cols[i].fixed THEN cols[i].size ELSE 0) |-> 0]]]
=============================================================================
