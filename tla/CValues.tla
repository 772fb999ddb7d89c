------------------------------- MODULE CValues ------------------------------
(***************************************************************************)
(* How the C library turns the bytes of a field into what it shows: money  *)
(* and numeric in decimal arithmetic (money.c), texts with their unicode   *)
(* compression (iconv.c), memos and OLE objects that lie in rows of their  *)
(* own (data.c), and the choice among them (mdb_col_to_string).            *)
(*                                                                         *)
(* Byte is the number of values of a byte, NumericWord how many bytes the  *)
(* words of a numeric have, Precision the digits of decimal arithmetic.  A *)
(* code unit of a text is <<low, high>>.  Rows of other pages are a        *)
(* function from their numbers to [next, data, short]; a short row has not *)
(* even the four bytes of a link.                                          *)
(***************************************************************************)
EXTENDS Integers, Sequences, FiniteSets, SequencesExt

CONSTANTS Byte, NumericWord, Precision

Upto(n) == [i \in 1 .. n |-> i]

-----------------------------------------------------------------------------
(* multiply_byte and do_carry: product + num * multiplier, digit by digit, *)
(* the least significant one first.  What is carried out of the last digit *)
(* is lost.                                                                *)
Digit(num, k) == CASE k = 0 -> num % 10 [] k = 1 -> (num \div 10) % 10 [] k = 2 -> (num \div 100) % 10
do_carry(product) ==
  FoldLeft(LAMBDA a, d : LET n == (d + a.carry) % Byte
                         IN  [digits |-> Append(a.digits, n % 10), carry |-> n \div 10],
           [digits |-> <<>>, carry |-> 0], product).digits
multiply_byte(product, num, multiplier) ==
  FoldLeft(LAMBDA p, i :
             IF multiplier[i] = 0 THEN p
             ELSE do_carry([k \in DOMAIN p |->
                    IF k - i \in 0 .. 2 THEN (p[k] + multiplier[i] * Digit(num, k - i)) % Byte
                    ELSE p[k]]),
           product, Upto(Len(product)))

(* The digits that are written: the whole ones without leading zeros, down *)
(* to the one before the point, and all behind it.                         *)
array_to_string(array, scale, neg) ==
  LET tops == {t \in 0 .. Len(array) : t - 1 <= scale \/ array[t] # 0}
      top  == CHOOSE t \in tops : \A u \in tops : u <= t
  IN  [neg |-> neg, whole |-> Reverse(SubSeq(array, scale + 1, top)),
       point |-> Reverse(SubSeq(array, 1, scale))]

Zeros    == [i \in 1 .. Precision |-> 0]
One      == [Zeros EXCEPT ![1] = 1]
Decimal(bytes) ==
  FoldLeft(LAMBDA a, b : [product |-> multiply_byte(a.product, b, a.multiplier),
                          multiplier |-> multiply_byte(Zeros, Byte, a.multiplier)],
           [product |-> Zeros, multiplier |-> One], bytes).product

(* mdb_money_to_string: the two's complement of a negative number first.   *)
\* Fault: the carry out of the first byte is lost.
FlippedWithoutCarry(bytes) ==
  [i \in DOMAIN bytes |-> IF i = 1 THEN (Byte - bytes[i]) % Byte ELSE Byte - 1 - bytes[i]]
Flipped(bytes) ==
  LET not  == [i \in DOMAIN bytes |-> Byte - 1 - bytes[i]]
      full == {i \in 1 .. Len(not) : \A j \in 1 .. i : not[j] = Byte - 1}
  IN  [i \in DOMAIN not |-> IF i \in full THEN 0
                            ELSE IF i = Cardinality(full) + 1 THEN not[i] + 1 ELSE not[i]]
mdb_money_to_string(bytes, scale) ==
  LET neg == Last(bytes) >= Byte \div 2
  IN  array_to_string(Decimal(IF neg THEN Flipped(bytes) ELSE bytes), scale, neg)

(* mdb_numeric_to_string: a sign, and words of which the last comes first. *)
mdb_numeric_to_string(sign, bytes, prec) ==
  LET n == Len(bytes)
      order == [i \in 1 .. n |->
                  bytes[n - NumericWord + 1 - NumericWord * ((i - 1) \div NumericWord)
                        + ((i - 1) % NumericWord)]]
  IN  array_to_string(Decimal(order), prec, sign >= Byte \div 2)

-----------------------------------------------------------------------------
(* Texts.  decompress_unicode: a zero switches between one byte for a code *)
(* unit and two; an odd byte at the end is dropped.                        *)
RECURSIVE decompress_unicode(_, _)
decompress_unicode(src, compress) ==
  IF src = <<>> THEN <<>>
  ELSE IF Head(src) = 0 THEN decompress_unicode(Tail(src), ~compress)
  ELSE IF compress THEN <<Head(src), 0>> \o decompress_unicode(Tail(src), compress)
  ELSE IF Len(src) = 1 THEN <<>>
  ELSE SubSeq(src, 1, 2) \o decompress_unicode(SubSeq(src, 3, Len(src)), compress)

BomLow  == Byte - 1
BomHigh == Byte - 2
Inflated(jet3, src) ==
  IF ~jet3 /\ Len(src) >= 2 /\ src[1] = BomLow /\ src[2] = BomHigh
    THEN decompress_unicode(SubSeq(src, 3, Len(src)), TRUE)
  ELSE src

(* A code point in UTF-8, and the texts that wcstombs and the loop of      *)
(* latin1_to_utf8_without_iconv write: what fits into dlen - 1 bytes.  One *)
(* half of a surrogate pair, before the room is used up, empties the text. *)
Wide(c)  == IF c < Byte \div 2 THEN 1 ELSE IF c < 8 * Byte THEN 2 ELSE 3
RECURSIVE Fitting(_, _)
Fitting(points, room) ==
  IF points = <<>> \/ Wide(Head(points)) > room THEN <<>>
  ELSE <<Head(points)>> \o Fitting(Tail(points), room - Wide(Head(points)))

latin1_to_utf8_without_iconv(bytes, dlen) == Fitting(bytes, dlen - 1)
UntilZero(points) ==
  LET zeros == {i \in DOMAIN points : points[i] = 0}
  IN  IF zeros = {} THEN points
      ELSE SubSeq(points, 1, (CHOOSE i \in zeros : \A j \in zeros : i <= j) - 1)
(* The units that wcstombs refuses.                                        *)
Surrogate(u) == u \in 55296 .. 57343
unicode2ascii_locale(bytes, dlen) ==
  LET points == UntilZero([i \in 1 .. Len(bytes) \div 2 |-> bytes[2 * i - 1] + Byte * bytes[2 * i]])
      fits   == Fitting(points, dlen - 1)
      odd    == \E i \in DOMAIN fits : Surrogate(fits[i])
      next   == Len(fits) < Len(points) /\ Surrogate(points[Len(fits) + 1])
  IN  IF odd \/ next THEN <<>> ELSE fits

(* Jet3 texts of a code page other than 1252 are copied byte by byte: one  *)
(* that is no ASCII stands in the text as a byte, here a negative number.  *)
Raw(bytes) == [i \in DOMAIN bytes |-> IF bytes[i] < Byte \div 2 THEN bytes[i] ELSE -bytes[i]]
mdb_unicode2ascii(jet3, latin1, src, dlen) ==
  IF ~jet3 THEN unicode2ascii_locale(Inflated(jet3, src), dlen)
  ELSE IF latin1 THEN latin1_to_utf8_without_iconv(src, dlen)
  ELSE UntilZero(SubSeq(Raw(src), 1, IF Len(src) < dlen - 1 THEN Len(src) ELSE dlen - 1))

(* mdb_ascii2unicode: the bytes of the text one by one, then compressed if *)
(* that is shorter.  Compressed gives the code units dest[dptr ..] behind  *)
(* the bytes already in tmp, or nothing when they do not fit into dlen.    *)
RECURSIVE Compressed(_, _, _, _)
Compressed(units, tmp, comp, dlen) ==
  LET u == Head(units)
  IN  IF Len(tmp) >= dlen THEN <<>>
      ELSE IF units = <<>> THEN tmp
      ELSE IF (u[2] # 0) = comp THEN Compressed(units, Append(tmp, 0), ~comp, dlen)
      ELSE IF u[1] = 0 THEN <<>>
      ELSE IF comp THEN Compressed(Tail(units), Append(tmp, u[1]), comp, dlen)
      ELSE IF Len(tmp) + 1 < dlen THEN Compressed(Tail(units), tmp \o u, comp, dlen)
      ELSE <<>>
Shortened(units) ==
  LET plain == FlattenSeq(units)
      tmp   == Compressed(units, <<BomLow, BomHigh>>, TRUE, Len(plain))
  IN  IF Len(plain) > 4 /\ tmp # <<>> THEN tmp ELSE plain
mdb_ascii2unicode(jet3, src, dlen) ==
  LET n == IF Len(src) < dlen \div 2 THEN Len(src) ELSE dlen \div 2
  IN  IF jet3 THEN SubSeq(src, 1, IF Len(src) < dlen - 1 THEN Len(src) ELSE dlen - 1)
      ELSE Shortened([i \in 1 .. n |-> <<src[i], 0>>])

-----------------------------------------------------------------------------
(* Long values.  A field is [kind, len, data, row]: "inline", its bytes    *)
(* behind the header; "single", a row that is the value; "multi", a chain. *)
(* A row that cannot be found is not in the domain of `rows`.              *)
RECURSIVE MemoChain(_, _, _, _, _)
MemoChain(rows, r, len, got, fuel) ==
  IF r \notin DOMAIN rows THEN [ok |-> FALSE, got |-> <<>>]
  ELSE IF rows[r].short \/ Len(got) + Len(rows[r].data) > len \/ fuel = 0
    THEN [ok |-> TRUE, got |-> got]
  ELSE IF rows[r].next = 0 THEN [ok |-> TRUE, got |-> got \o rows[r].data]
  ELSE MemoChain(rows, rows[r].next, len, got \o rows[r].data, fuel - 1)

MemoBytes(rows, field, fuel) ==
  CASE field.kind = "inline" -> field.data
    [] field.kind = "single" -> IF field.row \in DOMAIN rows THEN rows[field.row].data ELSE <<>>
    [] field.kind = "multi"  -> MemoChain(rows, field.row, field.len, <<>>, fuel).got
    [] OTHER -> <<>>

(* mdb_memo_to_string: a chain ends before the row that would make it      *)
(* longer than the field says, and the text where bind_size is used up.    *)
mdb_memo_to_string(rows, field, bind, fuel) ==
  mdb_unicode2ascii(FALSE, FALSE, MemoBytes(rows, field, fuel), bind)

(* mdb_ole_read and mdb_ole_read_next: a chunk, and where the next one is. *)
(* A chunk of no bytes cannot be told from the end.                        *)
Chunk(bytes, next) == [chunk |-> bytes, next |-> next]
mdb_ole_read(rows, field, size) ==
  LET there == field.row \in DOMAIN rows
  IN  CASE field.kind = "inline" -> Chunk(IF size < Len(field.data) THEN <<>> ELSE field.data, 0)
        [] field.kind = "single" -> Chunk(IF there THEN rows[field.row].data ELSE <<>>, field.row)
        [] field.kind = "multi"  ->
             IF ~there \/ rows[field.row].short THEN Chunk(<<>>, field.row)
             ELSE Chunk(rows[field.row].data, rows[field.row].next)
        [] OTHER -> Chunk(<<>>, 0)
mdb_ole_read_next(rows, next) ==
  IF next = 0 \/ next \notin DOMAIN rows \/ rows[next].short THEN Chunk(<<>>, next)
  ELSE Chunk(rows[next].data, rows[next].next)

RECURSIVE OleChunks(_, _, _)
OleChunks(rows, next, fuel) ==
  LET c == mdb_ole_read_next(rows, next)
  IN  IF c.chunk = <<>> \/ fuel = 0 THEN <<>> ELSE c.chunk \o OleChunks(rows, c.next, fuel - 1)
mdb_ole_read_full(rows, field, size, fuel) ==
  LET first == mdb_ole_read(rows, field, size)
  IN  first.chunk \o (IF field.kind = "multi" THEN OleChunks(rows, first.next, fuel) ELSE <<>>)

-----------------------------------------------------------------------------
(* mdb_col_to_string for the numbers: little-endian bytes, a BYTE without  *)
(* a sign, an INT and a LONGINT with one; and a GUID's bytes as they are   *)
(* written.                                                                *)
RECURSIVE Unsigned(_)
Unsigned(bytes) == IF bytes = <<>> THEN 0 ELSE Head(bytes) + Byte * Unsigned(Tail(bytes))
SignedOf(bytes) ==
  Unsigned(bytes) - (IF Last(bytes) >= Byte \div 2 THEN Byte ^ Len(bytes) ELSE 0)
mdb_uuid_to_string(b) == <<b[4], b[3], b[2], b[1], b[6], b[5], b[8], b[7]>> \o SubSeq(b, 9, 16)
mdb_col_to_string(type, bytes) ==
  CASE type = "BYTE" -> Unsigned(SubSeq(bytes, 1, 1))
    [] type = "INT"  -> SignedOf(SubSeq(bytes, 1, 2))
    [] type \in {"LONGINT", "COMPLEX"} -> SignedOf(SubSeq(bytes, 1, 4))
    [] type = "REPID" -> mdb_uuid_to_string(bytes)

(* mdb_xfer_bound_data: a field of no bytes is shown as nothing.  What is  *)
(* longer than the caller's buffer is cut, and so is what a zero follows.  *)
mdb_xfer_bound_data(shown, len, size) ==
  IF len = 0 THEN <<>> ELSE Fitting(UntilZero(shown), size - 1)
=============================================================================
