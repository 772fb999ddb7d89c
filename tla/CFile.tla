------------------------------- MODULE CFile --------------------------------
(***************************************************************************)
(* Files of the C library: how a database is found, opened, shared by      *)
(* clones of a handle, read and written by pages, decrypted, and closed    *)
(* (file.c, rc4.c).                                                        *)
(*                                                                         *)
(* A file is a sequence of bytes.  A byte counts to 2^Bits and a page of a *)
(* Jet3 file is Jet3Size bytes, one of Jet4 twice that.  The header, page  *)
(* 0, is <<marker, version>> and behind it the database key, enciphered.   *)
(* `plain` is a history variable: the pages as they were last written,     *)
(* before they were enciphered.  So are `spoiled[h]`: the buffer of h      *)
(* holds no page yet, or was edited, or filled by a read that failed;      *)
(* `late[h]`: another clone has written the page that the buffer of h      *)
(* holds since h read it; and `rowFresh`: mdb_find_pg_row has found the    *)
(* page as it was last written.                                            *)
(***************************************************************************)
EXTENDS Integers, Sequences, FiniteSets, SequencesExt, FiniteSetsExt

CONSTANTS Handles, Streams, Names, Dirs, Places,
          Bits, Jet3Size, NoStream, MaxEdits, Faulty

ASSUME StreamAssumption == NoStream \notin Streams /\ IsFiniteSet(Handles)
ASSUME ByteAssumption == Bits \in Nat \ {0}

VARIABLES disk, plain, refs, of, streams, handles, spoiled, late, rowFresh, edits

fileVars == <<disk, plain, refs, of, streams, handles, spoiled, late, rowFresh, edits>>

Power[n \in Nat] == IF n = 0 THEN 1 ELSE 2 * Power[n - 1]
Byte == Power[Bits]
Bytes == 0 .. Byte - 1

-----------------------------------------------------------------------------
(* RC4 (rc4.c).  XorOf[n] is exclusive or of the n lowest bits.            *)
XorOf[n \in Nat] ==
  [a \in Nat |-> [b \in Nat |->
     IF n = 0 THEN 0 ELSE 2 * XorOf[n - 1][a \div 2][b \div 2] + ((a + b) % 2)]]
Xor(a, b) == XorOf[Bits][a][b]

Swap(s, i, j) == [s EXCEPT ![i] = s[j], ![j] = s[i]]

KeyRound(key, a, c) ==
  LET j == (key[(c % Len(key)) + 1] + a.s[c] + a.j) % Byte
  IN  [s |-> Swap(a.s, c, j), j |-> j]
RC4_set_key(key) ==
  FoldLeft(LAMBDA a, c : KeyRound(key, a, c),
           [s |-> [i \in Bytes |-> i], j |-> 0], [c \in 1 .. Byte |-> c - 1]).s

RC4Round(a, byte) ==
  LET x == (a.x + 1) % Byte
      y == (a.s[x] + a.y) % Byte
      s == Swap(a.s, x, y)
  IN  [s |-> s, x |-> x, y |-> y,
       out |-> Append(a.out, Xor(byte, s[(s[x] + s[y]) % Byte]))]
RC4(state, buffer) ==
  FoldLeft(RC4Round, [s |-> state, x |-> 0, y |-> 0, out |-> <<>>], buffer).out

mdbi_rc4(key, buffer) == RC4(RC4_set_key(key), buffer)

BootKey == <<3, 2, 1, 3>>
Digits(pg) == [i \in 1 .. 4 |-> (pg \div Power[Bits * (i - 1)]) % Byte]
PageKey(key, pg) == [i \in 1 .. 4 |-> Xor(key[i], Digits(pg)[i])]
NoKey == <<0, 0, 0, 0>>

-----------------------------------------------------------------------------
(* Versions 0 and 1 stand for Jet3 and for the six of Jet4.                *)
PageSize(version) == IF version = 0 THEN Jet3Size ELSE 2 * Jet3Size
MaxPage == 2 * Jet3Size

(* fseek, ftell and fread of a whole page: a page that starts where the    *)
(* file ends is not beyond it, and reads as zeros.                         *)
Beyond(bytes, pg, size) == Len(bytes) < pg * size
Page(bytes, pg, size) ==
  [i \in 1 .. size |-> IF pg * size + i \in DOMAIN bytes THEN bytes[pg * size + i] ELSE 0]
Over(buf, page) == [i \in DOMAIN buf |-> IF i \in DOMAIN page THEN page[i] ELSE buf[i]]
Zeros(n) == [i \in 1 .. n |-> 0]

Deciphered(f, pg, page) ==
  IF pg # 0 /\ f.key # NoKey THEN mdbi_rc4(PageKey(f.key, pg), page) ELSE page

(* mdb_find_file: the name as it is, else in $MDBPATH, of which g_strsplit *)
(* returns only the last component.  A bound: MDBPATH has no empty one, on *)
(* which the loop would not advance.                                       *)
mdb_find_file(name, path) ==
  LET at == {p \in Places : p = <<"", name>> \/ (path # <<>> /\ p = <<Last(path), name>>)}
      there == {p \in at : disk[p].there}
  IN  IF <<"", name>> \in there THEN {<<"", name>>} ELSE there

(* What page 0 tells; a marker other than 0, or an unknown version, is not *)
(* a database.                                                             *)
Header(bytes) ==
  LET page == Page(bytes, 0, Jet3Size)
  IN  [ok |-> page[1] = 0 /\ page[2] \in {0, 1}, version |-> page[2],
       key |-> mdbi_rc4(BootKey, SubSeq(page, 3, 6))]

(* The pages listed for a database are those of the file, deciphered; a    *)
(* read that fails brings no more than a page.                             *)
ASSUME DiskAssumption ==
  /\ Jet3Size \in Nat /\ Jet3Size >= 6
  /\ Faulty \subseteq Int /\ \A n \in Faulty : n <= Jet3Size
  /\ \A d \in Dirs :
       /\ d \in [Places -> [there : BOOLEAN, bytes : Seq(Bytes), pages : Seq(Seq(Bytes))]]
       /\ \A p \in Places :
            LET header == Header(d[p].bytes)
            IN  header.ok => \A i \in DOMAIN d[p].pages \ {1} :
                  d[p].pages[i] =
                    Deciphered(header, i - 1, Page(d[p].bytes, i - 1, PageSize(header.version)))

Closed   == [place |-> <<>>, err |-> FALSE, version |-> 0, key |-> NoKey, writable |-> FALSE]
NoHandle == [cur |-> 0, pg |-> Zeros(MaxPage)]
IsOpen(h) == of[h] # NoStream
Stream(h) == streams[of[h]]
Size(h)   == PageSize(Stream(h).version)

(* The buffer holds the page as it was last written.                       *)
Fresh(h, pg, buffer) ==
  LET pages == plain[Stream(h).place]
  IN  pg + 1 \in DOMAIN pages => SubSeq(buffer, 1, Size(h)) = pages[pg + 1]
Sharers(f) == {h \in Handles : of[h] = f}

FileInit ==
  /\ \E d \in Dirs : disk = d
  /\ plain = [p \in Places |-> disk[p].pages]
  /\ refs = [f \in Streams |-> 0] /\ of = [h \in Handles |-> NoStream]
  /\ streams = [f \in Streams |-> Closed]
  /\ handles = [h \in Handles |-> NoHandle]
  /\ spoiled = [h \in Handles |-> FALSE]
  /\ late = [h \in Handles |-> FALSE]
  /\ rowFresh = TRUE
  /\ edits = 0

-----------------------------------------------------------------------------
(* A bound: a file that is open for writing is open as one stream; the     *)
(* buffers of stdio are not modelled.                                      *)
Alone(place, writable) ==
  \A g \in Streams : refs[g] > 0 /\ streams[g].place = place
                        => ~writable /\ ~streams[g].writable

(* mdb_open, mdb_handle_from_stream.  Anything that fails closes again.    *)
Open(h, f, name, path, writable) ==
  /\ ~IsOpen(h) /\ refs[f] = 0
  /\ LET found  == mdb_find_file(name, path)
         place  == CHOOSE p \in found : TRUE
         header == Header(disk[place].bytes)
         page   == Page(disk[place].bytes, 0, Jet3Size)
     IN  IF found = {} \/ (found # {} /\ ~header.ok)
           THEN UNCHANGED <<refs, of, streams, handles, spoiled, late>>
           ELSE /\ Alone(place, writable)
                /\ streams' = [streams EXCEPT ![f] =
                     [place |-> place, err |-> FALSE, version |-> header.version,
                      key |-> header.key, writable |-> writable]]
                /\ refs' = [refs EXCEPT ![f] = 1]
                /\ of' = [of EXCEPT ![h] = f]
                /\ handles' = [handles EXCEPT ![h] = [NoHandle EXCEPT !.pg = Over(@, page)]]
                /\ spoiled' = [spoiled EXCEPT ![h] = TRUE]
                /\ late' = [late EXCEPT ![h] = FALSE]
  /\ UNCHANGED <<disk, plain, rowFresh, edits>>

(* mdb_close: the file goes with the last handle that shares it.           *)
\* Fault: the first handle to close takes the file along.
ReleaseAll(f) == refs' = [refs EXCEPT ![f] = 0]
Release(f) == refs' = [refs EXCEPT ![f] = IF refs[f] > 1 THEN refs[f] - 1 ELSE 0]
mdb_close(h) ==
  /\ IsOpen(h)
  /\ Release(of[h])
  /\ streams' = [streams EXCEPT ![of[h]] = IF refs[of[h]] > 1 THEN @ ELSE Closed]
  /\ of' = [of EXCEPT ![h] = NoStream]
  /\ handles' = [handles EXCEPT ![h] = NoHandle]
  /\ spoiled' = [spoiled EXCEPT ![h] = FALSE]
  /\ late' = [late EXCEPT ![h] = FALSE]
  /\ UNCHANGED <<disk, plain, rowFresh, edits>>

(* mdb_clone_handle: the page buffer and the number of its page are        *)
(* copied, the statistics are not.                                         *)
mdb_clone_handle(h, g) ==
  /\ IsOpen(h) /\ ~IsOpen(g)
  /\ handles' = [handles EXCEPT ![g] = handles[h]]
  /\ refs' = [refs EXCEPT ![of[h]] = refs[of[h]] + 1]
  /\ of' = [of EXCEPT ![g] = of[h]]
  /\ spoiled' = [spoiled EXCEPT ![g] = spoiled[h]]
  /\ late' = [late EXCEPT ![g] = late[h]]
  /\ UNCHANGED <<disk, plain, streams, rowFresh, edits>>

(* _mdb_read_pg into a buffer: `err` is the error mark of the stream,      *)
(* which no one clears.  `fault` is how many bytes arrive before the read  *)
(* fails, -1 if it does not (a bound: reads fail only before any edit).    *)
PageRead(h, pg, buf, fault) ==
  LET f == Stream(h)
      page == Page(disk[f.place].bytes, pg, Size(h))
      here == [ok |-> FALSE, err |-> f.err, buf |-> buf]
  IN  IF Beyond(disk[f.place].bytes, pg, Size(h)) THEN here
      ELSE IF f.err \/ fault >= 0
        THEN [here EXCEPT !.err = TRUE, !.buf = Over(@, IF fault >= 0 THEN SubSeq(page, 1, fault) ELSE page)]
      ELSE [ok |-> TRUE, err |-> FALSE, buf |-> Over(buf, Deciphered(f, pg, page))]

(* mdb_read_pg: the buffer is used as it is when it has the number of the  *)
(* page, whatever a clone has written since, and however it was filled.    *)
mdb_read_pg(h, pg, fault) ==
  /\ IsOpen(h) /\ (fault >= 0 => edits = 0)
  /\ IF pg # 0 /\ handles[h].cur = pg
       THEN UNCHANGED <<handles, streams, spoiled, late>>
       ELSE LET r == PageRead(h, pg, handles[h].pg, fault)
            IN  /\ handles' = [handles EXCEPT ![h].pg = r.buf, ![h].cur = pg]
                /\ streams' = [streams EXCEPT ![of[h]].err = r.err]
                /\ spoiled' = [spoiled EXCEPT ![h] = ~r.ok]
                /\ late' = [late EXCEPT ![h] = FALSE]
  /\ UNCHANGED <<disk, plain, refs, of, rowFresh, edits>>

(* mdb_find_pg_row: the page comes into the other buffer, the row is       *)
(* looked up there with the buffers swapped, and they are swapped back.    *)
(* What the other buffer holds is kept only as long as the caller uses it. *)
mdb_swap_pgbuf(buffers) == [pg |-> buffers.alt, alt |-> buffers.pg]
\* Fault: the buffers stay swapped.
LeaveSwapped(buffers) == buffers
SwapBack(buffers) == mdb_swap_pgbuf(buffers)
mdb_find_pg_row(h, pg) ==
  /\ IsOpen(h)
  /\ LET r == PageRead(h, pg, Zeros(MaxPage), -1)
         after == SwapBack(mdb_swap_pgbuf([pg |-> handles[h].pg, alt |-> r.buf]))
     IN  /\ handles' = [handles EXCEPT ![h].pg = IF r.ok THEN after.pg ELSE @]
         /\ streams' = [streams EXCEPT ![of[h]].err = r.err]
         /\ rowFresh' = (r.ok => Fresh(h, pg, after.alt))
  /\ UNCHANGED <<disk, plain, refs, of, spoiled, late, edits>>

(* mdb_put_*: a byte of the page last read is changed, which may be late.  *)
(* Bounds: MaxEdits of them, and none once the stream has had an error.    *)
Put(h, at, byte) ==
  /\ IsOpen(h) /\ edits < MaxEdits /\ ~spoiled[h] /\ ~Stream(h).err
  /\ at \in 1 .. Size(h)
  /\ handles' = [handles EXCEPT ![h].pg[at] = byte]
  /\ spoiled' = [spoiled EXCEPT ![h] = TRUE]
  /\ edits' = edits + 1
  /\ UNCHANGED <<disk, plain, refs, of, streams, late, rowFresh>>

(* mdb_write_pg: only where the file already has a whole page.  It does    *)
(* not look at the `writable` of the file; a stream opened for reading     *)
(* then has an error.  Its callers write the page they have read, and the  *)
(* buffers of the clones that hold the same page stay as they are.         *)
mdb_write_pg(h, pg) ==
  LET f    == Stream(h)
      page == SubSeq(handles[h].pg, 1, Size(h))
      code == Deciphered(f, pg, page)
      at   == pg * Size(h)
  IN  /\ IsOpen(h) /\ edits > 0 /\ handles[h].cur = pg /\ pg # 0
      /\ IF Len(disk[f.place].bytes) < at + Size(h)
           THEN UNCHANGED <<disk, plain, streams, spoiled, late>>
         ELSE IF ~f.writable
           THEN /\ streams' = [streams EXCEPT ![of[h]].err = TRUE]
                /\ UNCHANGED <<disk, plain, spoiled, late>>
         ELSE /\ disk' = [disk EXCEPT ![f.place].bytes =
                   [i \in DOMAIN @ |-> IF i \in at + 1 .. at + Size(h) THEN code[i - at] ELSE @[i]]]
              /\ plain' = [plain EXCEPT ![f.place][pg + 1] = page]
              /\ spoiled' = [spoiled EXCEPT ![h] = FALSE]
              /\ late' = [g \in Handles |->
                   g # h /\ (late[g] \/ (of[g] = of[h] /\ handles[g].cur = pg))]
              /\ UNCHANGED streams
      /\ UNCHANGED <<refs, of, handles, rowFresh, edits>>

-----------------------------------------------------------------------------
Pages == 1 .. 3
FileNext ==
  \/ \E h \in Handles, f \in Streams, name \in Names, path \in {<<>>, <<"b">>, <<"b", "a">>},
        writable \in BOOLEAN : Open(h, f, name, path, writable)
  \/ \E h \in Handles :
       \/ mdb_close(h)
       \/ \E g \in Handles : mdb_clone_handle(h, g)
       \/ \E pg \in Pages, fault \in Faulty : mdb_read_pg(h, pg, fault)
       \/ \E pg \in Pages : mdb_find_pg_row(h, pg) \/ mdb_write_pg(h, pg)
       \/ Put(h, 1, 1)

FileSpec == FileInit /\ [][FileNext]_fileVars

-----------------------------------------------------------------------------
(* A file object is shared by as many handles as it counts, and is there   *)
(* exactly while one of them is: closing a handle neither takes the file   *)
(* from its clones nor leaves it open (mdb_close, mdb_clone_handle).       *)
HandlesCounted == \A f \in Streams : refs[f] = Cardinality(Sharers(f))

(* A page that a read brought from the file is the page as it was last     *)
(* written, whichever clone wrote it, deciphered.  The buffer goes on      *)
(* holding that page but in four cases: it has had only the header yet,    *)
(* which mdb_open leaves there; it was edited; the read that filled it     *)
(* failed, and left the number of its page behind (file.c:343); another    *)
(* clone has written the page since.  In the last three a read of that     *)
(* number takes the buffer as it is and succeeds (file.c:335), and in the  *)
(* last an edit and a write from here undo the other clone's write.        *)
ReadsFresh ==
  /\ \A h \in Handles :
       IsOpen(h) /\ ~spoiled[h] /\ ~late[h] => Fresh(h, handles[h].cur, handles[h].pg)
  /\ rowFresh
=============================================================================
