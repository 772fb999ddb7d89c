# TLA+ models of mdbgo

mdbgo reads Microsoft Access databases (`.mdb`, `.accdb`) through Go's `database/sql`. It has
two drivers: `gomdb`, written in Go, and `cmdb`, a binding of the C library mdbtools. This
directory holds TLA+ models of both, the TLC configurations that check them on small instances,
and proofs that TLAPS checks for every size.

For a user the program is read-only. What can go wrong in the Go driver is concurrency (a scan runs
on a pipeline of goroutines, and connections share caches), reuse (an executed query is kept and
run again), several cursors over one page buffer, and files that are damaged or rewritten under
the reader. In the C library it is the life of one SQL object with everything it owns, a scan that
has to cope with damaged usage maps, handles that share files and buffers, and pages that are
filled to the last byte. In both it is the reading of bytes that lie across pages and chunks.
The models are about these.

## 1. The system

Sizes are lines without tests; paths are below `src/`.

| Part | Source | State | Operations | Model |
|---|---|---|---|---|
| driver connection | `driver/gomdb/gomdb.go` | one `MdbHandle`, the cached plans, open `Rows` | `QueryContext`, `Ping`, `Close`; `Rows.Next`, `Rows.Close` | `Connection` |
| query and plan | `internal/gomdb/puredb.go`, `plan.go` | an executed `SQL`, `inUse`, the fast scan of a query | `OpenQueryOnHandle`, `Execute`, `CapturePlan`, `Close` | `Connection` |
| fast scan | `internal/gomdb/fastscan.go` (912) | batches, four channels, atomics, goroutines | `produce`, `worker`, `enqueueWhen`, `nextRow`, `close` | `FastScan` |
| synchronous scan | `internal/gomdb/data.go`, `map.go` | page buffer, position in the table | `FetchRow`, `ReadNextDpg`, `mapFindNext` | `PageScan`, `UsageMap` |
| file cache | `internal/gomdb/filecache.go`, `file.go` | contents of whole files, loads under way | `loadCachedFileData`, eviction | `FileCache` |
| schema caches | `internal/gomdb/catalog.go`, `tablecache.go` | catalogs and table definitions by path, size, mtime | `catalogEntries`, `readTableCached`, `ReadTableByName` | `SchemaCache` |
| SQL layer of the Go driver | `internal/gomdb/sql.go` (1294), `orderby.go`, `worktable.go` | `RowCount`, `SortedRows`, temporary pages | parse, execute, `FetchRow`, sort | partly, in `PageScan`, `Connection`, `Conditions` |
| conditions of the Go driver | `internal/gomdb/sargs.go`, `like.go` | none | `TestSargs`, `LikeCmp` | `Conditions`, `Like` |
| definitions, rows, values of the Go driver | `internal/gomdb/table.go`, `crack.go`, `encoding.go`, `data.go` | a reader's position | `ReadTable`, `ReadColumns`, `crackRowInto`, `memoToString` | `GReading` |
| C driver | `driver/cmdb`, `internal/cmdb/cmdb.go`, `bridge.c` | one SQL object and handle for each query | `cmdb_query_open`, `_next`, `_close` | `CQuery` |
| SQL engine in C | `mdbtools/src/sql/mdbsql.c` (954), `parser.c` | the `MdbSQL`: columns, tables, stack and tree of conditions, limit | the reductions of the grammar, `mdb_sql_run_query`, `mdb_sql_fetch_row`, `mdb_sql_exit` | `CQuery` |
| table scan in C | `libmdb/data.c`, `map.c`, `sargs.c`, `like.c` | position in the table, page buffer | `mdb_fetch_row`, `mdb_read_next_dpg`, `mdb_map_find_next`, `mdb_test_sargs` | `CScan`, `CSargs` |
| files in C | `libmdb/file.c`, `rc4.c` | files with their counts of handles, two page buffers for a handle | `mdb_open`, `mdb_clone_handle`, `mdb_read_pg`, `mdb_find_pg_row`, `mdb_close` | `CFile` |
| pages in C | `libmdb/write.c`, `worktable.c` | the rows on a page and its free space | add to a temporary table; insert, update | `CPage` |
| options in C | `libmdb/options.c` | the options of each thread, the environment | `load_options` | `COptions` |
| definitions in C | `libmdb/table.c`, `catalog.c`, `props.c`, `index.c` | a reader's position, the chain of an index scan | `mdb_read_table`, `mdb_read_columns`, `mdb_kkd_to_props`, `mdb_read_indices`, `mdb_index_find_next` | `CTableDef`, `CIndex` |
| rows and values in C | `libmdb/write.c`, `data.c`, `money.c`, `iconv.c` | none | pack and crack, bytes to text | `CRow`, `CValues`, `CDates` |

How the Go parts interact. `database/sql` calls a connection from one goroutine at a time. The
connection opens its handle once; opening loads the file through the **file cache**, which all
connections of the process share. A query is executed by the SQL layer, which takes catalog and
table definition from the **schema caches**, or comes from the connection's cache of **plans**.
It then reads rows in one of four ways: a **synchronous scan**, which moves the position of the
table and the one page buffer of the handle; a **fast scan**, whose producer goroutine does the
same while workers decode; a **snapshot** that ORDER BY made of a synchronous scan; or a
**temporary table** (LIST TABLES, DESCRIBE TABLE). When its `Rows` are closed, the executed query
becomes a plan.

How the C parts interact. The Go side of `cmdb` opens an SQL object with a handle of its own for
each query. The parser reduces the statement and calls a function of the **SQL engine** at each
rule; the last of them reads the catalog and the **definition** of the table, resolves columns, or
fills a **temporary table**. A fetch runs the **scan**: the usage map names a page, the **file**
layer reads it into the handle's buffer, each row on it is **cracked** and tested against the
condition, and the bound columns are turned into text by the readers of **values**. A value that
lies in another row is fetched through the second page buffer. Closing releases the tree, the
table, the bindings and the handle.

What each part has to get right:

* *fast scan*: the rows of the synchronous scan, in its order, each once; memory bounded by the
  batches in flight; no batch with two owners; no row shown before its task was processed;
  `Close` gets every goroutine back; no circle of waiting goroutines.
* *synchronous scan*: every page of the table once, in order, whatever the usage map says; it ends.
* *file cache*: never bytes older than the file that was stat'ed; one load for a path; a waiter is
  always woken up; the budget holds.
* *connection*: a plan has one user; a released plan is as good as a new query, wherever it was
  left; no producer survives its `Rows`; queries do not disturb each other.
* *schema caches*: a handle works with the definitions of the bytes that it has, however files are
  rewritten and entries replaced.
* *conditions, LIKE*: a condition is parsed as it reads and selects the rows of which it is true,
  however it nests and whichever path its IN lists take; the matcher of LIKE ends and agrees with
  its definition.
* *a query of the C driver*: the tree of its condition is the one that was written, its nodes are
  freed once and not used after; it delivers the rows that the condition asks for, up to its
  limit; it either opens or says why; it releases what it took; every call returns.
* *files in C*: a file closes with its last handle; a page read is the page as it was last written,
  deciphered, in the buffer it was asked into, when the file was read for it.
* *pages in C*: rows and slots never meet; a row keeps its content whatever is done beside it.
* *reading*: columns, properties and indexes as they were written, wherever pages end in
  them; an index scan meets every row once; values to the last digit; and both drivers read the
  same from the same bytes.

The behaviours that tests hardly reach are listed, each with its line, under `hazards` in
`PROJECT.json`.

## 2. The modules

| Module | What it is |
|---|---|
| `OrderedScan` | abstract: matching rows in page order, up to the limit, then the end, nothing after Close |
| `FastScan` | the goroutine pipeline; implements `OrderedScan` |
| `UsageMap` | `mapFindNext` for both formats of usage maps, as operators |
| `PageScan` | the synchronous scan over `UsageMap`; implements `OrderedScan` on intact files |
| `FileCache` | the process-wide cache of file contents |
| `SchemaCache` | the process-wide caches of catalogs and table definitions |
| `Connection` | handle, plans, open `Rows`, and what each kind of query does to the page buffer |
| `Like` | the loop of the LIKE matcher, and what LIKE means |
| `Conditions` | WHERE from its tokens to the value of the tree on a row; uses `Like` |
| `CSargs`, `CDates` | tests of a row against a condition, LIKE and dates of the C library, as operators |
| `CScan` | `mdb_fetch_row` over pages and usage maps, a step for each round; uses `CSargs` |
| `CQuery` | a query of the C driver from open to close, over `CScan` and `CDates` |
| `CFile` | files, handles, clones, page buffers, RC4 |
| `CPage` | rows on pages of temporary tables and of the file |
| `COptions` | the options each thread reads from the environment |
| `CTableDef`, `CIndex` | definitions of tables, properties, the catalog; indexes; as operators |
| `CRow`, `CValues` | packing and cracking of rows; money, numerics, texts, memos, OLE; as operators |
| `GReading` | what the Go driver makes of the same bytes, as operators |
| `CReading` | calls these readers on bytes written for some content, and compares |
| `CLibrary` | `CFile`, `CPage`, `COptions` and `CReading` together |
| `MC*` | small instances for TLC |
| `FastScanProofs` | theorems about `FastScan`: types and order; batches, slots and the refinement |
| `FileCacheProofs`, `SchemaCacheProofs`, `PageScanProofs`, `ConnectionProofs` | theorems about the module of that name |
| `CStoreProofs` | theorems about `CFile`, `CPage` and `COptions` |
| `CQueryProofs` | theorems about `CQuery` |
| `OperatorProofs` | lemmas on numbers, sums and concatenations, and the theorems about `Like` |

`FastScan` and `PageScan` refine the same abstract scan, so that the two paths agree where both
apply. `Connection` contains both in a reduced form: a fast scan is a producer that reads a page
and takes it, a synchronous scan is a position and the page in the buffer.

Operators that a comment introduces with *Fault:* are not used by any action. Each is a plausible
mistake in the operator that follows it; put in its place it must violate the property
`PROJECT.json` names.

### FastScan

An action is one channel operation, or one operation on an atomic field of a batch, with the
local computation around it. `ppc`, `wpc`, `epc` and `cpc` say where the producer, each worker,
each goroutine started by `enqueueWhen` and the consumer stand. `obj` holds the fields of the
batch objects. `gen` numbers the uses of an object and `stale` records that a worker signalled a
batch of a later use; both are history.

| Code | Actions |
|---|---|
| `produce`, `acquireSlot`, `acquireBatch`, `sendTask` | `AcquireSlot`, `TakePooled`, `RemakeReady`, `AllocateBatch`, `ReadPage`, `Dispatch`, `CountTask`, `PutTask`, `AfterLastPage`, `EnqueueEOF`, `ProducerExit` |
| `enqueueWhen` | `FinishBatch`, `SpawnEnqueuer`; then in its goroutine `AwaitPrev`, `AwaitReady`, `HandOver`, `ReleaseNext`, `GiveUp` |
| `worker`, `processTask` | `ReceiveTask`, `ProcessTask`, `CountDone`, `LoadSending`, `LoadRemaining`, `SignalReady`, `WorkerExit` |
| `nextRow`, `releaseBatch`, `releaseSlot`, `close` | `CallNext`, `ReleaseBatch`, `ReleaseSlot`, `ReceiveBatch`, `ScanRow`, `CallClose`, `FinishClose` |

Abstracted: decoding a row is whether the query selects it. `enqueueErr` is unreachable, since
`ReadNextDpg` returns no other error than `errNoMorePages`.

Fairness (`FairSpec`): weak fairness of each goroutine, because the Go scheduler is preemptive;
of the caller only that a call it has made goes on. It may stop calling Next, and never close.

### UsageMap and PageScan

`FindNext(m, start)` is the set of the one result of `mapFindNext`. Maps are inline (first page,
bits) or paged (a list of map pages, where an entry may be 0 or unreadable), or malformed. A map
page has `BitLen` bits, 32736 in a Jet4 file and 2 in the instance.

An action of `PageScan` is one round of a loop: `FollowMap` and `ScanFile` are the two loops of
`ReadNextDpg`, `CheckPage` and `ReadRow` the two halves of the loop of `FetchRow`. A row is
`selected`, `skipped` (deleted, unreadable, rejected by WHERE) or `broken` (`CrackRow` fails). A
page that `ReadNextDpg` finds may be empty: the code then reads row 0 of it unchecked, and
`Outcomes` allows any result.

Fairness: weak fairness of the rounds of a call that was made.

### FileCache

A critical section is one action, except that each round of the eviction loop is one, with the
mutex held. A file's content is its version, a number that each rewrite increases and that
serves as mtime, so a rewrite that keeps size *and* mtime is outside the model; so is a read
that sees half of a rewrite. `ReadResults` lets every read fail. `Fallback` is what
`openMDBFromReader` does with `nil`.

Fairness: weak fairness of each opener, as the Go scheduler gives it. It is less than `sync.Mutex`
guarantees, which hands itself to a goroutine that has waited for a millisecond; strong fairness
would express that, and is what `OpenReturns` would need if the number of opens had no bound.

### SchemaCache

Continues where `FileCache` ends: a handle has stat'ed a version (`key`) and got bytes that are not
older (`bytes`, the promise `NeverOlder`). Each critical section of `catalogEntries` and
`readTableCached` is one action, and so is each build between them, which may fail. A catalog is
the version it was read from; a definition has two, that of the catalog that named its page and
that of the bytes it was decoded from. `Defines` says which tables a version has. `loaded` is
history: what was read under each path and key. Size and mtime are one number, as in `FileCache`.

A file may be rewritten between the stat and the read of a handle. Then two handles with the same
key can have different bytes, and one may get the definitions of the other. `OwnSchema` is about
the keys to which this did not happen (`CleanKey`); `CachedOfKey` holds for all.

### Connection

`Rows` number r executes its query afresh as SQL object r, or takes the object of a plan. `page`,
`row` and `count` of an object are `CurPhysPg`, `CurRow` and `RowCount`; they stay where they
are when the object becomes a plan. `buf` is the page in `mdb.pgBuf`; every read of rows goes
through it, so a query that finds another query's page takes its rows (`Junk`) and its row count.
`Stray` stands for whatever is no data page of a query; a producer that reads beside the caller
can leave it there at any moment (`BufferSeen`).

`disturbed` is history: the SQL objects that ran while other `Rows` were open. `ReuseAsFresh`
speaks of the others; `OwnRows`, of all of them, is what does not hold.

### Like and Conditions

`LikeStep` is one round of the loop in `likeCmpBytes`; `LikeCmp` runs it to its end. `Like` is the
definition it is compared with: a recursive function over the pattern, whose value is the set of
positions of the text from which the rest of the pattern matches.

A behaviour of `Conditions` is a query of one row. Its condition is an abstract term; `Written`
turns it into tokens, with parentheses only where precedence asks for them, and `Meaning` says what
it stands for. `ParseWhere` is the recursive descent over the tokens (`ParseChain` is both `parseOr`
and `parseAnd`), `Resolve` looks up columns and converts IN lists (`ResolveIn` sorts those longer
than `InMax`), `TestRow` evaluates the tree on a row. A text is a sequence of characters; numbers
are counted in halves where they may have a fraction, so that 1.5 is a number and no integer.

`SelectsAsMeant` is about conditions that are `WellTyped`. The others are in the instance, so that
the parser, the resolution and the test take their paths, but the repository does not say what
they should give. What the code makes of them:

* a column alone is TRUE (`BareColumn`), and a condition on a column that the table does not
  have is the integer of its literal;
* a comparison on a column of type Money, Numeric, Binary or OLE is true on every row;
* a literal of another type than the column compares as 0 or as the empty text, except in an IN
  list, where it is converted or dropped;
* `= NULL`, and equally `<> NULL`, is IS NULL, while NULL in an IN list is refused, because the
  comma or parenthesis behind it is taken for an element;
* IS NULL on a Boolean selects the rows where it is FALSE;
* a % in a text is taken for a literal: the matcher compares characters before it looks whether that
  of the pattern is % (`like.go:34` before `like.go:39`), so that '50%' does not match '50% off'.
  `LikeMatches` leaves such texts out.

Left out: dates and `strptime`, ILIKE (which folds both sides and then is LIKE), GUID and Complex
columns, and AND or OR without an operand, which the parser does not build.

### CSargs, CDates and CScan

A test returns the *set* of answers that the build can give: more than one where the code reads memory
it has not set (an underscore in LIKE steps over the end of the text; a TEXT field that is not in
the row), and `Fault` where it reads through a null pointer. `Means` is what a comparison says and
`Departs` names where the code gives something else: IS [NOT] NULL on every type that the switch of
`mdb_test_sarg` lists (its answer is overwritten), a null field compared by whatever bytes it has, a
BYTE above 127 and a negative INT, which change sign, and a fraction, which is cut off for integer
columns. `mdb_tm_to_date` counts the leap day of a leap year twice from March on.

An action of `CScan` is one round of a loop of `mdb_fetch_row`: `mdb_read_next_dpg` and `BruteForce`
are the two loops of the function of that name, `AtEndOfPage` and `mdb_read_row` the halves of the
loop over rows. `at` says which comes next. A scan can end in `garbage` (row 0 of a page without rows
is read, whatever lies there) or `crashed` (`Fault`).

### CQuery

A statement is its abstract syntax, with the condition in postfix form: its comparisons in the order of
the text, NOT behind its operand and AND and OR behind their two, which is the order in which the grammar
reduces them. `Postfix` lists the nodes of a tree in the same order, so that a tree can be compared with the
condition item by item (`Same`). `Parse` gives the sequence in which the parser reduces it, cut
off by a syntax error where the instance says so; each reduction is an action named for the function
it calls, and does all that the function does, with its early returns and its resets. A SELECT
resolves its columns, turns whole numbers that are compared with dates into dates, and takes a
percentage of the row count in the *definition*; floating point may land below a whole number, so
that `PercentOf` has two members where it can.

| Code | Actions |
|---|---|
| `cmdb_query_open`, `OpenQuery` | `cmdb_query_open`, `mdb_sql_run_query`, `OpenQuery` |
| the grammar's rules | `mdb_sql_add_limit` to `mdb_sql_select`, `yyerrlab` |
| `cmdb_query_next`, `mdb_sql_fetch_row` | `cmdb_query_next`, `FetchStep`, `mdb_sql_fetch_row` |
| `cmdb_query_close` | `cmdb_query_close` |

`heap` holds every node of a condition that was ever allocated and `dead` the freed ones; `held` is
what is allocated and not yet released. Nodes left on the stack when a query is freed leak, and are
not counted.

What the properties speak about. `TreeAsAsked` is for conditions whose right operands are comparisons
(`Straight`), where the order in which the stack gives nodes back makes no difference; `TreeAsWritten`
is for all, and does not hold. `RowsAsAsked` is also for tables with a whole map (`MapWhole`) and for
comparisons from which the tests do not depart (`Exact`). What else the code does:

* a column that is selected twice fills only the last of its two buffers; the first stays empty;
* a condition on a column the table does not have is its literal;
* a comparison with `strptime`, or of a text with a number, resets the query in the middle of the
  parse, which goes on: what is left of the statement then stands alone;
* CONNECT TO replaces the handle without closing it, and DESCRIBE TABLE leaves its definition
  behind (`Released` names both).

Fairness: weak fairness of the steps inside a call, which C runs to its end. The caller may stop
between calls and never close.

### CFile

A file is a sequence of bytes, page 0 of it `<<marker, version>>` and the enciphered key; `RC4` is the
cipher itself over a permutation of 2^`Bits` bytes. `refs` is the count that clones share, `streams` the state of the open
file with the error mark that nobody clears, `handles` the two page buffers and the number of the page.
`plain` is history: the pages before they were enciphered. So are `spoiled[h]` (the buffer has only the header
yet, was edited, or was filled by a read that failed) and `late[h]` (another clone has written the page
in the buffer since it was read). `ReadsFresh` says that a read that goes to the file brings the page as it was last
written, whichever clone wrote it, and is about buffers that are neither spoiled nor late. For those that are,
the code promises nothing: a failed read has already set the number of the page (`file.c:343`), and the next read
looks at the number only (`file.c:335`), so it returns what is in the buffer, as if it had succeeded. For
a late buffer that is the page as it was before the other clone's write, until another page is read; edited and
written, it undoes that write. `rowFresh` says whether `mdb_find_pg_row`, which always goes to the file, found its
page as it was last written. An empty component of MDBPATH, on which the loop of `mdb_find_file` never advances
(`file.c:104`), is left out. The driver opens files for reading; writing is modelled because the buffer protocol is
the same code, and `mdb_write_pg` does not look at `writable`.

### CPage and COptions

A page states its free space and has rows with the place where each starts. `given` and `meant` are
history: what was added to a temporary table, and what each row of the file should hold.
`mdb_insert_row` looks for a page with as much free space as the row, without its slot, so that the row may be
*squeezed* in over the slots; and the rows of a page are copied by offsets that still have their flag in
them, so that a *flagged* row is copied from elsewhere. `RowsKept` names these two. Temporary
tables, the only pages that the driver writes, take the other branch, and `TempSound` is about them.

`load_options` cuts the string of the environment itself with `strtok_r`, which all threads share, without a
lock. A thread is at an option (`at`): it looks at the character behind it (`Look`), and when that is no NUL writes
one and goes on (`Pass`). `nuls` are the separators that are seen cut, `pending` those written over by a thread
whose write the others do not see yet; they become seen in any order (`Reach`), for nothing orders the writes. So a
thread that starts while another one loads may get any number of the options, and one that starts later only the first.
`OptionsAsked` says what is left: a thread has the options up to one of them, the first at least, and none
without those before it; when all that began have loaded, one has all of them; and one that began when the first
separator was seen cut (`after`, history) has the first only. Empty options are skipped by `strtok_r` and left out.

### CTableDef, CIndex, CRow, CValues, GReading and CReading

A behaviour of `CReading` is one call. It takes some content (columns, indexes, fields, a tree, a
text), writes it as bytes in the layout that the code reads, and calls the reader; `job` holds content and
result. The readers are operators that follow the code: `read_pg_if_n` with its position on a
page, the names behind the columns, the chain of an index scan, digits with their carries. Pages
are 16 bytes, so that definitions with their names and indexes cross page ends in every part of them; rows
use bytes of 32 values, so that the offsets of a Jet3 row wrap; an index has a node over nodes
over up to three leaves, some of which no node names.

`CIndex` is complete, but nothing reaches it through the driver: the option `use_index` needs
libmswstr, which this build does not have.

`DriversAgree` compares the drivers on the same bytes ("Both drivers ... produce identical results",
`README.md:12`) and the two ways in which the Go driver decodes a memo. It names where they differ:

* a definition longer than a page: `ReadPgIfN` (`file.go:452`) takes the position for one that
  `readPage` did not reset, and panics;
* a text with a surrogate: the C library shows nothing (`iconv.c:118`);
* a text or memo of more than `bind_size` bytes, which is 16384 (`mdbtools.h:42`): C shows the characters that fit
  (`data.c:302`, 789, 806, 841), Go all of them. In the instance the size is 4 or 20;
* a Jet3 text of a code page other than 1252: C copies its bytes (`iconv.c:139-146`), so that those from
  128 on are no UTF-8, Go takes them for Latin-1;
* a memo whose rows hold more bytes than its field says: C ends before the row that is too much (`data.c:828`), Go
  goes on;
* a memo of which a row is lost: C shows nothing, Go the part before; an OLE object with an empty
  chunk ends there in C;
* a memo that a worker of the fast scan decodes chunk by chunk, cut inside a character or in
  two-byte mode (`encoding.go:216`): the pending half is dropped or misread, which `WellCut` leaves out.

Not compared are the formats of dates and floating-point numbers, and chains of rows end in a link of 0: C
follows any other link, Go none that leads to page 0.

A Jet3 row whose variable fields lie more than one wrap apart loses them, for `mdb_pack_row3` writes
one jump too few (`Steep` in `ValuesShown`).

### CLibrary

The four parts share no state that is modelled: a behaviour moves one of them, and `part` says which.
The composition is there to check them in one run.

## 3. The runs

All bounds are in the `.cfg` files and the `MC` modules.

| Run | Question | Instance | States |
|---|---|---|---|
| `fastscan_safety` | Is every interleaving an ordered scan, with one owner for a batch and no token lost? | 2 workers, 3 batches of 2 rows, tasks of 1 row, 2 batches in flight, channels of 2 and 1; four tables, with and without LIMIT | 2.0 million |
| `fastscan_liveness` | Does Close return, and Next? | the same with 2 batches and one table that recycles a batch | 303 000 |
| `fastscan_recycled` | Is a batch delivered only once its tasks are processed, as the comment says? | as `fastscan_safety` | violated |
| `filecache` | Freshness, single flight, wake-up, budget, return of every open | 2 openers, 2 files of 1 or 2 units, budget 3, one rewrite of each file, 4 opens | 618 000 |
| `schema` | Do cached schemas belong to their key, and handles to their schema? | 2 handles, opened 3 times in all, 2 files with 2 versions, the second without one of 2 tables, caches of 1 file | 656 000 |
| `pagescan` | Each page once and in order, none missed, termination, refinement | files of 5 pages; every inline map of 4 bits at base -1, 0 or 2, every paged map of 3 entries with 2 bits, every set of data pages; and a usual map over pages with empty, skipped and broken rows | 237 000 |
| `connection` | Plans and producers; reuse as good as new | a query of each kind, 3 `Rows`, 2 at a time, 1 cached plan | 1.5 million |
| `connection_beside` | Do `Rows` that are open together return their own rows? | three synchronous scans, 2 open at a time | violated |
| `conditions` | Does a WHERE clause select the rows it describes? Does LIKE? | comparisons of 6 column types with 9 literals; all IN lists of up to 2 of these and of 4 of four others, sorted above 2 elements; trees of depth 2; patterns of up to 4 characters; 25 rows of small values and 121 of texts of up to 4 characters | 672 000 |
| `c_query` | Is a query of the C driver the one that was asked, and does it release what it took? | SELECT in every form (columns, `*`, COUNT, TOP, PERCENT, LIMIT, cut off by a syntax error at every place), the other statements, every kind of comparison, and all trees over two and three of them; 9 databases: the map inline or on pages, torn, with an entry 0, of an odd type, beyond the file, a page without rows, no rows, short rows | 18 482 |
| `c_stack_order` | Is the tree of every condition the one that was written, as the comment says? | the same | violated |
| `c_library` | Are files counted and pages fresh, rows kept, options as asked, and bytes read as they were written, by both drivers? | 2 handles, 2 files, pages of 6 and 12 bytes of 2 bits, two edits, reads that fail or fall short; pages of 16 bytes with rows of 1, 3 and 5, 4 of them added; 3 threads; and the contents that `MCCLibrary` lists | 161 990 |

Why the bounds suffice for what they are meant to show:

* *Fast scan*: with 3 batches and at most 2 in flight an object is used a second time while the
  batch before is being consumed; two workers can finish the tasks of one batch in both orders,
  and one can be paused over the recycling. A batch of 2 rows and tasks of 1 give pages that end in
  a batch, at its end and beyond it.
* *File cache*: two files of up to 2 units exceed a budget of 3 only when both are large; with a
  rewrite of each, an entry is hit, replaced, evicted and re-read, and a waiter finds each of
  these when it wakes up.
* *Schema caches*: two handles are what it takes to store over each other; the third open comes
  after a rewrite and meets what they left. With caches of one file, two files clear them.
* *Page scan*: the maps of the instance are all of those with that shape. Three map pages
  make a first, a middle and a last one, and the five pages end in the middle of the third.
* *Connection*: three `Rows` let a plan be captured, taken while another query runs, and
  replaced; `MaxPlans` = 1 clears the cache at every second capture.
* *Conditions*: an operand is a leaf, NOT, AND or OR below each of NOT, AND and OR, which gives every
  pair that precedence or a parenthesis can confuse. Lists of 4 are above the limit of 2, lists of
  1 and 2 are not. Patterns of 4 characters have up to four %, so that the matcher goes back
  to a later % after an earlier one, and texts of 4 make it do so more than once.
* *Queries in C*: three comparisons are what the stack needs to give back a wrong one, and the cut
  falls between any two reductions. A map page of 4 bits makes the scan change map pages; six pages hold
  two of another owner or none, a deleted and a bad row, and a map that names pages behind the end.
* *Files in C*: with two handles every order of open, clone, read, edit, write and close occurs; with
  3 pages and 2 buffers a page is read, replaced and read again. Jet3 and Jet4, with a key and
  without, a file that is no database, an empty and a missing one. Two edits let a clone write, another
  one write its late page over that, and the first read it.
* *Options*: with three threads two load at once and a third later, or all at once; three options have two
  separators, which become seen in both orders.
* *Pages in C*: four rows of up to 5 bytes fill a page of 16 to the last byte in several ways and
  go on to further pages.
* *Reading*: each list of contents was chosen so that a page ends in every part of a definition, an
  offset wraps in every column, an index has its matches in every part of its leaves, a money
  value borrows in every byte, a text changes its mode at every place, and a memo is cut at every
  byte. Texts and memos are cut at 4 bytes in every place, and the length of a memo is any from 0 to beyond its
  rows.

What `CHECK_DEADLOCK FALSE` is for: a query that was answered or refused, a scan that was closed,
openers with nothing left to open, handles that are all closed, a connection whose `Rows` are used
up, a query of the C driver that is closed, pages with no more rows to add and bytes that were read have
stopped rightly. That nobody *waits* for ever is what `CloseReturns`, `NextReturns`, `OpenReturns`, `FetchReturns`
and `CallsReturn` say.

### What the violated runs show

* **A batch can be delivered too early** (`fastscan_recycled`). A worker loads `doneSending` and
  `remaining` and only then closes the ready channel (`fastscan.go:505-507`). Paused in between,
  it can close the channel of the *next* use of a recycled batch. The window is small, for the
  batch has to be delivered and taken from the pool again, but nothing closes it. `FastScan`
  proper keeps the step and marks it in `stale`, so that the other properties still say what holds
  without it.
* **Two open `Rows` read each other's pages** (`connection_beside`). `FetchRow` takes the page in
  the shared buffer for its own (`data.go:80`). `sql.DB` gives each `Rows` a connection of its
  own, but a `sql.Conn` may have two open. The `cmdb` driver is not affected, while the README of
  the repository calls the two drivers equivalent.
* **A chain of AND and OR is combined in the wrong order** (`c_stack_order`). `g_list_append` of the
  glib replacement puts the new link in front (`fakeglib.c:424-431`) and `mdb_sql_pop_node` takes
  the last one (`mdbsql.c:231`): the node that has waited longest. For `a OR b AND c` the parser
  reduces `b AND c` first (`parser.y:78-84`), and `mdb_sql_add_and` takes `a` and `b`. The comment above
  says that "we should be left with the correct tree root when done" (`mdbsql.c:219-220`).
  `TreeAsAsked` shows for which conditions it is.

Other departures are in the models, exempted by name in the property beside them:

* *`fileCacheBytes` drifts upwards.* The entry of a rewritten file is replaced without subtracting its
  size (`filecache.go:78-79`). The budget is never exceeded (`WithinBudget`), but files that fit are
  evicted, more of them with each rewrite.
* *Recovery stops after one page.* `mapBroken` is local to `ReadNextDpg`, so the second call trusts
  the empty map again (`map.go:18-31`). `NothingMissed` speaks of complete maps.
* *A missing map page hides pages.* `continue` at `map.go:115` leaves `offset` for the next map page,
  whose first bits are then not looked at (`SkipsFirstBit`); `map.c` does the same, and `MapWhole` leaves it out.
* *A % in a text is taken for a literal* (`like.go:34`), *literals of another type, NULL in an IN list*: see
  `Conditions` above; *what the C tests answer*: see
  `CSargs` and `CQuery` above.
* *The drivers show different values* for texts and memos above 16 KB, memos longer than they say or with a lost
  row, surrogates, Jet3 texts that are not Latin-1, OLE objects with an empty chunk and definitions longer than a page, and
  the two paths of the Go driver for split memos, against `README.md:12` ("identical results"): the list is
  in `DriversAgree` and above.
* *A page that a clone has written since is returned as it was* (`file.c:335`), *a failed read of a page is a hit the
  next time* (`file.c:343`), *rows squeezed in or copied while flagged, the options of threads that load
  at once or later*: see `CFile`, `CPage` and `COptions` above.

## 4. The theorems

They hold for every value of the constants that satisfies the named assumptions
(`FastScanAssumption`, `FileCacheAssumption`, `SchemaCacheAssumption`, `UsageMapAssumption`,
`PageScanAssumption`, `ConnectionAssumption`, `StreamAssumption`, `ByteAssumption`, `DiskAssumption`,
`PageAssumption`, `FileAssumption`, `OptionsAssumption`, `QueriesAssumption`;
`OperatorProofs` needs none), which TLC evaluates for the instances. They say what the code fixes:
`FastScanAssumption` that there are finitely many workers (2 to 8) and a task fits into a batch;
`DiskAssumption` that the pages listed for a database are those of its file, deciphered, that a header
fits into a page and a failed read brings no more than one;
`OptionsAssumption` that an environment is a sequence of options;
`FileAssumption` that the rows of a page of the file lie one behind the other above the slots;
`QueriesAssumption` that a statement is one the grammar delivers (the condition is one condition, no operator
without its operands; a limit is a number) and that a table with a readable definition has columns;
`ConnectionAssumption` that a page with rows of a query is not what `Stray` stands for.

| Module | Theorem | States | Why it is inductive |
|---|---|---|---|
| `FastScanProofs` | `TypeCorrect` | `TypeOK` | needs where the producer stands in the table (`ProducerInv`), that a worker past its receive holds a task (`WorkerInv`), and that a batch read was enqueued (`ConsumerInv`) |
| `FastScanProofs` | `InOrderDelivery` | `DeliveryOrder` | goroutine k passes its first wait only after goroutine k-1 is done, so those that handed over are an initial segment, as long as what was received and what waits together (`ChainInv`) |
| `FastScanProofs` | `SoleOwnerHolds` | `SoleOwner` | the pending batches, those in the pool and the one being filled differ and are allocated (`OwnerInv`); which are pending changes only where a batch is enqueued or released (`PendingStep`) |
| `FastScanProofs` | `SlotsAccountedHolds` | `SlotsAccounted` | the balance of tokens (`SlotsBalance`), and that a batch is allocated only when the pool is empty, so that every one allocated is in flight (`SlotsInv`) |
| `FastScanProofs` | `DeliveredProcessedHolds` | `DeliveredProcessed` | `remaining` counts the tasks in the channel, at workers and announced (`CountInv`); a batch is ready only when nothing remains (`ReadyInv`); what a worker has read of it stays true until the batch is recycled (`SignalInv`); each slot in use was written or will be (`RowsInv`) |
| `FastScanProofs` | `ScanImplemented` | `ImplementsScan` | a slot counts with what its task will leave in it (`Value`): the contents of the slots unread, and behind them the rows not dispatched, are the rest of the table in its order, none missing (`ScanInv`); see below |
| `FileCacheProofs` | `FreshBytes` | `NeverOlder` | versions only grow: an entry is not older than its key, nor a file than what was seen of it (`Monotone`) |
| `FileCacheProofs` | `OneLoader` | `SingleFlight` | a registered key has a loader and a loader has its key registered (`LoadingHasLoader`) |
| `FileCacheProofs` | `NoLostWakeup` | `WaitersHaveLoader` | a waiter waits for a registered key (`WaitsForLoading`) |
| `FileCacheProofs` | `BudgetKept` | `WithinBudget` | what an entry adds to or takes from the counter is at least what it does to the sum of the sizes (`SetEntryBytes`, `DeleteEntryBytes`) |
| `SchemaCacheProofs` | `CachedOfKeyAlways` | `CachedOfKey` | a handle past its load has bytes, catalog and definition that were read under its key (`HandleOK`) |
| `SchemaCacheProofs` | `OwnSchemaAlways` | `OwnSchema` | the same, and the table was looked up in the catalog the handle still has |
| `PageScanProofs` | `TypeCorrect` | `TypeOK` | the pages accepted were read, so they are in the file |
| `PageScanProofs` | `VisitsInOrder` | `VisitsAscend` | a hit of `mapFindNext` lies after the page it started from (`FindNextAhead`), and the position never goes back |
| `PageScanProofs` | `NothingLeftOut` | `NothingMissed` | a search starts from page 0 or from a page listed, and from there the map leaves out no page up to its hit (`FindNextSkipsNone`), so that all pages of the table up to the position are visited (`WalkInv`) |
| `PageScanProofs` | `ScanInOrder` | `ImplementsScan` | the row returned last is passed and no selected row behind it is (`RowInv`) |
| `OperatorProofs` | `LikeAdvances` | each round of the matcher stays in bounds and goes forward | the text of the last % only grows, and else the position in the pattern does (`Later`); since the last % as much was read of the text as of the pattern (`LoopStates`) |
| `OperatorProofs` | `LikeCorrect` | `LikeCmp` is `Like`, for every text without % and every pattern | a state wins when the rest of the text can be cut along the rest of the pattern, or can once the last % has more text (`Wins`); every round keeps that (`WinsNext`), because more text for the last % puts what was read behind it further on (`AgainAfter`); see below |
| `ConnectionProofs` | `ExclusiveUse`, `ReleasedOnClose`, `ProducersStopped` | `PlanExclusive`, `InUseWhileOpen`, `NoStrayProducer` | an SQL object is owned by the `Rows` that executed it until they are closed, and is a plan only then (`Ownership`) |
| `ConnectionProofs` | `PlansAsFresh` | `ReuseAsFresh` | `Rows` that have run alone are the only ones open, and the rows they delivered stand where they should in the result (`FreshInv`); see below |
| `CStoreProofs` | `HandlesAlwaysCounted` | `HandlesCounted` | the handles that share a file are a finite set, and open, clone and close add or take one element of it (`OneMore`, `OneLess`) |
| `CStoreProofs` | `ReadsAlwaysFresh` | `ReadsFresh` | the pages behind the header are those of the file, deciphered (`Stored`), an open stream has the version and the key of its header (`Known`), and a stream open for writing is the only one of its file (`OneWriter`); see below |
| `CStoreProofs` | `TempPagesSound` | `TempSound` | a row goes on a page only with room for itself and its slot, so that the free space stated stays the space there is |
| `CStoreProofs` | `RowsAlwaysKept` | `RowsKept` | what is meant of a page has a row for each of its rows, of its size (`Kept`); a temporary table grows at its last page only, so that the concatenation of its pages grows at its end (`TempInv`) |
| `CStoreProofs` | `OptionsAlwaysAsked` | `OptionsAsked` | a separator is cut only by a thread that has passed it, and a thread that has loaded is at the end or at a cut (`OptionsInv`), so the thread that is farthest (`OneFarthest`) is at the end |
| `CQueryProofs` | `QueryParsed` | `ParseInv`, on which the next four rest | what is still to do is the end of what the statement is parsed into; a query has a table only when nothing is left to do |
| `CQueryProofs` | `QueryTreesLive` | `TreesLive` | the nodes allocated and not freed are trees (`Forest`: a node has at most one parent, and children allocated before it), the stack holds different roots, and the condition of the table is another one (`TreesInv`) |
| `CQueryProofs` | `QueryReleased` | `Released` | what is held is the handle and the table the query has, and else only the definitions the property names (`HoldInv`) |
| `CQueryProofs` | `QueryAnswers` | `OpenAnswers` | what the object holds behind k reductions without an error: columns and table so far, the limit read last, a node on the stack for each operand open (`Progress`); an error means a statement that cannot be answered (`AnswerInv`) |
| `CQueryProofs` | `QueryTreeAsAsked` | `TreeAsAsked` | one tree stands for all items read, but that a comparison read last waits above it (`Shape`); see below |

Each proof has the same shape: a lemma that `Init` implies the invariant, one that every action
keeps it (a step for each action), and a theorem that combines them with `PTL`.

The refinement of `FastScan` is the longest of them. The order of the rows is fixed when the
producer sends a task; workers write it down later and in any order. So the invariant speaks of the
*content* of a row slot: what a task that covers the slot will leave in it, or what is in it when no
task does. A slot is covered by one task at most (`RoomInv`), so a worker that processes its task
changes no content (`ValueKept`, `ContentKept`); `PutTask` settles the contents of new slots, behind all others
(`PutTaskOrder`); `ScanRow` takes the first slot, whose tasks are all processed (`ReadContent`), so that
what the caller gets is the first row of the rest (`FirstOfRest`). The batch of `enqueueEOF` is the last
one and is enqueued when everything was dispatched (`PlaceInv`), so at the end nothing is left
(`NothingLeft`). All of it holds until a worker signals a recycled batch, which is the finding of section 3.

`PlansAsFresh` is about SQL objects that are used again, wherever they were left. Its invariant says
where the rows delivered stand in the result of the query (`Standing`): a scan has delivered
the rows up to its position, whose page is the one in the buffer of the handle; a materialized result, as
many as its count says; a fast scan, those its producer has handed on but for the ones that are ready, up to the page
it took last. So one call of `FetchRow` finds the row behind the position, or the end (`FetchesAre`),
because nothing else reads into the buffer (`Alone`); a plan keeps the sorted rows of its query
(`PlansKept`), and what `Execute` leaves of an older use is nothing but them (`StartFresh`). Without the
reset of the row count that step fails, as the run shows for `RewindPosition`.

`ReadsAlwaysFresh` rests on the cipher. RC4 adds to each byte, by exclusive or, one that depends on the key
and the place only (`RC4Stream`, by induction over the rounds of its fold), and exclusive or with the same
byte undoes itself, bit by bit (`XorTwice`); so what was enciphered twice is as it was
(`CipherTwice`). A page that is written changes no byte of another page (`PagesApart`,
`PageWritten`) nor of the header (`HeaderKept`), so what is read of the others stays as it was last written,
and the buffers of the clones that hold that page are late but for the writer's.

`QueryTreeAsAsked` is the part of the finding `c_stack_order` that does hold. The stack gives back the node that
has waited longest, so the proof has to show that at most two wait: when every comparison but the first is a right
operand, the AND or OR that takes it follows at once, and the tree for all that came before is the only other
node (`Straight`, `Shape`). A NOT takes the oldest node too, which is the right one because it is then alone. That a tree under a node stands
for the items a + 1 to b of the condition (`Matches`) says where the operands of each item lie in the postfix
form (`Operands`), and is kept when nodes are added (`MatchesKept`, `MatchesJoin`) and when `mdb_sql_select`
marks the trees of a table and turns numbers into dates. `TreesLive` is needed first: a tree freed, or joined
into two others, would stand for nothing. The depth of the stack is the depth of the postfix form
(`Depth`, by induction over the items), which is why `mdb_sql_add_and` never finds it empty in a statement
without an error.

`LikeCorrect` compares two recursive functions. `Like` is shown to say that the text can be cut
along the pattern (`LikeIsMatch`, by induction over what is left of the pattern); that there is a function as
`LikeCmp` defines it, by giving one: the states from which a run of the loop accepts (`Accepts`).
A state of which `Wins` does not say what the loop comes to would have a later one of the kind,
and the latest of them none. The property `LikeMatches` of the run is about the tree evaluation of
`Conditions` around this matcher and stays model-checked.

Induction over numbers, functions defined step by step, sums over finite sets, concatenations of sequences
and folds are proved from the least element of a set of numbers (`NatInduct`, `StepsExist`, `SumExists`,
`ConcatExists` in `OperatorProofs`, `FoldExists` in `CStoreProofs`).

Only model-checked:

* liveness (`CloseReturns`, `NextReturns`, `OpenReturns`, `FetchReturns`, `CallsReturn`), which is out of the
  prover's reach;
* `Conditions` and `CReading`, whose parsers and readers are RECURSIVE operators, which the prover cannot use;
* `RowsAsAsked` of `CQuery`, which is about everything at once: it needs, beside the theorems above, where the
  scan of `CScan` stands among the pages of a usage map, and what the tests of `CSargs` answer for each type of
  column.

## 5. Not modelled

* The lexers: `lexer.c` is a table made by flex, and the one of `sql.go` a pure function on strings.
  The tables of `parser.c` are abstracted to the order of its reductions; of `sql.go` only WHERE is
  parsed, and the query texts of `Connection` are names.
* `backend.c` of libmdb writes schemas in the dialects of other databases, for tools that are not part of
  this program. Of `fakeglib.c` the lists and hash tables are modelled as they are used.
* Floating point (LIMIT PERCENT beyond its rounding, columns of type Double beyond halves), the formats of
  `strftime`, and of `iconv` everything but the units it refuses.
* Writing of indexes and allocation of pages in the file: nothing that the driver can call.
* Properties, money, numerics, dates and GUIDs in Go: the code repeats that of the C library, which is
  modelled. `ReadIndices` in Go is called by nothing.
* SIMD kernels: copies of scalar loops. Benchmarks and notes about ODBC are no part of the program.
* Device errors in the middle of a scan of a file too large to be cached, and `FileCacheMaxBytes = 0`.
* Rows that fail to decode in the fast scan: it skips them, while the synchronous scan returns the
  error (`fastscan.go:533`, `data.go:123-126`); both refinements are about files without such rows.
* Context cancellation in `QueryContext` and `Ping`: it is looked at once, before anything happens.

## 6. What could follow

1. `FastScan`: rows that fail to decode.
2. `CQuery`: `RowsAsAsked` proved; nodes that are left on the stack counted.
3. `PageScan`: I/O errors in the middle of a scan.
4. `Connection`: a plan that is replaced while it is in use.
