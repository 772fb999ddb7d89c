----------------------------- MODULE Connection -----------------------------
(***************************************************************************)
(* A connection of the database/sql driver (driver/gomdb/gomdb.go) with its *)
(* one MdbHandle, its queries (puredb.go) and its cache of executed queries *)
(* that are kept as plans (plan.go).                                       *)
(*                                                                         *)
(* database/sql serialises the calls made on a connection, but a sql.Conn  *)
(* may have several Rows open at a time, and every query that runs uses    *)
(* the page buffer of the handle.  Only the producer of a fast scan (module *)
(* FastScan, reduced here to reading a page and taking it) runs beside the *)
(* calls.                                                                  *)
(*                                                                         *)
(* An SQL object has the number of the call that executed it afresh; a plan *)
(* and the SQL object that it holds are one.                               *)
(***************************************************************************)
EXTENDS Integers, Sequences, FiniteSets, SequencesExt

CONSTANTS
    Queries,    \* the query texts
    Kind,       \* what a query runs as: "scan", "fast", "sorted" or "temp"
    Pages,      \* the matching rows on each page of its table
    Limit,      \* its LIMIT, or -1
    Stray,      \* in the buffer: no data page of a query, but a definition page,
                \* a row of a snapshot or what two racing reads leave there
    MaxOpens,   \* bound: the Rows opened in a run
    MaxBeside,  \* bound: the Rows open at a time
    MaxPlans    \* maxCachedPlans

ASSUME ConnectionAssumption ==
    /\ Kind \in [Queries -> {"scan", "fast", "sorted", "temp"}]
    /\ Pages \in [Queries -> Seq(Nat \ {0})]
    /\ \A q \in Queries : Pages[q] # <<>>
    /\ Limit \in [Queries -> Nat \cup {-1}]
    /\ MaxOpens \in Nat \ {0} /\ MaxPlans \in Nat \ {0}
    /\ Stray \notin Queries \X Nat

Opens == 1..MaxOpens

VARIABLES
    handle,     \* c.mdb: "none" before the first use, "open", "closed"
    plans,      \* c.plans: the SQL object kept for a query
    buf,        \* mdb.pgBuf: a page <<query, number>>, or Stray
    state,      \* of each Rows: "none", "opening", "open" or "closed"
    sqlOf,      \* of each Rows: its SQL object
    hit,        \* of each Rows: r.plan # nil
    query,      \* of each SQL object: its text
    page,       \* ... table.CurPhysPg, counted in pages of the table
    row,        \* ... table.CurRow
    count,      \* ... sql.RowCount
    snapshot,   \* ... sql.SortedRows, or the rows of a temporary table
    producer,   \* ... its fast scan: "off", "read", "take" or "done"
    batches,    \* ... the rows the fast scan has ready
    inUse,      \* ... as a plan: p.inUse
    out, ended, \* of each open Rows: the rows delivered, whether the end was reported
    disturbed   \* history: the SQL objects that ran beside another one

connVars == <<handle, plans>>
rowsVars == <<state, sqlOf, hit, out, ended>>
cursor == <<page, row, count>>
scanVars == <<producer, batches>>
sqlVars == <<query, cursor, snapshot, scanVars, inUse>>
vars == <<connVars, buf, rowsVars, sqlVars, disturbed>>

OpenRows == {r \in Opens : state[r] \in {"opening", "open"}}
InUseBy(s) == {r \in OpenRows : sqlOf[r] = s}

\* The connection is free for the next call: no QueryContext is at work.
Idle == \A r \in Opens : state[r] # "opening"

\* The Rows that opens next.
NewRows(r) ==
    /\ state[r] = "none" /\ \A r2 \in 1..(r - 1) : state[r2] # "none"
    /\ Cardinality(OpenRows) < MaxBeside

\* Rows over s are open beside the ones open already.
DisturbedBy(s) ==
    disturbed' = IF OpenRows = {} THEN disturbed
                 ELSE disturbed \cup {s} \cup {sqlOf[r] : r \in OpenRows}

Forget(q) == [x \in DOMAIN plans \ {q} |-> plans[x]]
------------------------------------------------------------------------------
(* The rows of a query *)

\* What is found where no row of the query is.
Junk == <<Stray, 0>>

AllRows(q) ==
    FlattenSeq([p \in 1..Len(Pages[q]) |-> [k \in 1..Pages[q][p] |-> <<<<q, p>>, k>>]])

\* One order stands for the ones that ORDER BY can ask for.
Sorted(rows) == Reverse(rows)

\* What a fresh execution on a handle of its own returns.
Expected(q) ==
    LET rows == IF Kind[q] = "sorted" THEN Sorted(AllRows(q)) ELSE AllRows(q)
    IN  IF Limit[q] = -1 THEN rows ELSE SubSeq(rows, 1, Min({Limit[q], Len(rows)}))
------------------------------------------------------------------------------
(* MdbHandle.FetchRow on a table *)

\* The buffer as a call finds it that read b: the producer of another fast scan
\* may have read a page meanwhile.
BufferSeen(s, b) ==
    {b} \cup (IF \E t \in Opens \ {s} : producer[t] \in {"read", "take"} THEN {Stray} ELSE {})

\* The row count of the page in the buffer; any number stands in a stray one.
RowCounts(b) == IF b = Stray THEN 0..2 ELSE {Pages[b[1]][b[2]]}

\* Row k of the page in the buffer, read as page p of the table of s.
RowAt(s, p, b, k) == IF b = <<query[s], p>> THEN <<b, k>> ELSE Junk

LastPage(s, p) == p = Len(Pages[query[s]])

\* FetchRow for SQL object s: the new position, the buffer and the row found, or <<>>.
\* It reads a page only when the rows of the last one are used up, and takes the page
\* in the buffer for its own.
Fetches(s) ==
    LET q == query[s]
        p == IF page[s] = 0 THEN 1 ELSE page[s]
        start == IF page[s] = 0 THEN <<q, 1>> ELSE buf
        here == {[page |-> p, row |-> row[s] + 1, buf |-> b, got |-> RowAt(s, p, b, row[s] + 1)] :
                    b \in {b \in BufferSeen(s, start) : \E n \in RowCounts(b) : row[s] < n}}
        over == {b \in BufferSeen(s, start) : \E n \in RowCounts(b) : row[s] >= n}
    IN  here \cup
        (IF over = {} THEN {}
         ELSE IF LastPage(s, p)
         THEN {[page |-> p, row |-> 0, buf |-> b, got |-> <<>>] : b \in over}
         ELSE {[page |-> p + 1, row |-> 1, buf |-> b, got |-> RowAt(s, p + 1, b, 1)] :
                    b \in BufferSeen(s, <<q, p + 1>>)})

Fetched(s, f) ==
    /\ page' = [page EXCEPT ![s] = f.page]
    /\ row' = [row EXCEPT ![s] = f.row]
    /\ buf' = f.buf
------------------------------------------------------------------------------
(* Conn *)

\* Fault: the plan is executed again while it is in use.
AnyPlan(q) == q \in DOMAIN plans

\* openQuery finds a plan that Execute accepts.
PlanReady(q) == q \in DOMAIN plans /\ ~inUse[plans[q]]

\* Fault: the count of rows stays.
RewindPosition(s) ==
    /\ page' = [page EXCEPT ![s] = 0]
    /\ row' = [row EXCEPT ![s] = 0]
    /\ UNCHANGED count

\* The position of an SQL object before its first row.
Rewind(s) ==
    /\ page' = [page EXCEPT ![s] = 0]
    /\ row' = [row EXCEPT ![s] = 0]
    /\ count' = [count EXCEPT ![s] = 0]

\* canFastScan and newFastScan.
StartScan(s, q) ==
    /\ producer' = [producer EXCEPT ![s] = IF Kind[q] = "fast" THEN "read" ELSE "off"]
    /\ batches' = [batches EXCEPT ![s] = <<>>]

\* QueryContext, with a plan of the cache (Plan.Execute).
Execute(r, q) ==
    /\ NewRows(r) /\ Idle /\ handle # "closed"
    /\ PlanReady(q)
    /\ LET s == plans[q] IN
        /\ inUse' = [inUse EXCEPT ![s] = TRUE]
        /\ Rewind(s) /\ StartScan(s, q) /\ DisturbedBy(s)
        /\ sqlOf' = [sqlOf EXCEPT ![r] = s]
        /\ hit' = [hit EXCEPT ![r] = TRUE]
    /\ state' = [state EXCEPT ![r] = "open"]
    /\ UNCHANGED <<connVars, buf, query, snapshot, out, ended>>

\* QueryContext, afresh (OpenQueryOnHandle).  The catalog and the definition of
\* the table may be read into the buffer.  ORDER BY materializes the result next.
OpenAfresh(r, q) ==
    /\ NewRows(r) /\ Idle /\ handle # "closed"
    /\ ~PlanReady(q)
    /\ handle' = "open"
    /\ plans' = Forget(q)
    /\ buf' \in {buf, Stray}
    /\ query' = [query EXCEPT ![r] = q]
    /\ Rewind(r) /\ StartScan(r, q) /\ DisturbedBy(r)
    /\ snapshot' = [snapshot EXCEPT ![r] = IF Kind[q] = "temp" THEN AllRows(q) ELSE <<>>]
    /\ sqlOf' = [sqlOf EXCEPT ![r] = r]
    /\ state' = [state EXCEPT ![r] = IF Kind[q] = "sorted" THEN "opening" ELSE "open"]
    /\ UNCHANGED <<hit, inUse, out, ended>>

\* QueryContext fails after it has dropped a plan that is in use.
OpenFails(r, q) ==
    /\ NewRows(r) /\ Idle /\ handle # "closed"
    /\ ~PlanReady(q)
    /\ handle' = "open"
    /\ plans' = Forget(q)
    /\ buf' \in {buf, Stray}
    /\ state' = [state EXCEPT ![r] = "closed"]
    /\ disturbed' = disturbed \cup {sqlOf[o] : o \in OpenRows}
    /\ UNCHANGED <<sqlOf, hit, out, ended, sqlVars>>

\* One round of materializeOrderBy.
Materialize(r) ==
    /\ state[r] = "opening"
    /\ \E f \in Fetches(r) :
        /\ Fetched(r, f)
        /\ IF f.got = <<>>
           THEN /\ snapshot' = [snapshot EXCEPT ![r] = Sorted(snapshot[r])]
                /\ state' = [state EXCEPT ![r] = "open"]
           ELSE /\ snapshot' = [snapshot EXCEPT ![r] = Append(@, f.got)]
                /\ UNCHANGED state
    /\ UNCHANGED <<connVars, sqlOf, hit, out, ended, query, count, scanVars, inUse, disturbed>>

\* Ping: LIST TABLES is executed and closed.  It reads the catalog of a new handle.
Ping ==
    /\ Idle /\ handle # "closed"
    /\ handle' = "open"
    /\ buf' = IF handle = "open" THEN buf ELSE Stray
    /\ UNCHANGED <<plans, rowsVars, sqlVars, disturbed>>

\* Conn.Close.  database/sql waits for the Rows.
CloseConn ==
    /\ handle # "closed" /\ OpenRows = {}
    /\ handle' = "closed"
    /\ plans' = [q \in {} |-> 0]
    /\ UNCHANGED <<buf, rowsVars, sqlVars, disturbed>>
------------------------------------------------------------------------------
(* Rows *)

Calls(r) == state[r] = "open" /\ ~ended[r] /\ Idle

LimitReached(s) == Limit[query[s]] >= 0 /\ count[s] + 1 > Limit[query[s]]

Deliver(r, x) ==
    /\ out' = [out EXCEPT ![r] = Append(@, x)]
    /\ count' = [count EXCEPT ![sqlOf[r]] = @ + 1]
    /\ UNCHANGED ended
ReportEnd(r) ==
    /\ ended' = [ended EXCEPT ![r] = TRUE]
    /\ UNCHANGED <<out, count>>

\* Next for a table scan that is not fast (SQL.FetchRow).
NextScanned(r) ==
    /\ Calls(r) /\ Kind[query[sqlOf[r]]] = "scan"
    /\ \E f \in Fetches(sqlOf[r]) :
        /\ Fetched(sqlOf[r], f)
        /\ IF f.got = <<>> \/ LimitReached(sqlOf[r]) THEN ReportEnd(r) ELSE Deliver(r, f.got)
    /\ UNCHANGED <<connVars, state, sqlOf, hit, query, snapshot, scanVars, inUse, disturbed>>

\* Next for a result that was materialized: its cursor is the count of rows.  The row
\* is put into the buffer.
NextMaterialized(r) ==
    LET s == sqlOf[r] IN
    /\ Calls(r) /\ Kind[query[s]] \in {"sorted", "temp"}
    /\ IF LimitReached(s) \/ count[s] >= Len(snapshot[s])
       THEN ReportEnd(r) /\ UNCHANGED buf
       ELSE Deliver(r, snapshot[s][count[s] + 1]) /\ buf' = Stray
    /\ UNCHANGED <<connVars, state, sqlOf, hit, query, page, row, snapshot, scanVars, inUse,
                   disturbed>>

\* Next for a fast scan (fastScan.nextRow): it waits for a row or the end.
NextFast(r) ==
    LET s == sqlOf[r] IN
    /\ Calls(r) /\ Kind[query[s]] = "fast"
    /\ batches[s] # <<>> \/ producer[s] = "done"
    /\ IF batches[s] = <<>> \/ LimitReached(s) THEN ReportEnd(r) ELSE Deliver(r, Head(batches[s]))
    /\ batches' = [batches EXCEPT ![s] = IF @ = <<>> THEN @ ELSE Tail(@)]
    /\ UNCHANGED <<connVars, buf, state, sqlOf, hit, query, page, row, snapshot, producer, inUse,
                   disturbed>>

\* cachePlan: all plans go when there are too many.
CachePlan(q, s) ==
    plans' = [x \in (IF Cardinality(DOMAIN plans) >= MaxPlans THEN {} ELSE DOMAIN plans) \cup {q}
                |-> IF x = q THEN s ELSE plans[x]]

\* Fault: the fast scan goes on.
LeaveScan(s) == UNCHANGED scanVars

\* fastScan.close: the producer and its workers have ended when it returns.
StopScan(s) ==
    /\ producer' = [producer EXCEPT ![s] = "off"]
    /\ batches' = [batches EXCEPT ![s] = <<>>]

\* Fault: the plan is not released.
ReleaseForgotten(s) == UNCHANGED inUse

Release(s) == inUse' = [inUse EXCEPT ![s] = FALSE]

\* Rows.Close: a query executed afresh becomes a plan (CapturePlan), unless it is a
\* temporary table; then Query.Close.  What the closed Rows had is forgotten.
Close(r) ==
    LET s == sqlOf[r] IN
    /\ state[r] = "open" /\ Idle
    /\ state' = [state EXCEPT ![r] = "closed"]
    /\ StopScan(s)
    /\ Release(s)
    /\ IF ~hit[r] /\ Kind[query[s]] # "temp" THEN CachePlan(query[s], s) ELSE UNCHANGED plans
    /\ sqlOf' = [sqlOf EXCEPT ![r] = r]
    /\ hit' = [hit EXCEPT ![r] = FALSE]
    /\ out' = [out EXCEPT ![r] = <<>>]
    /\ ended' = [ended EXCEPT ![r] = FALSE]
    /\ UNCHANGED <<handle, buf, query, cursor, snapshot, disturbed>>
------------------------------------------------------------------------------
(* The producer of a fast scan *)

\* It reads the next page into the buffer of the handle ...
ProducerRead(s) ==
    /\ producer[s] = "read"
    /\ IF LastPage(s, page[s])
       THEN producer' = [producer EXCEPT ![s] = "done"] /\ UNCHANGED <<page, buf>>
       ELSE /\ producer' = [producer EXCEPT ![s] = "take"]
            /\ page' = [page EXCEPT ![s] = @ + 1]
            /\ buf' = <<query[s], page'[s]>>
    /\ UNCHANGED <<connVars, rowsVars, query, row, count, snapshot, batches, inUse, disturbed>>

\* ... and hands the rows of the page in the buffer on.
ProducerTake(s) ==
    /\ producer[s] = "take"
    /\ producer' = [producer EXCEPT ![s] = "read"]
    /\ \E b \in BufferSeen(s, buf) : \E n \in RowCounts(b) :
        batches' = [batches EXCEPT ![s] = @ \o [k \in 1..n |-> RowAt(s, page[s], b, k)]]
    /\ UNCHANGED <<connVars, buf, rowsVars, query, cursor, snapshot, inUse, disturbed>>
------------------------------------------------------------------------------
Init ==
    /\ handle = "none" /\ plans = [q \in {} |-> 0] /\ buf = Stray
    /\ state = [r \in Opens |-> "none"]
    /\ sqlOf = [r \in Opens |-> r]
    /\ hit = [r \in Opens |-> FALSE]
    /\ query = [s \in Opens |-> CHOOSE q \in Queries : TRUE]
    /\ page = [s \in Opens |-> 0] /\ row = [s \in Opens |-> 0] /\ count = [s \in Opens |-> 0]
    /\ snapshot = [s \in Opens |-> <<>>]
    /\ producer = [s \in Opens |-> "off"] /\ batches = [s \in Opens |-> <<>>]
    /\ inUse = [s \in Opens |-> FALSE]
    /\ out = [r \in Opens |-> <<>>] /\ ended = [r \in Opens |-> FALSE]
    /\ disturbed = {}

QueryContext(r, q) == Execute(r, q) \/ OpenAfresh(r, q) \/ OpenFails(r, q)
NextRow(r) == NextScanned(r) \/ NextMaterialized(r) \/ NextFast(r)
Produce(s) == ProducerRead(s) \/ ProducerTake(s)

Next ==
    \/ \E r \in Opens, q \in Queries : QueryContext(r, q)
    \/ \E r \in Opens : Materialize(r) \/ NextRow(r) \/ Close(r) \/ Produce(r)
    \/ Ping \/ CloseConn

Spec == Init /\ [][Next]_vars
------------------------------------------------------------------------------
(* Properties *)

\* Two open Rows never share an SQL object, whose cursor, conditions and column values
\* they would move under each other (plan.go:5-9).
PlanExclusive == \A r1, r2 \in OpenRows : sqlOf[r1] = sqlOf[r2] => r1 = r2

\* A plan is marked in use exactly as long as open Rows hold it: one that is never released
\* would never be executed again.
InUseWhileOpen ==
    \A s \in Opens : inUse[s] <=> \E r \in InUseBy(s) : hit[r]

\* No producer reads pages for a query that is not open: the next execution of its plan
\* would find the table's position moved.
NoStrayProducer == \A s \in Opens : producer[s] # "off" => InUseBy(s) # {}

OwnRowsOf(r) ==
    LET expected == Expected(query[sqlOf[r]]) IN
    /\ IsPrefix(out[r], expected)
    /\ ended[r] => out[r] = expected

\* Rows over an SQL object that has never run beside another one return what a fresh
\* execution returns, however often the plan was used, and wherever it was left.
ReuseAsFresh ==
    \A r \in OpenRows : sqlOf[r] \notin disturbed => OwnRowsOf(r)

\* "Both drivers are feature-equivalent and produce identical results" (README.md:12):
\* the one of cmdb opens a handle for every query, so that Rows that are open together
\* do not meet.
OwnRows == \A r \in OpenRows : OwnRowsOf(r)
==============================================================================
