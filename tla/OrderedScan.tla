----------------------------- MODULE OrderedScan -----------------------------
(***************************************************************************)
(* What a scan promises to the caller of Query.Next, whatever machinery    *)
(* runs behind it: the matching rows of the table, each once and in page   *)
(* order, up to the LIMIT; the end of the result is reported only when     *)
(* nothing is left; after Close nothing is delivered any more.             *)
(*                                                                         *)
(* The promise is the one the synchronous path keeps by construction       *)
(* (SQL.FetchRow over MdbHandle.FetchRow in src/internal/gomdb/sql.go and  *)
(* data.go): one row at a time, page after page.  The concurrent fast      *)
(* scan of module FastScan is checked to implement it.                     *)
(***************************************************************************)
EXTENDS Integers, Sequences

CONSTANTS
    Tables,     \* the tables considered: sequences of pages, a page is the
                \* sequence of its rows, TRUE for a row the query selects
    Limits      \* the LIMITs considered, -1 for a query without one

VARIABLES
    table,      \* the table being scanned
    limit,      \* the LIMIT of the query
    out,        \* the rows returned so far, as <<page number, row number>>
    phase       \* "open", "eof" after the end was reported, "closed"

query == <<table, limit>>
scanVars == <<query, out, phase>>
------------------------------------------------------------------------------
\* The rows of table t that lie strictly after row id (in page order).
After(t, id) ==
    {r \in UNION {{<<p, k>> : k \in 1..Len(t[p])} : p \in 1..Len(t)} :
        r[1] > id[1] \/ (r[1] = id[1] /\ r[2] > id[2])}

\* The rows of t after id that the query selects.
Selected(t, id) == {r \in After(t, id) : t[r[1]][r[2]]}

\* The position before the first row; also the mark of an empty row slot.
NoRow == <<0, 0>>

LastOf(rows) == IF rows = <<>> THEN NoRow ELSE rows[Len(rows)]

LimitReached == limit >= 0 /\ Len(out) >= limit
------------------------------------------------------------------------------
Init ==
    /\ table \in Tables /\ limit \in Limits
    /\ out = <<>>
    /\ phase = "open"

\* Next returns the first selected row that follows the last one returned.
Return ==
    /\ phase = "open"
    /\ ~LimitReached
    /\ \E r \in Selected(table, LastOf(out)) :
        /\ Selected(table, LastOf(out)) \cap After(table, r)
            = Selected(table, LastOf(out)) \ {r}
        /\ out' = Append(out, r)
    /\ UNCHANGED <<query, phase>>

\* Next reports the end, when every row was returned or the limit is reached.
ReportEnd ==
    /\ phase = "open"
    /\ LimitReached \/ Selected(table, LastOf(out)) = {}
    /\ phase' = "eof"
    /\ UNCHANGED <<query, out>>

\* Close may be called at any time.
CloseScan ==
    /\ phase # "closed"
    /\ phase' = "closed"
    /\ UNCHANGED <<query, out>>

Next == Return \/ ReportEnd \/ CloseScan

Spec == Init /\ [][Next]_scanVars
==============================================================================
