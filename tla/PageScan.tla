------------------------------ MODULE PageScan ------------------------------
(***************************************************************************)
(* The synchronous scan of a table: SQL.FetchRow (sql.go) over             *)
(* MdbHandle.FetchRow (data.go), which walks the data pages with           *)
(* ReadNextDpg (map.go).                                                   *)
(*                                                                         *)
(* ReadNextDpg follows the usage map of the table and falls back to reading *)
(* the file page by page when the map leads nowhere.  Files, damaged ones  *)
(* too, are given by what the scan can tell apart: the map, which pages are *)
(* data pages of the table, and what becomes of each row.                  *)
(*                                                                         *)
(* One goroutine uses the handle.  An action is one round of a loop of the *)
(* code.  The caller is database/sql: it asks for no row after the end or  *)
(* an error.                                                               *)
(***************************************************************************)
EXTENDS UsageMap

CONSTANTS
    NPages,     \* the pages of the file are 0..NPages-1
    Files,      \* the files considered
    Limits      \* the LIMITs considered, -1 for a query without one

\* A file: the usage map of the table, its data pages, whether its definition
\* claims that it has rows, and the rows of each page.  A row is "selected",
\* "skipped" (deleted, unreadable or rejected) or "broken" (CrackRow fails).
File == [map : Map, own : SUBSET (1..NPages - 1), counted : BOOLEAN,
         rows : [1..NPages - 1 -> Seq({"selected", "skipped", "broken"})]]

ASSUME PageScanAssumption ==
    /\ NPages \in Nat \ {0}
    /\ Files \subseteq File
    /\ Limits \subseteq Nat \cup {-1}

VARIABLES
    file,       \* the file
    limit,      \* sql.Limit
    curPg,      \* mdb.curPg: the page in mdb.pgBuf
    curPgNum,   \* table.CurPgNum: 1 once the scan has begun
    curPhysPg,  \* table.CurPhysPg
    curRow,     \* table.CurRow
    pc,         \* where FetchRow stands
    after,      \* where it goes on when ReadNextDpg has found a page
    mapBroken,  \* the variable of ReadNextDpg
    phase,      \* what the caller knows
    out,        \* the rows returned, as <<page, row>>
    visited     \* history: the data pages that ReadNextDpg returned

query == <<file, limit>>
tableVars == <<curPgNum, curPhysPg, curRow>>
vars == <<query, curPg, tableVars, pc, after, mapBroken, phase, out, visited>>

\* readPage succeeds.
InFile(p) == p \in 1..NPages - 1

RowsOf(p) == IF InFile(p) THEN file.rows[p] ELSE <<>>

\* ReadNextDpg is called and goes to l when it succeeds.
CallReadNextDpg(l) ==
    /\ pc' = "map"
    /\ after' = l
    /\ mapBroken' = FALSE
------------------------------------------------------------------------------
(* MdbHandle.FetchRow *)

\* FetchRow is called; for the first row it reads the first data page.
FetchRow ==
    /\ pc = "idle" /\ phase = "open"
    /\ IF curPgNum = 0
       THEN curPgNum' = 1 /\ curRow' = 0 /\ CallReadNextDpg("page")
       ELSE pc' = "page" /\ UNCHANGED <<curPgNum, curRow, after, mapBroken>>
    /\ UNCHANGED <<query, curPg, curPhysPg, phase, out, visited>>

\* Fault: the page counts as used up one row early.
UsedUpEarly == curRow + 1 >= Len(RowsOf(curPg))

\* All rows of the current page were read.
UsedUp == curRow >= Len(RowsOf(curPg))

CheckPage ==
    /\ pc = "page"
    /\ IF UsedUp
       THEN curRow' = 0 /\ CallReadNextDpg("row")
       ELSE pc' = "row" /\ UNCHANGED <<curRow, after, mapBroken>>
    /\ UNCHANGED <<query, curPg, curPgNum, curPhysPg, phase, out, visited>>

\* What ReadRow makes of row curRow.  It does not compare it with the number of
\* rows of the page, which is 0 if ReadNextDpg has just found an empty page: then
\* it reads the row from whatever bytes are there.
Outcomes ==
    IF curRow < Len(RowsOf(curPg)) THEN {RowsOf(curPg)[curRow + 1]}
    ELSE {"selected", "skipped", "broken"}

\* SQL.FetchRow: one more row would exceed the limit.
LimitReached == limit >= 0 /\ Len(out) + 1 > limit

\* ReadRow, and what the two FetchRows do with the result.
ReadRow ==
    /\ pc = "row"
    /\ curRow' = curRow + 1
    /\ \E r \in Outcomes :
        \/ /\ r = "skipped"
           /\ pc' = "page"
           /\ UNCHANGED <<phase, out>>
        \/ /\ r = "broken"
           /\ pc' = "idle"
           /\ phase' = "failed"
           /\ UNCHANGED out
        \/ /\ r = "selected"
           /\ pc' = "idle"
           /\ IF LimitReached
              THEN phase' = "eof" /\ UNCHANGED out
              ELSE out' = Append(out, <<curPg, curRow + 1>>) /\ UNCHANGED phase
    /\ UNCHANGED <<query, curPg, curPgNum, curPhysPg, after, mapBroken, visited>>
------------------------------------------------------------------------------
(* ReadNextDpg *)

\* The page was read and is a data page of the table, or it was read and is not.
Found(p) ==
    /\ curPg' = p
    /\ curPhysPg' = p
    /\ visited' = Append(visited, p)
    /\ pc' = after
    /\ UNCHANGED phase

\* Fault: the position is kept when the page is not accepted.
ForeignStays(p) ==
    /\ curPg' = p
    /\ UNCHANGED <<curPhysPg, visited, phase>>

Foreign(p) ==
    /\ curPg' = p
    /\ curPhysPg' = p
    /\ UNCHANGED <<visited, phase>>

\* errNoMorePages: FetchRow reports the end.
NoMorePages ==
    /\ pc' = "idle"
    /\ phase' = "eof"
    /\ UNCHANGED <<curPg, visited>>

\* Fault: the compatibility scan begins at the first page.
BruteForceRestarts == pc' = "brute" /\ curPhysPg' = 0 /\ UNCHANGED <<curPg, visited, phase>>

\* The compatibility scan begins, from the page the map has led to.
BruteForce == pc' = "brute" /\ UNCHANGED <<curPg, curPhysPg, visited, phase>>

\* A table that has rows, and a map that lists nothing at all.
MapIncomplete == curPhysPg = 0 /\ file.counted

\* One round of the loop over the usage map.
FollowMap ==
    /\ pc = "map"
    /\ \E p \in FindNext(file.map, curPhysPg) :
        \/ /\ p \in {0, curPhysPg}
           /\ mapBroken \/ (p = 0 /\ MapIncomplete)
           /\ BruteForce /\ mapBroken' = TRUE
        \/ /\ p \in {0, curPhysPg}
           /\ ~mapBroken /\ ~(p = 0 /\ MapIncomplete)
           /\ NoMorePages /\ UNCHANGED <<curPhysPg, mapBroken>>
        \/ /\ p \notin {0, curPhysPg} /\ ~InFile(p)
           /\ BruteForce /\ mapBroken' = TRUE
        \/ /\ p \notin {0, curPhysPg} /\ InFile(p) /\ p \in file.own
           /\ Found(p) /\ UNCHANGED mapBroken
        \/ /\ p \notin {0, curPhysPg} /\ InFile(p) /\ p \notin file.own
           /\ Foreign(p) /\ mapBroken' = TRUE /\ UNCHANGED pc
    /\ UNCHANGED <<query, curPgNum, curRow, after, out>>

\* One round of the compatibility scan.
ScanFile ==
    /\ pc = "brute"
    /\ LET p == curPhysPg + 1 IN
        \/ /\ InFile(p) /\ p \in file.own
           /\ Found(p)
        \/ /\ InFile(p) /\ p \notin file.own
           /\ Foreign(p) /\ UNCHANGED pc
        \/ /\ ~InFile(p)
           /\ NoMorePages /\ curPhysPg' = p
    /\ UNCHANGED <<query, curPgNum, curRow, after, mapBroken, out>>

\* The caller closes the query.
Close ==
    /\ pc = "idle" /\ phase # "closed"
    /\ phase' = "closed"
    /\ UNCHANGED <<query, curPg, tableVars, pc, after, mapBroken, out, visited>>

\* MdbHandle.FetchRow goes on.
Advance == CheckPage \/ ReadRow \/ FollowMap \/ ScanFile
------------------------------------------------------------------------------
\* RewindTable was called.
Init ==
    /\ file \in Files /\ limit \in Limits
    /\ curPg = 0
    /\ curPgNum = 0 /\ curPhysPg = 0 /\ curRow = 0
    /\ pc = "idle" /\ after = "page" /\ mapBroken = FALSE
    /\ phase = "open"
    /\ out = <<>> /\ visited = <<>>

Next == FetchRow \/ Advance \/ Close

Spec == Init /\ [][Next]_vars

(* A call that was made goes on; the caller need not make another.           *)
FairSpec == Spec /\ WF_vars(Advance)
------------------------------------------------------------------------------
(* Properties *)

\* The types of the variables.
TypeOK ==
    /\ file \in Files /\ limit \in Limits
    /\ curPg \in 0..NPages - 1
    /\ curPgNum \in {0, 1} /\ curPhysPg \in Nat /\ curRow \in Nat
    /\ pc \in {"idle", "page", "row", "map", "brute"}
    /\ after \in {"page", "row"}
    /\ mapBroken \in BOOLEAN
    /\ phase \in {"open", "eof", "failed", "closed"}
    /\ out \in Seq((0..NPages - 1) \X (Nat \ {0}))
    /\ visited \in Seq(1..NPages - 1)

\* Whatever the map lists, however it is damaged, and however the map and the
\* compatibility scan take turns: the pages visited are data pages of the table,
\* each once and in ascending order.
VisitsAscend ==
    /\ \A i \in 1..Len(visited) : visited[i] \in file.own /\ visited[i] <= curPhysPg
    /\ \A i, j \in 1..Len(visited) : i < j => visited[i] < visited[j]

Elements(s) == {s[i] : i \in 1..Len(s)}

\* The map lists every page of the table, whatever else it lists: pages of other
\* tables, or pages beyond the end of the file.
MapComplete == file.own \subseteq Listed(file.map)

\* mapFindNext1 goes past the first map pages, which are missing, with the offset it
\* computed for them (map.go:113-116).
SkipsFirstBit == file.map.type = "paged" /\ file.map.maps[1] = NoMapPage

\* Then no page of the table is left out when the scan reports its end.
NothingMissed ==
    (phase = "eof" /\ MapComplete /\ ~SkipsFirstBit /\ limit = -1)
        => Elements(visited) = file.own

\* A call of FetchRow returns: the map and the compatibility scan never send it in a
\* circle.
FetchReturns == pc # "idle" ~> pc = "idle"

\* A file whose map is complete, without empty pages and broken rows.
Intact ==
    /\ MapComplete /\ ~SkipsFirstBit
    /\ \A p \in file.own : /\ file.rows[p] # <<>>
                           /\ "broken" \notin Elements(file.rows[p])

\* The pages of the table as the ordered scan takes them.
Pages == [p \in 1..NPages - 1 |->
            IF p \in file.own
            THEN [k \in 1..Len(file.rows[p]) |-> file.rows[p][k] = "selected"]
            ELSE <<>>]

\* For such a file the scan is the ordered scan that the fast path implements too.
Scan == INSTANCE OrderedScan WITH Tables <- {}, table <- Pages
ImplementsScan == [][Intact => Scan!Next]_(Scan!scanVars)
==============================================================================
