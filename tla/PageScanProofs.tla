--------------------------- MODULE PageScanProofs ---------------------------
(***************************************************************************)
(* For every file, every map format and every size: the synchronous scan   *)
(* visits pages of the table only, in ascending order and none twice; with *)
(* a complete map it misses none; and in a file whose map is intact it     *)
(* returns the selected rows in their order, the ordered scan.             *)
(*                                                                         *)
(* The argument is that mapFindNext never goes back: a hit is a page after *)
(* the one it started from.  The types and VisitsAscend are then inductive.*)
(* Nor does it leave out a page of the map on its way to the hit, so that  *)
(* the pages up to the position are visited (WalkInv) and the rows up to   *)
(* the one returned last are passed (RowInv).                              *)
(***************************************************************************)
EXTENDS PageScan, TLAPS

\* The bit at which a map page is searched lies after the page the search starts
\* from.
LEMMA PageHitsAhead ==
    ASSUME NEW m \in PagedMap, NEW start \in Nat,
           NEW k \in Readable(m, start),
           NEW p \in PageHits(m, start, k)
    PROVE  p \in Nat /\ p > start
<1>1. k \in Nat /\ k >= Ind(start) /\ m.maps[k + 1] \in MapPage
    BY DEF Readable, MapPages, PagedMap
<1>2. PICK i \in m.maps[k + 1] : p = k * BitLen + i /\ i >= FirstBit(m, start, k)
    BY DEF PageHits
<1>3. i \in Nat /\ BitLen \in Nat \ {0}
    BY <1>1, <1>2, UsageMapAssumption DEF MapPage
<1>4. /\ Ind(start) \in Nat /\ Off(start) \in 0..BitLen - 1
      /\ start + 1 = Ind(start) * BitLen + Off(start)
    BY <1>3 DEF Ind, Off
<1>5. CASE k = Ind(start)
    <2>1. FirstBit(m, start, k) = Off(start)
        BY <1>1, <1>4, <1>5 DEF FirstBit
    <2> QED  BY <1>2, <1>3, <1>4, <1>5, <2>1
<1>6. CASE k > Ind(start)
    <2>1. k * BitLen >= (Ind(start) + 1) * BitLen
        BY <1>1, <1>3, <1>4, <1>6
    <2>2. (Ind(start) + 1) * BitLen = Ind(start) * BitLen + BitLen
        BY <1>3, <1>4
    <2>3. k * BitLen \in Nat /\ Ind(start) * BitLen \in Nat
        BY <1>1, <1>3, <1>4
    <2> QED  BY <1>2, <1>3, <1>4, <2>1, <2>2, <2>3
<1> QED  BY <1>1, <1>4, <1>5, <1>6

\* mapFindNext returns 0, a negative number or a page after the one it started from.
LEMMA FindNextAhead ==
    ASSUME NEW m \in Map, NEW start \in Nat, NEW p \in FindNext(m, start)
    PROVE  p \in Int /\ (p \in {0, -1} \/ p > start)
<1>1. CASE m \in InlineMap
    <2>1. m.type = "inline" /\ m.base \in Int /\ m.bits \subseteq Nat
        BY <1>1 DEF InlineMap
    <2>2. \A h \in InlineHits(m, start) : h \in Int /\ h > start
        BY <2>1 DEF InlineHits
    <2> QED  BY <2>1, <2>2 DEF FindNext, Least
<1>2. CASE m \in PagedMap
    <2>1. m.type = "paged"
        BY <1>2 DEF PagedMap
    <2>2. \A h \in PagedHits(m, start) : h \in Nat /\ h > start
        BY <1>2, PageHitsAhead DEF PagedHits
    <2> QED  BY <2>1, <2>2 DEF FindNext, Least
<1>3. CASE m \in BrokenMap
    BY <1>3 DEF BrokenMap, FindNext
<1> QED  BY <1>1, <1>2, <1>3 DEF Map

LEMMA AppendType ==
    ASSUME NEW S, NEW s \in Seq(S), NEW e \in S
    PROVE  Append(s, e) \in Seq(S)
OBVIOUS

\* What the steps keep between them: the types but that of mapBroken, and VisitsAscend.
DataOK ==
    /\ file \in Files /\ limit \in Limits
    /\ curPg \in 0..NPages - 1
    /\ curPgNum \in {0, 1} /\ curPhysPg \in Nat /\ curRow \in Nat
    /\ pc \in {"idle", "page", "row", "map", "brute"}
    /\ after \in {"page", "row"}
    /\ phase \in {"open", "eof", "failed", "closed"}
    /\ out \in Seq((0..NPages - 1) \X (Nat \ {0}))
    /\ visited \in Seq(1..NPages - 1)
IInv == DataOK /\ VisitsAscend

\* The file of a state is one of the type File.
LEMMA FileType ==
    ASSUME DataOK
    PROVE  /\ file \in File /\ file.map \in Map /\ NPages \in Nat \ {0}
           /\ limit \in Int /\ file.own \subseteq 1..NPages - 1
BY PageScanAssumption DEF DataOK, File

\* A page after the current one was found.
LEMMA FoundKeeps ==
    ASSUME IInv, NEW p \in Int, p > curPhysPg, InFile(p), p \in file.own, Found(p),
           pc' \in {"idle", "page", "row", "map", "brute"}, UNCHANGED file
    PROVE  /\ curPg' \in 0..NPages - 1 /\ curPhysPg' \in Nat
           /\ phase' \in {"open", "eof", "failed", "closed"}
           /\ visited' \in Seq(1..NPages - 1)
           /\ VisitsAscend'
<1>1. p \in 1..NPages - 1 /\ p \in Nat /\ curPhysPg \in Nat /\ visited \in Seq(1..NPages - 1)
    BY FileType DEF IInv, DataOK, InFile
<1>2. visited' = Append(visited, p) /\ curPhysPg' = p /\ file' = file
    BY DEF Found
<1>3. /\ Len(visited') = Len(visited) + 1 /\ Len(visited) \in Nat
      /\ \A i \in 1..Len(visited) : visited'[i] = visited[i] /\ visited[i] \in Nat
      /\ visited'[Len(visited) + 1] = p
    BY <1>1, <1>2, FileType DEF IInv, DataOK
<1>4. \A i \in 1..Len(visited) : visited[i] \in file.own /\ visited[i] <= curPhysPg
    BY DEF IInv, VisitsAscend
<1>5. \A i, j \in 1..Len(visited) : i < j => visited[i] < visited[j]
    BY DEF IInv, VisitsAscend
<1>6. \A i \in 1..Len(visited') : visited'[i] \in file'.own /\ visited'[i] <= curPhysPg'
    BY <1>1, <1>2, <1>3, <1>4
<1>7. ASSUME NEW i \in 1..Len(visited'), NEW j \in 1..Len(visited'), i < j
      PROVE  visited'[i] < visited'[j]
    <2>1. i \in 1..Len(visited)
        BY <1>3, <1>7
    <2>2. CASE j \in 1..Len(visited)
        BY <1>3, <1>5, <1>7, <2>1, <2>2
    <2>3. CASE j = Len(visited) + 1
        BY <1>1, <1>3, <1>4, <2>1, <2>3
    <2> QED  BY <1>3, <1>7, <2>2, <2>3
<1>8. VisitsAscend'
    BY <1>6, <1>7 DEF VisitsAscend
<1>9. phase' \in {"open", "eof", "failed", "closed"} /\ curPg' \in 0..NPages - 1
    BY <1>1, FileType DEF Found, IInv, DataOK
<1>10. visited' \in Seq(1..NPages - 1)
    BY <1>1, <1>2
<1> QED  BY <1>1, <1>2, <1>8, <1>9, <1>10

\* The pages visited stay as they are and the position does not go back.
LEMMA VisitsKept ==
    ASSUME IInv, UNCHANGED <<visited, file>>, curPhysPg' \in Nat, curPhysPg' >= curPhysPg
    PROVE  VisitsAscend'
<1>1. \A i \in 1..Len(visited) : visited[i] \in Nat /\ visited[i] <= curPhysPg /\ curPhysPg \in Nat
    BY FileType DEF IInv, DataOK, VisitsAscend
<1> QED  BY <1>1 DEF IInv, VisitsAscend

LEMMA InitIInv == Init => IInv
<1> SUFFICES ASSUME Init PROVE IInv
    OBVIOUS
<1>1. NPages \in Nat \ {0}
    BY PageScanAssumption
<1>2. <<>> \in Seq((0..NPages - 1) \X (Nat \ {0})) /\ <<>> \in Seq(1..NPages - 1)
    OBVIOUS
<1>4. DataOK
    BY <1>1, <1>2 DEF Init, DataOK
<1>3. VisitsAscend
    BY DEF Init, VisitsAscend
<1> QED  BY <1>4, <1>3 DEF IInv

LEMMA StepIInv == IInv /\ [Next]_vars => IInv'
<1> SUFFICES ASSUME IInv, [Next]_vars PROVE IInv'
    OBVIOUS
<1>0. DataOK /\ VisitsAscend /\ curPhysPg \in Nat /\ curRow \in Nat
    BY DEF IInv, DataOK
<1>1. CASE FetchRow
    <2>1. DataOK'
        <3>1. /\ pc' \in {"page", "row", "map"} /\ after' \in {after, "page", "row"}
              /\ curPgNum' \in {curPgNum, 1}
              /\ curRow' \in {curRow, 0}
              /\ UNCHANGED <<file, limit, curPg, curPhysPg, phase, out, visited>>
            BY <1>1 DEF FetchRow, CallReadNextDpg, query
        <3> QED  BY <1>0, <3>1 DEF DataOK
    <2>2. VisitsAscend'
        BY <1>0, <1>1, VisitsKept DEF FetchRow, query
    <2> QED  BY <2>1, <2>2 DEF IInv
<1>2. CASE CheckPage
    <2>1. DataOK'
        <3>1. /\ pc' \in {"page", "row", "map"} /\ after' \in {after, "page", "row"}
              /\ curPgNum' \in {curPgNum, 1}
              /\ curRow' \in {curRow, 0}
              /\ UNCHANGED <<file, limit, curPg, curPhysPg, phase, out, visited>>
            BY <1>2 DEF CheckPage, CallReadNextDpg, query
        <3> QED  BY <1>0, <3>1 DEF DataOK
    <2>2. VisitsAscend'
        BY <1>0, <1>2, VisitsKept DEF CheckPage, query
    <2> QED  BY <2>1, <2>2 DEF IInv
<1>3. CASE ReadRow
    <2>1. out' \in Seq((0..NPages - 1) \X (Nat \ {0}))
        <3>1. out' = out \/ out' = Append(out, <<curPg, curRow + 1>>)
            BY <1>3 DEF ReadRow
        <3>2. <<curPg, curRow + 1>> \in (0..NPages - 1) \X (Nat \ {0})
            BY <1>0 DEF DataOK
        <3>3. out \in Seq((0..NPages - 1) \X (Nat \ {0}))
            BY <1>0 DEF DataOK
        <3>4. Append(out, <<curPg, curRow + 1>>) \in Seq((0..NPages - 1) \X (Nat \ {0}))
            BY <3>2, <3>3, AppendType
        <3> QED  BY <3>1, <3>3, <3>4
    <2>2. /\ pc' \in {"idle", "page"} /\ phase' \in {phase, "eof", "failed"}
          /\ curRow' = curRow + 1
          /\ UNCHANGED <<file, limit, curPg, curPgNum, curPhysPg, after, visited>>
        BY <1>3 DEF ReadRow, query
    <2>3. DataOK'
        BY <1>0, <2>1, <2>2 DEF DataOK
    <2>4. VisitsAscend'
        BY <1>0, <2>2, VisitsKept
    <2> QED  BY <2>3, <2>4 DEF IInv
<1>4. CASE FollowMap
    <2>1. PICK p \in FindNext(file.map, curPhysPg) :
            \/ BruteForce
            \/ NoMorePages /\ UNCHANGED curPhysPg
            \/ /\ p \notin {0, curPhysPg} /\ InFile(p) /\ p \in file.own
               /\ Found(p)
            \/ /\ p \notin {0, curPhysPg} /\ InFile(p)
               /\ Foreign(p) /\ UNCHANGED pc
        BY <1>4 DEF FollowMap
    <2>2. /\ UNCHANGED <<file, limit, curPgNum, curRow, after, out>>
        BY <1>4 DEF FollowMap, query
    <2>3. p \in Int /\ (p \in {0, -1} \/ p > curPhysPg)
        BY <1>0, FileType, FindNextAhead
    <2>4. CASE BruteForce
        <3>1. DataOK'
            BY <1>0, <2>2, <2>4 DEF BruteForce, DataOK
        <3>2. VisitsAscend'
            BY <1>0, <2>2, <2>4, VisitsKept DEF BruteForce
        <3> QED  BY <3>1, <3>2 DEF IInv
    <2>5. CASE NoMorePages /\ UNCHANGED curPhysPg
        <3>1. DataOK'
            BY <1>0, <2>2, <2>5 DEF NoMorePages, DataOK
        <3>2. VisitsAscend'
            BY <1>0, <2>2, <2>5, VisitsKept DEF NoMorePages
        <3> QED  BY <3>1, <3>2 DEF IInv
    <2>6. CASE InFile(p) /\ p \in file.own /\ Found(p)
        <3>1. p > curPhysPg
            BY <2>3, <2>6, FileType, <1>0 DEF InFile
        <3>2. pc' \in {"idle", "page", "row", "map", "brute"}
            BY <1>0, <2>6 DEF Found, DataOK
        <3>3. /\ curPg' \in 0..NPages - 1 /\ curPhysPg' \in Nat
              /\ phase' \in {"open", "eof", "failed", "closed"}
              /\ visited' \in Seq(1..NPages - 1)
              /\ VisitsAscend'
            BY <2>2, <2>3, <2>6, <3>1, <3>2, FoundKeeps
        <3>4. DataOK'
            BY <1>0, <2>2, <2>6, <3>2, <3>3 DEF DataOK
        <3> QED  BY <3>3, <3>4 DEF IInv
    <2>7. CASE InFile(p) /\ Foreign(p) /\ UNCHANGED pc
        <3>1. p \in 1..NPages - 1 /\ p > curPhysPg
            BY <2>3, <2>7, FileType, <1>0 DEF InFile
        <3>2. DataOK'
            BY <1>0, <2>2, <2>7, <3>1, FileType DEF Foreign, DataOK
        <3>3. VisitsAscend'
            BY <1>0, <2>2, <2>3, <2>7, <3>1, FileType, VisitsKept DEF Foreign
        <3> QED  BY <3>2, <3>3 DEF IInv
    <2> QED  BY <2>1, <2>4, <2>5, <2>6, <2>7
<1>5. CASE ScanFile
    <2> DEFINE p == curPhysPg + 1
    <2>0. p \in Nat /\ p > curPhysPg
        BY <1>0
    <2>1. UNCHANGED <<file, limit, curPgNum, curRow, after, out>>
        BY <1>5 DEF ScanFile, query
    <2>2. CASE InFile(p) /\ p \in file.own /\ Found(p)
        <3>2. pc' \in {"idle", "page", "row", "map", "brute"}
            BY <1>0, <2>2 DEF Found, DataOK
        <3>3. /\ curPg' \in 0..NPages - 1 /\ curPhysPg' \in Nat
              /\ phase' \in {"open", "eof", "failed", "closed"}
              /\ visited' \in Seq(1..NPages - 1)
              /\ VisitsAscend'
            BY <2>0, <2>1, <2>2, <3>2, FoundKeeps
        <3>4. DataOK'
            BY <1>0, <2>1, <2>2, <3>2, <3>3 DEF DataOK
        <3> QED  BY <3>3, <3>4 DEF IInv
    <2>3. CASE InFile(p) /\ Foreign(p) /\ UNCHANGED pc
        <3>1. p \in 1..NPages - 1
            BY <2>3 DEF InFile
        <3>2. DataOK'
            BY <1>0, <2>0, <2>1, <2>3, <3>1, FileType DEF Foreign, DataOK
        <3>3. VisitsAscend'
            BY <1>0, <2>0, <2>1, <2>3, VisitsKept DEF Foreign
        <3> QED  BY <3>2, <3>3 DEF IInv
    <2>4. CASE NoMorePages /\ curPhysPg' = p
        <3>1. DataOK'
            BY <1>0, <2>0, <2>1, <2>4 DEF NoMorePages, DataOK
        <3>2. VisitsAscend'
            BY <1>0, <2>0, <2>1, <2>4, VisitsKept DEF NoMorePages
        <3> QED  BY <3>1, <3>2 DEF IInv
    <2> QED  BY <1>5, <2>2, <2>3, <2>4 DEF ScanFile
<1>6. CASE Close
    <2>1. DataOK'
        BY <1>0, <1>6 DEF Close, DataOK, query, tableVars
    <2>2. VisitsAscend'
        BY <1>0, <1>6, VisitsKept DEF Close, query, tableVars
    <2> QED  BY <2>1, <2>2 DEF IInv
<1>7. CASE UNCHANGED vars
    BY <1>0, <1>7 DEF IInv, DataOK, VisitsAscend, vars, query, tableVars
<1> QED  BY <1>1, <1>2, <1>3, <1>4, <1>5, <1>6, <1>7 DEF Next, Advance

LEMMA Invariance == Spec => []IInv
BY InitIInv, StepIInv, PTL DEF Spec

\* mapBroken is a Boolean (it takes part in no other argument).
LEMMA FlagType == Spec => [](mapBroken \in BOOLEAN)
<1>1. Init => mapBroken \in BOOLEAN
    BY DEF Init
<1>2. (mapBroken \in BOOLEAN) /\ [Next]_vars => (mapBroken \in BOOLEAN)'
    BY Zenon DEF Next, Advance, FetchRow, CheckPage, ReadRow, FollowMap, ScanFile, Close,
        CallReadNextDpg, vars
<1> QED  BY <1>1, <1>2, PTL DEF Spec

\* Every variable of the scan keeps its type, for every file and every limit: the page in
\* the buffer is one of the file, and so is the page of each row returned.
THEOREM TypeCorrect == Spec => []TypeOK
<1>1. IInv /\ (mapBroken \in BOOLEAN) => TypeOK
    BY DEF IInv, DataOK, TypeOK
<1> QED  BY <1>1, Invariance, FlagType, PTL

\* The synchronous scan (MdbHandle.FetchRow over ReadNextDpg) visits data pages of the
\* table only, in ascending order, none twice, in any file, however damaged its map is.
THEOREM VisitsInOrder == Spec => []VisitsAscend
<1>1. IInv => VisitsAscend
    BY DEF IInv
<1> QED  BY <1>1, Invariance, PTL
------------------------------------------------------------------------------
(* Nothing is missed                                                       *)
(*                                                                         *)
(* The search of a map starts from page 0 or from a page that the map      *)
(* lists.  From such a page it leaves no listed page out, although it      *)
(* keeps the offset while it skips missing map pages: past a listed page   *)
(* the next one of the same map page exists, and the first one of the next *)
(* map page has offset 0.                                                  *)

\* Where a search starts.
StartsFrom(m, start) == start = 0 \/ start \in Listed(m)

\* A page that a paged map lists, with the map page that lists it.
LEMMA ListedAt ==
    ASSUME NEW m \in PagedMap, NEW q \in Listed(m)
    PROVE  \E k \in 0..Len(m.maps) - 1 : \E i \in 0..BitLen - 1 :
              /\ m.maps[k + 1] \notin {NoMapPage, BadMapPage} /\ i \in m.maps[k + 1]
              /\ q = k * BitLen + i
<1>1. m.type = "paged" /\ m.maps \in Seq(MapPage \cup {NoMapPage, BadMapPage})
    BY DEF PagedMap
<1>2. PICK h \in 1..Len(m.maps) : /\ m.maps[h] \notin {NoMapPage, BadMapPage}
                                  /\ q \in {(h - 1) * BitLen + i : i \in m.maps[h]}
    BY <1>1 DEF Listed
<1>3. m.maps[h] \in MapPage
    BY <1>1, <1>2
<1>4. PICK i \in m.maps[h] : q = (h - 1) * BitLen + i
    BY <1>2
<1>5. i \in 0..BitLen - 1
    BY <1>3 DEF MapPage
<1>6. h - 1 \in 0..Len(m.maps) - 1 /\ (h - 1) + 1 = h
    BY <1>1, <1>2
<1> QED  BY <1>2, <1>4, <1>5, <1>6

\* A number lies in the block of its quotient.
LEMMA BlockOf ==
    ASSUME NEW b \in Nat \ {0}, NEW k \in Nat, NEW i \in 0..b - 1, NEW j \in Nat, NEW l \in 0..b - 1
    PROVE  /\ k * b + i >= j * b + l => k >= j
           /\ k > j => k * b + i > j * b + l
           /\ k * b \in Nat
<1>0. k * b \in Nat /\ j * b \in Nat
    OBVIOUS
<1>1. ASSUME k < j PROVE k * b + b <= j * b
    <2>1. (k + 1) * b <= j * b
        BY <1>1
    <2>2. (k + 1) * b = k * b + b
        OBVIOUS
    <2> QED  BY <2>1, <2>2
<1>2. ASSUME k > j PROVE j * b + b <= k * b
    <2>1. (j + 1) * b <= k * b
        BY <1>2
    <2>2. (j + 1) * b = j * b + b
        OBVIOUS
    <2> QED  BY <2>1, <2>2
<1> QED  BY <1>0, <1>1, <1>2

LEMMA BlockSame ==
    ASSUME NEW b \in Nat \ {0}, NEW k \in Nat, NEW i \in 0..b - 1, NEW j \in Nat, NEW l \in 0..b - 1,
           k * b + i = j * b + l
    PROVE  k = j
<1>1. ~(k > j) /\ ~(j > k)
    BY BlockOf
<1> QED  BY <1>1

LEMMA BlockStart ==
    ASSUME NEW b \in Nat \ {0}, NEW k \in Nat, NEW i \in 0..b - 1, NEW j \in Nat,
           k * b + i = j * b
    PROVE  i = 0
<1>1. 0 \in 0..b - 1 /\ k * b \in Nat /\ j * b \in Nat /\ k * b + i = j * b + 0
    OBVIOUS
<1>2. k = j
    BY <1>1, BlockSame
<1> QED  BY <1>1, <1>2

\* Behind a missing map page the search of the page where it started has bit 0.
LEMMA OffsetLost ==
    ASSUME NEW m \in PagedMap, NEW start \in Nat, StartsFrom(m, start),
           Len(m.maps) > 0, m.maps[1] # NoMapPage,
           Ind(start) < Len(m.maps), m.maps[Ind(start) + 1] = NoMapPage
    PROVE  Off(start) = 0
<1>1. /\ BitLen \in Nat \ {0} /\ Ind(start) \in Nat /\ Off(start) \in 0..BitLen - 1
      /\ start + 1 = Ind(start) * BitLen + Off(start)
    BY UsageMapAssumption DEF Ind, Off
<1>2. CASE start = 0
    <2>1. CASE BitLen = 1
        BY <1>1, <2>1
    <2>2. CASE BitLen > 1
        <3>1. Ind(start) = 0
            BY <1>1, <1>2, <2>2, BlockOf
        <3> QED  BY <3>1
    <2> QED  BY <1>1, <2>1, <2>2
<1>3. CASE start \in Listed(m)
    <2>1. PICK k \in 0..Len(m.maps) - 1, i \in 0..BitLen - 1 :
              /\ m.maps[k + 1] \notin {NoMapPage, BadMapPage}
              /\ start = k * BitLen + i
        BY <1>3, ListedAt
    <2>2. CASE i + 1 < BitLen
        <3>1. i + 1 \in 0..BitLen - 1 /\ k \in Nat
              /\ k * BitLen + (i + 1) = Ind(start) * BitLen + Off(start)
            BY <1>1, <2>1, <2>2
        <3>2. k = Ind(start)
            BY <1>1, <3>1, BlockSame
        <3> QED  BY <2>1, <3>2
    <2>3. CASE i + 1 = BitLen
        <3>1. k * BitLen \in Nat /\ (k + 1) * BitLen = k * BitLen + BitLen
            BY <1>1, <2>1
        <3>2. PICK h \in Nat : h = k + 1
            BY <2>1
        <3>3. Ind(start) * BitLen + Off(start) = h * BitLen
            BY <1>1, <2>1, <2>3, <3>1, <3>2
        <3> QED  BY <1>1, <3>2, <3>3, BlockStart
    <2> QED  BY <1>1, <2>2, <2>3
<1> QED  BY <1>2, <1>3 DEF StartsFrom

\* The pages a map page lists after the page the search starts from are among its hits.
LEMMA HitsAll ==
    ASSUME NEW m \in PagedMap, NEW start \in Nat, StartsFrom(m, start),
           m.maps[1] # NoMapPage,
           NEW k \in 0..Len(m.maps) - 1, NEW i \in 0..BitLen - 1,
           m.maps[k + 1] \notin {NoMapPage, BadMapPage}, i \in m.maps[k + 1],
           k * BitLen + i > start
    PROVE  k \in Readable(m, start) /\ i >= FirstBit(m, start, k)
<1>1. /\ BitLen \in Nat \ {0} /\ Ind(start) \in Nat /\ Off(start) \in 0..BitLen - 1
      /\ start + 1 = Ind(start) * BitLen + Off(start)
    BY UsageMapAssumption DEF Ind, Off
<1>2. Len(m.maps) \in Nat /\ k \in Nat
    BY DEF PagedMap
<1>3. k * BitLen + i >= Ind(start) * BitLen + Off(start)
    BY <1>1, <1>2
<1>4. k >= Ind(start)
    BY <1>1, <1>2, <1>3, BlockOf
<1>5. k \in Readable(m, start)
    BY <1>2, <1>4 DEF Readable, MapPages
<1>6. CASE k = Ind(start)
    <2>1. i >= Off(start)
        BY <1>1, <1>2, <1>3, <1>6
    <2> QED  BY <1>1, <1>5, <2>1 DEF FirstBit
<1>7. CASE k > Ind(start) /\ \A j \in Ind(start)..(k - 1) : m.maps[j + 1] = NoMapPage
    <2>1. Ind(start) \in Ind(start)..(k - 1)
        BY <1>1, <1>2, <1>7
    <2>2. m.maps[Ind(start) + 1] = NoMapPage
        BY <1>7, <2>1
    <2>3. Len(m.maps) > 0 /\ Ind(start) < Len(m.maps)
        BY <1>1, <1>2, <1>7
    <2>4. Off(start) = 0
        BY <2>2, <2>3, OffsetLost
    <2> QED  BY <1>5, <2>4 DEF FirstBit
<1>8. CASE ~ \A j \in Ind(start)..(k - 1) : m.maps[j + 1] = NoMapPage
    BY <1>5, <1>8 DEF FirstBit
<1> QED  BY <1>1, <1>2, <1>4, <1>6, <1>7, <1>8

\* mapFindNext skips no listed page: its result is not behind one, and it is not 0 while
\* one is left.
LEMMA FindNextSkipsNone ==
    ASSUME NEW m \in Map, NEW start \in Nat, StartsFrom(m, start),
           ~(m.type = "paged" /\ m.maps[1] = NoMapPage),
           NEW p \in FindNext(m, start), NEW q \in Listed(m), q > start
    PROVE  q \in Int /\ (p = -1 \/ (p # 0 /\ p <= q))
<1>0. p \in Int /\ (p \in {0, -1} \/ p > start)
    BY FindNextAhead
<1>1. CASE m \in InlineMap
    <2>1. m.type = "inline" /\ m.base \in Int /\ m.bits \subseteq Nat
        BY <1>1 DEF InlineMap
    <2>2. PICK i \in m.bits : q = m.base + i
        BY <2>1 DEF Listed
    <2>3. i >= (IF start >= m.base THEN start - m.base + 1 ELSE 0)
        BY <2>1, <2>2
    <2>4. q \in InlineHits(m, start)
        BY <2>2, <2>3 DEF InlineHits
    <2>5. p \in Least(InlineHits(m, start))
        BY <2>1, <2>4 DEF FindNext
    <2>6. p \in InlineHits(m, start) /\ p <= q
        BY <2>4, <2>5 DEF Least
    <2>7. p > start
        BY <2>1, <2>6 DEF InlineHits
    <2> QED  BY <2>1, <2>2, <2>6, <2>7
<1>2. CASE m \in PagedMap
    <2>1. m.type = "paged" /\ m.maps[1] # NoMapPage
        BY <1>2 DEF PagedMap
    <2>2. PICK k \in 0..Len(m.maps) - 1, i \in 0..BitLen - 1 :
              /\ m.maps[k + 1] \notin {NoMapPage, BadMapPage} /\ i \in m.maps[k + 1]
              /\ q = k * BitLen + i
        BY <1>2, ListedAt
    <2>3. k \in Readable(m, start) /\ i >= FirstBit(m, start, k)
        BY <1>2, <2>1, <2>2, HitsAll
    <2>4. q \in PageHits(m, start, k)
        BY <2>2, <2>3 DEF PageHits
    <2>5. BitLen \in Nat \ {0} /\ k \in Nat /\ q \in Nat
        BY <1>2, <2>2, UsageMapAssumption, BlockOf DEF PagedMap
    <2>6. CASE \A j \in MapPages(m, start) : j < k => m.maps[j + 1] # BadMapPage
        <3>1. q \in PagedHits(m, start)
            BY <2>3, <2>4, <2>6 DEF PagedHits
        <3>2. p \in Least(PagedHits(m, start))
            BY <2>1, <3>1 DEF FindNext
        <3>3. p \in PagedHits(m, start) /\ p <= q
            BY <3>1, <3>2 DEF Least
        <3>4. p > start
            BY <1>2, <3>3, PageHitsAhead DEF PagedHits
        <3> QED  BY <2>5, <3>3, <3>4
    <2>7. ASSUME NEW j \in MapPages(m, start), j < k, m.maps[j + 1] = BadMapPage
          PROVE  p = -1 \/ (p # 0 /\ p <= q)
        <3>1. j \in Nat /\ j \notin Readable(m, start)
            BY <1>2, <2>7 DEF MapPages, Readable
        <3>2. CASE PagedHits(m, start) = {}
            <4>1. p \in {-1}
                BY <2>1, <2>7, <3>1, <3>2 DEF FindNext
            <4> QED  BY <4>1
        <3>3. CASE PagedHits(m, start) # {}
            <4>1. p \in PagedHits(m, start)
                BY <2>1, <3>3 DEF FindNext, Least
            <4>2. PICK h \in Readable(m, start) :
                      /\ \A g \in MapPages(m, start) : g < h => m.maps[g + 1] # BadMapPage
                      /\ p \in PageHits(m, start, h)
                BY <4>1 DEF PagedHits
            <4>3. p > start
                BY <1>2, <4>2, PageHitsAhead
            <4>4. h \in Nat /\ m.maps[h + 1] \in MapPage
                BY <1>2 DEF Readable, MapPages, PagedMap
            <4>5. PICK l \in m.maps[h + 1] : p = h * BitLen + l
                BY <4>2 DEF PageHits
            <4>6. l \in 0..BitLen - 1
                BY <4>4 DEF MapPage
            <4>7. ~(j < h)
                BY <2>7, <4>2
            <4>8. k > h
                BY <2>5, <2>7, <3>1, <4>4, <4>7
            <4>9. k * BitLen + i > h * BitLen + l
                BY <2>2, <2>5, <4>4, <4>6, <4>8, BlockOf
            <4>10. p < q
                BY <2>2, <4>5, <4>9
            <4> QED  BY <1>0, <2>5, <4>3, <4>10
        <3> QED  BY <3>2, <3>3
    <2> QED  BY <2>5, <2>6, <2>7
<1>3. CASE m \in BrokenMap
    BY <1>3 DEF BrokenMap, Listed
<1> QED  BY <1>1, <1>2, <1>3 DEF Map

\* A page found by mapFindNext is one that the map lists.
LEMMA FindNextListed ==
    ASSUME NEW m \in Map, NEW start \in Nat, NEW p \in FindNext(m, start), p \notin {0, -1}
    PROVE  p \in Listed(m)
<1>1. CASE m \in InlineMap
    <2>1. m.type = "inline" /\ m.base \in Int /\ m.bits \subseteq Nat
        BY <1>1 DEF InlineMap
    <2>2. p \in InlineHits(m, start)
        BY <2>1 DEF FindNext, Least
    <2> QED  BY <2>1, <2>2 DEF InlineHits, Listed
<1>2. CASE m \in PagedMap
    <2>1. m.type = "paged" /\ Len(m.maps) \in Nat
        BY <1>2 DEF PagedMap
    <2>2. p \in PagedHits(m, start)
        BY <2>1 DEF FindNext, Least
    <2>3. PICK k \in Readable(m, start) : p \in PageHits(m, start, k)
        BY <2>2 DEF PagedHits
    <2>4. PICK i \in m.maps[k + 1] : p = k * BitLen + i
        BY <2>3 DEF PageHits
    <2>5. /\ k + 1 \in 1..Len(m.maps) /\ m.maps[k + 1] \notin {NoMapPage, BadMapPage}
          /\ k \in Nat
        BY <2>1 DEF Readable, MapPages
    <2>6. p \in {((k + 1) - 1) * BitLen + j : j \in m.maps[k + 1]}
        <3>1. (k + 1) - 1 = k
            BY <2>5
        <3> QED  BY <2>4, <3>1
    <2> QED  BY <2>1, <2>5, <2>6 DEF Listed
<1>3. CASE m \in BrokenMap
    BY <1>3 DEF BrokenMap, FindNext
<1> QED  BY <1>1, <1>2, <1>3 DEF Map
\* The files NothingMissed speaks of.
Whole == MapComplete /\ ~SkipsFirstBit

\* What a scan of such a file keeps: it stands on a page from which the map leaves
\* nothing out, unless it reads the file page by page or has ended; the pages of the table
\* up to its position are visited; and all of them when it has ended below its LIMIT.
Reached == \A p \in file.own : p <= curPhysPg => p \in Elements(visited)
WalkInv ==
    /\ pc # "idle" => phase = "open"
    /\ phase = "open" /\ pc # "brute" => StartsFrom(file.map, curPhysPg)
    /\ Reached
    /\ phase = "eof" /\ ~Scan!LimitReached => file.own \subseteq Elements(visited)
WInv == Whole => WalkInv

LEMMA InitWInv == Init => WInv
<1> SUFFICES ASSUME Init PROVE WalkInv
    BY DEF WInv
<1>1. DataOK
    BY InitIInv DEF IInv
<1>2. \A p \in file.own : p \in Nat /\ p > 0
    BY <1>1, FileType
<1>3. curPhysPg = 0 /\ pc = "idle" /\ phase = "open"
    BY DEF Init
<1>4. Reached
    BY <1>2, <1>3 DEF Reached
<1> QED  BY <1>3, <1>4 DEF WalkInv, StartsFrom

\* A page is appended to those visited.
LEMMA VisitedGrows ==
    ASSUME DataOK, NEW p \in 1..NPages - 1, visited' = Append(visited, p)
    PROVE  Elements(visited') = Elements(visited) \cup {p}
<1>1. visited \in Seq(1..NPages - 1) /\ Len(visited) \in Nat
    BY DEF DataOK
<1>2. /\ Len(visited') = Len(visited) + 1 /\ visited'[Len(visited) + 1] = p
      /\ \A i \in 1..Len(visited) : visited'[i] = visited[i]
    BY <1>1
<1>3. 1..Len(visited') = (1..Len(visited)) \cup {Len(visited) + 1}
    BY <1>1, <1>2
<1> QED  BY <1>2, <1>3 DEF Elements

LEMMA LengthType == DataOK => Len(out) \in Nat
BY DEF DataOK

LEMMA StepWInv == IInv /\ WInv /\ [Next]_vars => WInv'
<1> SUFFICES ASSUME IInv, WInv, [Next]_vars, Whole' PROVE WalkInv'
    BY DEF WInv
<1>0. DataOK /\ curPhysPg \in Nat /\ curRow \in Nat /\ file \in File /\ file.map \in Map
      /\ file.own \subseteq 1..NPages - 1 /\ NPages \in Nat \ {0} /\ limit \in Int
    BY FileType DEF IInv, DataOK
<1>00. file' = file /\ limit' = limit
    BY DEF Next, Advance, FetchRow, CheckPage, ReadRow, FollowMap, ScanFile, Close, query, vars
<1>000. Whole /\ file.own \subseteq Listed(file.map)
    BY <1>00 DEF Whole, MapComplete, SkipsFirstBit
<1>w. WalkInv
    BY <1>000 DEF WInv
\* The position and the pages visited stay.
<1>s. ASSUME UNCHANGED <<curPhysPg, visited>> PROVE Reached'
    BY <1>00, <1>s, <1>w DEF WalkInv, Reached
<1>1. CASE FetchRow \/ CheckPage
    <2>1. UNCHANGED <<curPhysPg, visited, phase>> /\ phase = "open"
          /\ pc # "brute" /\ pc' # "brute"
        BY <1>1, <1>w DEF FetchRow, CheckPage, CallReadNextDpg, WalkInv
    <2> QED  BY <1>00, <1>s, <1>w, <2>1 DEF WalkInv
<1>3. CASE ReadRow
    <2>1. UNCHANGED <<curPhysPg, visited>> /\ pc' \in {"idle", "page"}
          /\ (phase' = "open" \/ pc' = "idle") /\ phase = "open" /\ pc = "row"
        BY <1>3, <1>w DEF ReadRow, WalkInv
    <2>2. phase' = "eof" => LimitReached /\ out' = out
        BY <1>3, <2>1 DEF ReadRow
    <2>3. ~(phase' = "eof" /\ ~Scan!LimitReached')
        BY <1>0, <1>00, <2>2, LengthType DEF LimitReached, Scan!LimitReached
    <2> QED  BY <1>00, <1>s, <1>w, <2>1, <2>3 DEF WalkInv
<1>4. CASE FollowMap
    <2>0. pc = "map" /\ phase = "open" /\ StartsFrom(file.map, curPhysPg)
        BY <1>4, <1>w DEF FollowMap, WalkInv
    <2>1. PICK p \in FindNext(file.map, curPhysPg) :
            \/ BruteForce
            \/ /\ p \in {0, curPhysPg}
               /\ NoMorePages /\ UNCHANGED curPhysPg
            \/ /\ p \notin {0, curPhysPg} /\ InFile(p) /\ p \in file.own
               /\ Found(p)
            \/ /\ p \notin {0, curPhysPg} /\ InFile(p) /\ p \notin file.own
               /\ Foreign(p) /\ UNCHANGED pc
        BY <1>4 DEF FollowMap
    <2>2. p \in Int /\ (p \in {0, -1} \/ p > curPhysPg)
        BY <1>0, FindNextAhead
    <2>3. ASSUME NEW q \in file.own, q > curPhysPg
          PROVE  p = -1 \/ (p # 0 /\ p <= q)
        <3>1. ~(file.map.type = "paged" /\ file.map.maps[1] = NoMapPage)
            BY <1>000 DEF Whole, SkipsFirstBit
        <3>2. q \in Listed(file.map) /\ q \in Nat
            BY <1>0, <1>000
        <3> QED  BY <1>0, <2>0, <2>3, <3>1, <3>2, FindNextSkipsNone
    <2>4. CASE BruteForce
        BY <1>00, <1>s, <1>w, <2>0, <2>4 DEF BruteForce, WalkInv
    <2>5. CASE p \in {0, curPhysPg} /\ NoMorePages /\ UNCHANGED curPhysPg
        <3>1. p = 0
            BY <1>0, <2>2, <2>5
        <3>2. \A q \in file.own : q \in Nat /\ q <= curPhysPg
            BY <1>0, <2>3, <3>1
        <3>3. file.own \subseteq Elements(visited)
            BY <1>w, <3>2 DEF WalkInv, Reached
        <3>4. UNCHANGED visited /\ pc' = "idle" /\ phase' = "eof"
            BY <2>5 DEF NoMorePages
        <3>5. Elements(visited') = Elements(visited)
            BY <3>4
        <3> QED  BY <1>00, <1>s, <2>5, <3>3, <3>4, <3>5 DEF WalkInv
    <2>f. ASSUME InFile(p) PROVE p \in 1..NPages - 1 /\ p > curPhysPg /\ p \in Listed(file.map)
        <3>1. p \in 1..NPages - 1 /\ p > curPhysPg
            BY <1>0, <2>2, <2>f DEF InFile
        <3>2. p \notin {0, -1}
            BY <1>0, <3>1
        <3> QED  BY <1>0, <3>1, <3>2, FindNextListed
    <2>g. ASSUME InFile(p) PROVE \A q \in file.own : q > curPhysPg => p <= q
        BY <1>0, <2>3, <2>f, <2>g
    <2>6. CASE InFile(p) /\ p \in file.own /\ Found(p)
        <3>1. curPhysPg' = p /\ phase' = "open" /\ visited' = Append(visited, p)
            BY <2>0, <2>6 DEF Found
        <3>2. Elements(visited') = Elements(visited) \cup {p}
            BY <1>0, <2>6, <2>f, <3>1, VisitedGrows
        <3>3. ASSUME NEW q \in file.own, q <= p PROVE q \in Elements(visited) \cup {p}
            <4>1. q \in Nat /\ p \in Nat /\ (q > curPhysPg => p <= q)
                BY <1>0, <2>6, <2>f, <2>g
            <4>2. q <= curPhysPg \/ q = p
                BY <1>0, <3>3, <4>1
            <4> QED  BY <1>w, <4>2 DEF WalkInv, Reached
        <3>4. Reached'
            BY <1>00, <3>1, <3>2, <3>3 DEF Reached
        <3>5. StartsFrom(file.map, p)
            BY <2>6, <2>f DEF StartsFrom
        <3> QED  BY <1>00, <3>1, <3>4, <3>5 DEF WalkInv
    <2>7. CASE InFile(p) /\ p \notin file.own /\ Foreign(p) /\ UNCHANGED pc
        <3>1. curPhysPg' = p /\ phase' = "open" /\ visited' = visited /\ pc' = "map"
            BY <2>0, <2>7 DEF Foreign
        <3>2. ASSUME NEW q \in file.own, q <= p PROVE q \in Elements(visited)
            <4>1. q \in Nat /\ p \in Nat /\ (q > curPhysPg => p <= q) /\ q # p
                BY <1>0, <2>7, <2>f, <2>g
            <4>2. q <= curPhysPg
                BY <1>0, <3>2, <4>1
            <4> QED  BY <1>w, <4>2 DEF WalkInv, Reached
        <3>3. Elements(visited') = Elements(visited)
            BY <3>1
        <3>4. Reached'
            BY <1>00, <3>1, <3>2, <3>3 DEF Reached
        <3>5. StartsFrom(file.map, p)
            BY <2>7, <2>f DEF StartsFrom
        <3> QED  BY <1>00, <3>1, <3>4, <3>5 DEF WalkInv
    <2> QED  BY <2>1, <2>4, <2>5, <2>6, <2>7
<1>5. CASE ScanFile
    <2> DEFINE p == curPhysPg + 1
    <2>0. p \in Nat /\ phase = "open" /\ pc = "brute"
        BY <1>0, <1>5, <1>w DEF ScanFile, WalkInv
    <2>1. ASSUME NEW q \in file.own, q <= p, q # p PROVE q \in Elements(visited)
        <3>1. q \in Nat /\ q <= curPhysPg
            BY <1>0, <2>1
        <3> QED  BY <1>w, <3>1 DEF WalkInv, Reached
    <2>2. CASE InFile(p) /\ p \in file.own /\ Found(p)
        <3>1. curPhysPg' = p /\ phase' = "open" /\ visited' = Append(visited, p)
            BY <2>0, <2>2 DEF Found
        <3>2. Elements(visited') = Elements(visited) \cup {p}
            BY <1>0, <2>2, <3>1, VisitedGrows DEF InFile
        <3>4. Reached'
            BY <1>00, <2>1, <3>1, <3>2 DEF Reached
        <3>5. StartsFrom(file.map, p)
            BY <1>000, <2>2 DEF StartsFrom
        <3> QED  BY <1>00, <3>1, <3>4, <3>5 DEF WalkInv
    <2>3. CASE InFile(p) /\ p \notin file.own /\ Foreign(p) /\ UNCHANGED pc
        <3>1. curPhysPg' = p /\ phase' = "open" /\ visited' = visited /\ pc' = "brute"
            BY <2>0, <2>3 DEF Foreign
        <3>2. Elements(visited') = Elements(visited)
            BY <3>1
        <3>4. Reached'
            BY <1>00, <2>1, <2>3, <3>1, <3>2 DEF Reached
        <3> QED  BY <1>00, <3>1, <3>4 DEF WalkInv
    <2>4. CASE ~InFile(p) /\ NoMorePages /\ curPhysPg' = p
        <3>1. curPhysPg' = p /\ phase' = "eof" /\ visited' = visited /\ pc' = "idle"
            BY <2>4 DEF NoMorePages
        <3>2. \A q \in file.own : q <= p /\ q # p
            BY <1>0, <2>0, <2>4 DEF InFile
        <3>3. Elements(visited') = Elements(visited)
            BY <3>1
        <3>4. file.own \subseteq Elements(visited)
            BY <2>1, <3>2
        <3>5. Reached'
            BY <1>00, <3>3, <3>4 DEF Reached
        <3> QED  BY <1>00, <3>1, <3>3, <3>4, <3>5 DEF WalkInv
    <2> QED  BY <1>5, <2>2, <2>3, <2>4 DEF ScanFile
<1>6. CASE Close
    <2>1. UNCHANGED <<curPhysPg, visited, pc>> /\ phase' = "closed" /\ pc = "idle"
        BY <1>6 DEF Close, tableVars
    <2> QED  BY <1>s, <2>1 DEF WalkInv
<1>7. CASE UNCHANGED vars
    <2>1. UNCHANGED <<curPhysPg, visited, pc, phase, out>>
        BY <1>7 DEF vars, tableVars
    <2> QED  BY <1>00, <1>s, <1>w, <2>1 DEF WalkInv, Scan!LimitReached
<1> QED  BY <1>1, <1>3, <1>4, <1>5, <1>6, <1>7 DEF Next, Advance

\* A scan without LIMIT that ends has visited every page of the table, when the map lists
\* them all and its first map page is there: neither pages of other tables or beyond the
\* end of the file, nor map pages that are missing or unreadable, nor the turns of the map
\* and the compatibility scan of ReadNextDpg make it leave one out.
THEOREM NothingLeftOut == Spec => []NothingMissed
<1>1. ASSUME IInv, WInv PROVE NothingMissed
    <2> SUFFICES ASSUME phase = "eof", MapComplete, ~SkipsFirstBit, limit = -1
                 PROVE  Elements(visited) = file.own
        BY DEF NothingMissed
    <2>1. WalkInv /\ ~Scan!LimitReached
        BY <1>1 DEF WInv, Whole, Scan!LimitReached
    <2>2. file.own \subseteq Elements(visited)
        BY <2>1 DEF WalkInv
    <2>3. Elements(visited) \subseteq file.own
        BY <1>1 DEF IInv, VisitsAscend, Elements
    <2> QED  BY <2>2, <2>3
<1>2. IInv /\ WInv => NothingMissed
    BY <1>1
<1>3. Spec => []WInv
    <2>1. Init => WInv
        BY InitWInv
    <2>2. IInv /\ WInv /\ [Next]_vars => WInv'
        BY StepWInv
    <2> QED  BY Invariance, <2>1, <2>2, PTL DEF Spec
<1> QED  BY <1>2, <1>3, Invariance, PTL
------------------------------------------------------------------------------
(* The ordered scan                                                        *)
(*                                                                         *)
(* The rows up to the position of the scan are those that were looked at.  *)
(* For an intact file no selected row behind the last one returned is      *)
(* among them: the pages between two visits hold none (Reached), and every *)
(* row of a visited page is read.                                          *)

\* The rows up to the position: while the next page is searched, all of the current one.
Passed(r) ==
    \/ r[1] < curPhysPg
    \/ r[1] = curPhysPg /\ (pc \in {"map", "brute"} \/ r[2] <= curRow)

Rest == Scan!Selected(Pages, Scan!LastOf(out))

RowInv ==
    /\ (pc \in {"page", "row"} \/ (pc = "idle" /\ phase = "open" /\ curPgNum = 1))
            => curPg = curPhysPg /\ curPg \in file.own
    /\ pc = "row" => curRow < Len(file.rows[curPg])
    /\ pc \in {"map", "brute"} => curRow = 0 /\ curPgNum = 1
    /\ curPgNum = 0 => curPhysPg = 0
    /\ phase = "open" => Passed(Scan!LastOf(out)) /\ \A r \in Rest : ~Passed(r)
RInv == Intact => RowInv

\* The selected rows of the table behind a row.
LEMMA SelectedRows ==
    ASSUME DataOK, NEW id, NEW r
    PROVE  r \in Scan!Selected(Pages, id)
              <=> \E p \in file.own : \E k \in 1..Len(file.rows[p]) :
                     /\ r = <<p, k>> /\ file.rows[p][k] = "selected"
                     /\ p > id[1] \/ (p = id[1] /\ k > id[2])
<1>0. /\ file.own \subseteq 1..NPages - 1 /\ NPages \in Nat \ {0}
      /\ file.rows \in [1..NPages - 1 -> Seq({"selected", "skipped", "broken"})]
    BY FileType DEF File
<1>1. Len(Pages) = NPages - 1 /\ DOMAIN Pages = 1..NPages - 1
    <2> DEFINE S == {Pages[p] : p \in 1..NPages - 1}
    <2>1. DOMAIN Pages = 1..NPages - 1 /\ Pages = [p \in DOMAIN Pages |-> Pages[p]]
        BY DEF Pages
    <2>2. Pages \in [1..NPages - 1 -> S]
        BY <2>1
    <2> QED  BY <1>0, <2>1, <2>2
<1>2. ASSUME NEW p \in file.own
      PROVE  /\ p \in 1..NPages - 1
             /\ Len(file.rows[p]) \in Nat
             /\ Len(Pages[p]) = Len(file.rows[p])
             /\ \A k \in 1..Len(file.rows[p]) :
                    Pages[p][k] = (file.rows[p][k] = "selected")
    <2>1. p \in 1..NPages - 1 /\ Len(file.rows[p]) \in Nat
        BY <1>0
    <2>2. Pages[p] = [k \in 1..Len(file.rows[p]) |-> file.rows[p][k] = "selected"]
        BY <2>1 DEF Pages
    <2> QED  BY <2>1, <2>2
<1>3. ASSUME NEW p \in 1..NPages - 1, p \notin file.own
      PROVE  Len(Pages[p]) = 0
    <2>1. Pages[p] = <<>>
        BY <1>3 DEF Pages
    <2> QED  BY <2>1
<1>4. ASSUME r \in Scan!Selected(Pages, id)
      PROVE  \E p \in file.own : \E k \in 1..Len(file.rows[p]) :
                /\ r = <<p, k>> /\ file.rows[p][k] = "selected"
                /\ p > id[1] \/ (p = id[1] /\ k > id[2])
    <2>1. PICK p \in 1..Len(Pages) : \E k \in 1..Len(Pages[p]) : r = <<p, k>>
        BY <1>4 DEF Scan!Selected, Scan!After
    <2>2. PICK k \in 1..Len(Pages[p]) : r = <<p, k>>
        BY <2>1
    <2>3. /\ Pages[p][k]
          /\ p > id[1] \/ (p = id[1] /\ k > id[2])
        BY <1>4, <2>2 DEF Scan!Selected, Scan!After
    <2>4. p \in file.own
        BY <1>1, <1>3, <2>2
    <2> QED  BY <1>2, <2>2, <2>3, <2>4
<1>5. ASSUME NEW p \in file.own, NEW k \in 1..Len(file.rows[p]),
             r = <<p, k>>, file.rows[p][k] = "selected",
             p > id[1] \/ (p = id[1] /\ k > id[2])
      PROVE  r \in Scan!Selected(Pages, id)
    <2>1. p \in 1..Len(Pages) /\ k \in 1..Len(Pages[p]) /\ Pages[p][k]
        BY <1>1, <1>2, <1>5
    <2>2. r \in Scan!After(Pages, id)
        BY <1>5, <2>1 DEF Scan!After
    <2> QED  BY <1>5, <2>1, <2>2 DEF Scan!Selected
<1> QED  BY <1>4, <1>5

\* The rows behind a row are selected rows of pages of the table.
LEMMA RestRows ==
    ASSUME DataOK, NEW r \in Rest
    PROVE  /\ r[1] \in file.own /\ r[1] \in Nat /\ r[2] \in Nat /\ r = <<r[1], r[2]>>
           /\ r[2] \in 1..Len(file.rows[r[1]]) /\ file.rows[r[1]][r[2]] = "selected"
<1>0. PICK p \in file.own : \E k \in 1..Len(file.rows[p]) :
          r = <<p, k>> /\ file.rows[p][k] = "selected"
    BY SelectedRows DEF Rest
<1>1. PICK k \in 1..Len(file.rows[p]) : r = <<p, k>> /\ file.rows[p][k] = "selected"
    BY <1>0
<1>2. p \in Nat /\ k \in Nat
    BY FileType
<1> QED  BY <1>1, <1>2
LEMMA InitRInv == Init => RInv
<1> SUFFICES ASSUME Init PROVE RowInv
    BY DEF RInv
<1>1. DataOK
    BY InitIInv DEF IInv
<1>2. curPhysPg = 0 /\ curPgNum = 0 /\ pc = "idle" /\ curRow = 0
    BY DEF Init
<1>3. Scan!LastOf(out) = <<0, 0>>
    BY DEF Init, Scan!LastOf, Scan!NoRow
<1>4. \A r \in Rest : r[1] \in Nat /\ r[1] > 0
    BY <1>1, RestRows, FileType
<1>5. \A r \in Rest : ~Passed(r)
    BY <1>2, <1>4 DEF Passed
<1>6. Passed(Scan!LastOf(out))
    BY <1>2, <1>3 DEF Passed
<1> QED  BY <1>2, <1>5, <1>6 DEF RowInv

\* The last row returned is a pair of numbers.
LEMMA LastRow ==
    ASSUME DataOK
    PROVE  /\ Scan!LastOf(out)[1] \in Nat /\ Scan!LastOf(out)[2] \in Nat
<1>1. CASE out = <<>>
    BY <1>1 DEF Scan!LastOf, Scan!NoRow
<1>2. CASE out # <<>>
    <2>1. out[Len(out)] \in (0..NPages - 1) \X (Nat \ {0})
        BY <1>2 DEF DataOK
    <2> QED  BY <1>2, <2>1, FileType DEF Scan!LastOf
<1> QED  BY <1>1, <1>2

\* Between two positions of the search lies no page of the table.
LEMMA NoPageBetween ==
    ASSUME IInv, WalkInv, WalkInv', NEW q \in file.own, q > curPhysPg, q <= curPhysPg',
           file' = file,
           \/ UNCHANGED visited
           \/ visited' = Append(visited, curPhysPg') /\ curPhysPg' \in 1..NPages - 1
    PROVE  q = curPhysPg' /\ visited' # visited
<1>1. DataOK /\ q \in Elements(visited') /\ q \in Nat /\ curPhysPg \in Nat
    BY FileType DEF IInv, DataOK, WalkInv, Reached
<1>2. q \notin Elements(visited)
    BY <1>1 DEF IInv, VisitsAscend, Elements, DataOK
<1>3. CASE UNCHANGED visited
    BY <1>1, <1>2, <1>3
<1>4. CASE visited' = Append(visited, curPhysPg') /\ curPhysPg' \in 1..NPages - 1
    <2>1. Elements(visited') = Elements(visited) \cup {curPhysPg'}
        BY <1>1, <1>4, VisitedGrows
    <2> QED  BY <1>1, <1>2, <2>1
<1> QED  BY <1>3, <1>4

\* What a step of the search for the next page does.
Searching ==
    \/ BruteForce
    \/ NoMorePages /\ (UNCHANGED curPhysPg \/ curPhysPg' = curPhysPg + 1)
    \/ curPhysPg' > curPhysPg /\ curPhysPg' \in file.own /\ Found(curPhysPg')
    \/ curPhysPg' > curPhysPg /\ Foreign(curPhysPg') /\ UNCHANGED pc
LEMMA SearchSteps ==
    ASSUME IInv, FollowMap \/ ScanFile
    PROVE  Searching /\ UNCHANGED <<file, limit, curPgNum, curRow, after, out>>
<1>0. curPhysPg \in Nat /\ file.map \in Map
    BY FileType DEF IInv, DataOK
<1>1. CASE FollowMap
    <2>1. PICK p \in FindNext(file.map, curPhysPg) :
            \/ BruteForce
            \/ NoMorePages /\ UNCHANGED curPhysPg
            \/ p \notin {0, curPhysPg} /\ InFile(p) /\ p \in file.own /\ Found(p)
            \/ p \notin {0, curPhysPg} /\ InFile(p) /\ Foreign(p) /\ UNCHANGED pc
        BY <1>1 DEF FollowMap
    <2>2. p \in Int /\ (p \in {0, -1} \/ p > curPhysPg)
        BY <1>0, FindNextAhead
    <2>3. InFile(p) => p > curPhysPg
        BY <1>0, <2>2 DEF InFile
    <2> QED  BY <1>1, <2>1, <2>3 DEF FollowMap, Searching, query, Found, Foreign
<1>2. CASE ScanFile
    <2>1. curPhysPg + 1 > curPhysPg
        BY <1>0
    <2> QED  BY <1>2, <2>1 DEF ScanFile, Searching, query, Found, Foreign
<1> QED  BY <1>1, <1>2

LEMMA IntactWhole == Intact => Whole
BY DEF Intact, Whole

LEMMA StepRInv == IInv /\ WInv /\ WInv' /\ IInv' /\ RInv /\ [Next]_vars => RInv'
<1> SUFFICES ASSUME IInv, WInv, WInv', IInv', RInv, [Next]_vars, Intact' PROVE RowInv'
    BY DEF RInv
<1>0. DataOK /\ curPhysPg \in Nat /\ curRow \in Nat /\ DataOK' /\ curPgNum \in {0, 1}
    BY DEF IInv, DataOK
<1>00. file' = file /\ limit' = limit
    BY DEF Next, Advance, FetchRow, CheckPage, ReadRow, FollowMap, ScanFile, Close, query, vars
<1>p. Pages' = Pages
    BY <1>00 DEF Pages
<1>i. Intact
    BY <1>00 DEF Intact, MapComplete, SkipsFirstBit
<1>w. WalkInv /\ WalkInv' /\ RowInv
    BY <1>i, IntactWhole DEF WInv, RInv, Intact, Whole
<1>o. ASSUME UNCHANGED out PROVE Rest' = Rest /\ Scan!LastOf(out)' = Scan!LastOf(out)
    BY <1>p, <1>o DEF Rest
<1>l. Scan!LastOf(out)[1] \in Nat /\ Scan!LastOf(out)[2] \in Nat
    BY <1>0, LastRow
\* The caller and the check of the page: the rows passed stay those passed.
<1>1. CASE FetchRow
    <2>1. /\ UNCHANGED <<curPhysPg, curPg, out, phase>> /\ phase = "open" /\ pc = "idle"
          /\ \/ curPgNum = 0 /\ curPgNum' = 1 /\ curRow' = 0 /\ pc' = "map"
             \/ curPgNum = 1 /\ curPgNum' = 1 /\ curRow' = curRow /\ pc' = "page"
        BY <1>0, <1>1 DEF FetchRow, CallReadNextDpg
    <2>2. CASE curPgNum = 1
        <3>1. \A r : Passed(r)' <=> Passed(r)
            BY <2>1, <2>2 DEF Passed
        <3> QED  BY <1>00, <1>o, <1>w, <2>1, <2>2, <3>1 DEF RowInv
    <2>3. CASE curPgNum = 0
        <3>1. \A r \in Rest : r[1] \in Nat /\ r[1] > 0
            BY <1>0, RestRows, FileType
        <3>2. curPhysPg' = 0 /\ Passed(Scan!LastOf(out))
            BY <1>w, <2>1, <2>3 DEF RowInv
        <3>3. Passed(Scan!LastOf(out))'
            BY <1>l, <1>o, <2>1, <2>3, <3>2 DEF Passed
        <3>4. \A r \in Rest : ~Passed(r)'
            BY <2>1, <3>1, <3>2 DEF Passed
        <3> QED  BY <1>o, <2>1, <2>3, <3>3, <3>4 DEF RowInv
    <2> QED  BY <1>0, <2>2, <2>3
<1>2. CASE CheckPage
    <2>1. /\ UNCHANGED <<curPhysPg, curPg, curPgNum, out, phase>> /\ pc = "page"
          /\ \/ curRow >= Len(RowsOf(curPg)) /\ curRow' = 0 /\ pc' = "map"
             \/ curRow < Len(RowsOf(curPg)) /\ curRow' = curRow /\ pc' = "row"
        BY <1>0, <1>2, FileType DEF CheckPage, CallReadNextDpg, UsedUp, RowsOf, InFile, File
    <2>2. curPg = curPhysPg /\ curPg \in file.own /\ curPgNum = 1 /\ phase = "open"
        BY <1>0, <1>w, <2>1, FileType DEF RowInv, WalkInv
    <2>3. RowsOf(curPg) = file.rows[curPg] /\ Len(file.rows[curPg]) \in Nat
        BY <1>0, <2>2, FileType DEF RowsOf, InFile, File
    <2>4. CASE pc' = "row"
        <3>1. \A r : Passed(r)' <=> Passed(r)
            BY <2>1, <2>4 DEF Passed
        <3> QED  BY <1>00, <1>o, <1>w, <2>1, <2>2, <2>3, <2>4, <3>1 DEF RowInv
    <2>5. CASE pc' = "map"
        <3>1. \A r \in Rest : ~Passed(r)'
            <4> SUFFICES ASSUME NEW r \in Rest, Passed(r)' PROVE FALSE
                OBVIOUS
            <4>1. r[1] \in Nat /\ r[2] \in 1..Len(file.rows[r[1]]) /\ ~Passed(r)
                BY <1>0, <1>w, <2>2, RestRows DEF RowInv
            <4>2. r[1] = curPg /\ r[2] <= curRow
                BY <1>0, <2>1, <2>2, <2>3, <2>5, <4>1 DEF Passed
            <4> QED  BY <2>2, <4>1, <4>2 DEF Passed
        <3>2. Passed(Scan!LastOf(out))'
            BY <1>w, <1>o, <2>1, <2>2, <2>5 DEF RowInv, Passed
        <3> QED  BY <1>o, <2>1, <2>2, <2>5, <3>1, <3>2 DEF RowInv
    <2> QED  BY <2>1, <2>4, <2>5
\* A row is passed: it is returned or not selected.
<1>3. CASE ReadRow
    <2>1. /\ UNCHANGED <<curPhysPg, curPg, curPgNum>> /\ pc = "row" /\ curRow' = curRow + 1
        BY <1>3 DEF ReadRow
    <2>2. /\ curPg = curPhysPg /\ curPg \in file.own /\ curPgNum = 1 /\ phase = "open"
          /\ curRow < Len(file.rows[curPg])
        BY <1>0, <1>w, <2>1, FileType DEF RowInv, WalkInv
    <2>3. /\ RowsOf(curPg) = file.rows[curPg] /\ Len(file.rows[curPg]) \in Nat
          /\ curRow + 1 \in 1..Len(file.rows[curPg])
        BY <1>0, <2>2, FileType DEF RowsOf, InFile, File
    <2>4. Outcomes = {file.rows[curPg][curRow + 1]}
        BY <2>2, <2>3 DEF Outcomes
    <2>5. file.rows[curPg][curRow + 1] # "broken"
        BY <1>i, <2>2, <2>3 DEF Intact, Elements
    <2>6. \/ /\ file.rows[curPg][curRow + 1] # "selected"
             /\ pc' = "page" /\ UNCHANGED <<phase, out>>
          \/ pc' = "idle" /\ phase' = "eof"
          \/ pc' = "idle" /\ UNCHANGED phase /\ out' = Append(out, <<curPg, curRow + 1>>)
        BY <1>3, <2>4, <2>5 DEF ReadRow
    <2>7. ASSUME NEW r \in Rest, Passed(r)' PROVE r = <<curPg, curRow + 1>>
        <3>1. /\ r[1] \in Nat /\ r[2] \in Nat /\ r = <<r[1], r[2]>> /\ ~Passed(r)
              /\ r[1] \in file.own
            BY <1>0, <1>w, <2>2, RestRows DEF RowInv
        <3>2. pc' \notin {"map", "brute"}
            BY <2>6
        <3>3. r[1] = curPg /\ r[2] <= curRow + 1 /\ ~(r[2] <= curRow)
            BY <1>0, <2>1, <2>2, <2>7, <3>1, <3>2 DEF Passed
        <3>4. r[2] = curRow + 1
            BY <1>0, <3>1, <3>3
        <3> QED  BY <3>1, <3>3, <3>4
    <2>8. CASE /\ file.rows[curPg][curRow + 1] # "selected"
               /\ pc' = "page" /\ UNCHANGED <<phase, out>>
        <3>1. \A r \in Rest : ~Passed(r)'
            <4> SUFFICES ASSUME NEW r \in Rest, Passed(r)' PROVE FALSE
                OBVIOUS
            <4>1. r[1] = curPg /\ r[2] = curRow + 1
                BY <2>7
            <4> QED  BY <1>0, <2>8, <4>1, RestRows
        <3>2. Passed(Scan!LastOf(out))'
            BY <1>0, <1>l, <1>w, <1>o, <2>1, <2>2, <2>8 DEF RowInv, Passed
        <3> QED  BY <1>00, <1>o, <2>1, <2>2, <2>8, <3>1, <3>2 DEF RowInv
    <2>9. CASE pc' = "idle" /\ phase' = "eof"
        BY <2>1, <2>2, <2>9 DEF RowInv
    <2>10. CASE pc' = "idle" /\ UNCHANGED phase /\ out' = Append(out, <<curPg, curRow + 1>>)
        <3>1. Scan!LastOf(out)' = <<curPg, curRow + 1>>
            <4>1. out \in Seq((0..NPages - 1) \X (Nat \ {0})) /\ Len(out) \in Nat
                BY <1>0 DEF DataOK
            <4>2. out' # <<>> /\ out'[Len(out')] = <<curPg, curRow + 1>>
                BY <2>10, <4>1
            <4> QED  BY <4>2 DEF Scan!LastOf
        <3>2. Passed(Scan!LastOf(out))'
            BY <1>0, <2>1, <2>2, <2>10, <3>1 DEF Passed
        <3>3. ASSUME NEW r \in Rest', Passed(r)' PROVE FALSE
            <4>1. PICK p \in file.own : \E k \in 1..Len(file.rows[p]) :
                     /\ r = <<p, k>> /\ file.rows[p][k] = "selected"
                     /\ p > curPg \/ (p = curPg /\ k > curRow + 1)
                BY <1>0, <1>p, <3>1, <3>3, SelectedRows DEF Rest
            <4>2. PICK k \in 1..Len(file.rows[p]) :
                     /\ r = <<p, k>>
                     /\ p > curPg \/ (p = curPg /\ k > curRow + 1)
                BY <4>1
            <4>3. p \in Nat /\ k \in Nat
                BY <1>0, FileType
            <4> QED  BY <1>0, <2>1, <2>2, <2>10, <3>3, <4>2, <4>3 DEF Passed
        <3> QED  BY <1>00, <2>1, <2>2, <2>10, <3>2, <3>3 DEF RowInv
    <2> QED  BY <2>6, <2>8, <2>9, <2>10
\* The next page is searched: no page of the table lies between two positions.
<1>4. CASE FollowMap \/ ScanFile
    <2>1. Searching /\ UNCHANGED <<file, limit, curPgNum, curRow, after, out>>
        BY <1>4, SearchSteps
    <2>2. /\ pc \in {"map", "brute"} /\ phase = "open" /\ curRow = 0 /\ curPgNum = 1
          /\ curRow' = 0 /\ curPgNum' = 1
        BY <1>4, <1>w, <2>1 DEF FollowMap, ScanFile, RowInv, WalkInv
    <2>3. CASE BruteForce
        <3>1. \A r : Passed(r)' <=> Passed(r)
            BY <2>2, <2>3 DEF Passed, BruteForce
        <3> QED  BY <1>o, <1>w, <2>1, <2>2, <2>3, <3>1 DEF RowInv, BruteForce
    <2>4. CASE NoMorePages
        BY <2>2, <2>4 DEF RowInv, NoMorePages
    <2>q. ASSUME NEW r \in Rest, r[1] <= curPhysPg', curPhysPg' \in Nat,
                 \/ UNCHANGED visited
                 \/ visited' = Append(visited, curPhysPg') /\ curPhysPg' \in 1..NPages - 1
          PROVE  r[1] = curPhysPg' /\ visited' # visited
        <3>1. r[1] \in file.own /\ r[1] \in Nat /\ ~Passed(r)
            BY <1>0, <1>w, <2>2, RestRows DEF RowInv
        <3>2. r[1] > curPhysPg
            BY <1>0, <2>2, <3>1 DEF Passed
        <3> QED  BY <1>00, <1>w, <2>q, <3>1, <3>2, NoPageBetween
    <2>l. ASSUME curPhysPg' > curPhysPg, curPhysPg' \in Nat PROVE Passed(Scan!LastOf(out))'
        BY <1>0, <1>l, <1>o, <1>w, <2>1, <2>2, <2>l DEF RowInv, Passed
    <2>5. CASE curPhysPg' > curPhysPg /\ curPhysPg' \in file.own /\ Found(curPhysPg')
        <3>1. /\ curPg' = curPhysPg' /\ visited' = Append(visited, curPhysPg')
              /\ phase' = phase /\ pc' \in {"page", "row"}
              /\ curPhysPg' \in 1..NPages - 1 /\ curPhysPg' \in Nat
            BY <1>0, <2>5, FileType DEF Found, DataOK
        <3>2. \A r \in Rest : ~Passed(r)'
            <4> SUFFICES ASSUME NEW r \in Rest, Passed(r)' PROVE FALSE
                OBVIOUS
            <4>1. r[1] \in Nat /\ r[2] \in 1..Len(file.rows[r[1]])
                BY <1>0, RestRows
            <4>2. r[1] < curPhysPg'
                BY <2>2, <3>1, <4>1 DEF Passed
            <4>3. r[1] = curPhysPg'
                BY <2>q, <3>1, <4>1, <4>2
            <4> QED  BY <3>1, <4>2, <4>3
        <3>3. file.rows[curPg'] # <<>> /\ file.rows[curPg'] \in Seq({"selected", "skipped", "broken"})
            BY <1>0, <1>i, <2>5, <3>1, FileType DEF Intact, File
        <3>4. curRow' < Len(file'.rows[curPg'])
            BY <1>00, <2>2, <3>3
        <3> QED  BY <1>00, <1>o, <2>1, <2>2, <2>5, <2>l, <3>1, <3>2, <3>4 DEF RowInv
    <2>6. CASE curPhysPg' > curPhysPg /\ Foreign(curPhysPg') /\ UNCHANGED pc
        <3>1. visited' = visited /\ phase' = phase /\ curPhysPg' \in Nat
            BY <1>0, <2>6 DEF Foreign, DataOK
        <3>2. \A r \in Rest : ~Passed(r)'
            <4> SUFFICES ASSUME NEW r \in Rest, Passed(r)' PROVE FALSE
                OBVIOUS
            <4>1. r[1] \in Nat
                BY <1>0, RestRows
            <4>2. r[1] <= curPhysPg'
                BY <3>1, <4>1 DEF Passed
            <4> QED  BY <2>q, <3>1, <4>2
        <3> QED  BY <1>o, <2>1, <2>2, <2>6, <2>l, <3>1, <3>2 DEF RowInv
    <2> QED  BY <2>1, <2>3, <2>4, <2>5, <2>6 DEF Searching
<1>6. CASE Close
    BY <1>0, <1>6, <1>w DEF Close, tableVars, RowInv
<1>7. CASE UNCHANGED vars
    <2>1. UNCHANGED <<curPhysPg, curPg, curPgNum, curRow, out, phase, pc>>
        BY <1>7 DEF vars, tableVars
    <2>2. \A r : Passed(r)' <=> Passed(r)
        BY <2>1 DEF Passed
    <2> QED  BY <1>00, <1>o, <1>w, <2>1, <2>2 DEF RowInv
<1> QED  BY <1>1, <1>2, <1>3, <1>4, <1>6, <1>7 DEF Next, Advance
\* Every step on an intact file is one of the ordered scan, or changes nothing it shows.
LEMMA StepScan ==
    ASSUME IInv, WInv, WInv', RInv, [Next]_vars
    PROVE  [Intact => Scan!Next]_(Scan!scanVars)
<1>00. file' = file /\ limit' = limit
    BY DEF Next, Advance, FetchRow, CheckPage, ReadRow, FollowMap, ScanFile, Close, query, vars
<1>p. Pages' = Pages
    BY <1>00 DEF Pages
<1>u. ASSUME UNCHANGED <<out, phase>> PROVE UNCHANGED Scan!scanVars
    BY <1>00, <1>p, <1>u DEF Scan!scanVars, Scan!query
<1> SUFFICES ASSUME Intact, ~UNCHANGED <<out, phase>> PROVE Scan!Next
    BY <1>u
<1>0. DataOK /\ curPhysPg \in Nat /\ curRow \in Nat /\ limit \in Int /\ Len(out) \in Nat
    BY FileType DEF IInv, DataOK
<1>w. WalkInv /\ WalkInv' /\ RowInv
    BY <1>00, IntactWhole DEF WInv, RInv, Intact, Whole, MapComplete, SkipsFirstBit
<1>l. Scan!LastOf(out)[1] \in Nat /\ Scan!LastOf(out)[2] \in Nat
    BY <1>0, LastRow
<1>q. UNCHANGED Scan!query
    BY <1>00, <1>p DEF Scan!query
<1>1. ASSUME FetchRow \/ CheckPage PROVE FALSE
    BY <1>1 DEF FetchRow, CheckPage
<1>2. CASE ReadRow
    <2>1. pc = "row" /\ phase = "open" /\ curPg = curPhysPg /\ curPg \in file.own
          /\ curRow < Len(file.rows[curPg])
        BY <1>2, <1>w DEF ReadRow, RowInv, WalkInv
    <2>2. /\ RowsOf(curPg) = file.rows[curPg] /\ Len(file.rows[curPg]) \in Nat
          /\ curRow + 1 \in 1..Len(file.rows[curPg]) /\ curPg \in Nat
        BY <1>0, <2>1, FileType DEF RowsOf, InFile, File
    <2>3. Outcomes = {file.rows[curPg][curRow + 1]}
        BY <2>1, <2>2 DEF Outcomes
    <2>4. file.rows[curPg][curRow + 1] # "broken"
        BY <2>1, <2>2 DEF Intact, Elements
    <2>5. /\ file.rows[curPg][curRow + 1] = "selected"
          /\ \/ LimitReached /\ phase' = "eof" /\ UNCHANGED out
             \/ /\ ~LimitReached /\ UNCHANGED phase
                /\ out' = Append(out, <<curPg, curRow + 1>>)
        BY <1>2, <2>3, <2>4 DEF ReadRow
    <2>6. CASE LimitReached /\ phase' = "eof" /\ UNCHANGED out
        <3>1. Scan!LimitReached
            BY <1>0, <2>6 DEF LimitReached, Scan!LimitReached
        <3> QED  BY <1>q, <2>1, <2>6, <3>1 DEF Scan!Next, Scan!ReportEnd
    <2>7. CASE ~LimitReached /\ UNCHANGED phase /\ out' = Append(out, <<curPg, curRow + 1>>)
        <3> DEFINE r == <<curPg, curRow + 1>>
        <3>1. ~Scan!LimitReached
            BY <1>0, <2>7 DEF LimitReached, Scan!LimitReached
        <3>2. Passed(Scan!LastOf(out)) /\ \A x \in Rest : ~Passed(x)
            BY <1>w, <2>1 DEF RowInv
        <3>3. curPg > Scan!LastOf(out)[1]
                \/ (curPg = Scan!LastOf(out)[1] /\ curRow + 1 > Scan!LastOf(out)[2])
            BY <1>0, <1>l, <2>1, <3>2 DEF Passed
        <3>4. r \in Rest
            BY <1>0, <2>1, <2>2, <2>5, <3>3, SelectedRows DEF Rest
        <3>5. ASSUME NEW x \in Rest, x # r PROVE x \in Scan!After(Pages, r)
            <4>1. /\ x[1] \in Nat /\ x[2] \in Nat /\ x = <<x[1], x[2]>> /\ ~Passed(x)
                BY <1>0, <3>2, <3>5, RestRows
            <4>2. x[1] > curPg \/ (x[1] = curPg /\ x[2] > curRow + 1)
                BY <1>0, <2>1, <2>2, <3>5, <4>1 DEF Passed
            <4>3. x \in Scan!After(Pages, Scan!LastOf(out))
                BY <3>5 DEF Rest, Scan!Selected
            <4> QED  BY <4>2, <4>3 DEF Scan!After
        <3>6. r \notin Scan!After(Pages, r)
            BY <1>0, <2>2 DEF Scan!After
        <3>7. Rest \cap Scan!After(Pages, r) = Rest \ {r}
            BY <3>5, <3>6
        <3> QED  BY <1>q, <2>1, <2>7, <3>1, <3>4, <3>7 DEF Rest, Scan!Next, Scan!Return
    <2> QED  BY <2>5, <2>6, <2>7
<1>3. CASE FollowMap \/ ScanFile
    <2>1. /\ Searching /\ UNCHANGED out /\ pc \in {"map", "brute"} /\ phase = "open"
        BY <1>3, <1>w, SearchSteps DEF FollowMap, ScanFile, WalkInv
    <2>2. NoMorePages
        BY <2>1 DEF Searching, BruteForce, Found, Foreign
    <2>3. phase' = "eof" /\ visited' = visited
        BY <2>2 DEF NoMorePages
    <2>4. CASE Scan!LimitReached
        BY <1>q, <2>1, <2>3, <2>4 DEF Scan!Next, Scan!ReportEnd
    <2>5. CASE ~Scan!LimitReached
        <3>1. ~Scan!LimitReached'
            BY <1>00, <2>1, <2>5 DEF Scan!LimitReached
        <3>2. file.own \subseteq Elements(visited)
            <4>1. file'.own \subseteq Elements(visited')
                BY <1>w, <2>3, <3>1 DEF WalkInv
            <4> QED  BY <1>00, <2>3, <4>1
        <3>3. ASSUME NEW x \in Rest PROVE FALSE
            <4>1. x[1] \in file.own /\ x[1] \in Nat /\ ~Passed(x)
                BY <1>0, <1>w, <2>1, RestRows DEF RowInv
            <4>2. x[1] <= curPhysPg
                BY <3>2, <4>1 DEF IInv, VisitsAscend, Elements
            <4> QED  BY <1>0, <2>1, <4>1, <4>2 DEF Passed
        <3>4. Scan!Selected(Pages, Scan!LastOf(out)) = {}
            BY <3>3 DEF Rest
        <3> QED  BY <1>q, <2>1, <2>3, <3>4 DEF Scan!Next, Scan!ReportEnd
    <2> QED  BY <2>4, <2>5
<1>4. CASE Close
    BY <1>q, <1>4 DEF Close, Scan!Next, Scan!CloseScan
<1>5. ASSUME UNCHANGED vars PROVE FALSE
    BY <1>5 DEF vars
<1> QED  BY <1>1, <1>2, <1>3, <1>4, <1>5 DEF Next, Advance

\* On an intact file the synchronous scan, with its two ways of finding the next page,
\* implements the ordered scan: it returns the selected rows, each once and in page order,
\* up to the LIMIT, and reports the end only when none is left.
THEOREM ScanInOrder == Spec => ImplementsScan
<1>1. Init => RInv
    BY InitRInv
<1>2. IInv /\ WInv /\ WInv' /\ IInv' /\ RInv /\ [Next]_vars => RInv'
    BY StepRInv
<1>3. IInv /\ WInv /\ WInv' /\ RInv /\ [Next]_vars => [Intact => Scan!Next]_(Scan!scanVars)
    BY StepScan
<1>4. Init => WInv
    BY InitWInv
<1>5. IInv /\ WInv /\ [Next]_vars => WInv'
    BY StepWInv
<1> QED  BY Invariance, <1>1, <1>2, <1>3, <1>4, <1>5, PTL DEF Spec, ImplementsScan
=============================================================================
