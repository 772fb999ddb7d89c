------------------------------ MODULE UsageMap ------------------------------
(***************************************************************************)
(* Usage maps: which pages of the file belong to a table                   *)
(* (mapFindNext in src/internal/gomdb/map.go).  There are two formats.  An *)
(* inline map is a bitmap for the pages from a base page on; a paged map   *)
(* lists map pages, each a bitmap for BitLen pages of the file, or 0 where *)
(* there is none.  A map may be damaged.                                   *)
(***************************************************************************)
EXTENDS Integers, Sequences

CONSTANTS
    BitLen,     \* usageBitLen, the bits of a map page ((PgSize - 4) * 8)
    NoMapPage,  \* an entry 0 of a paged map: no map page
    BadMapPage  \* an entry whose map page cannot be read

ASSUME UsageMapAssumption == BitLen \in Nat \ {0}

MapPage == SUBSET (0..BitLen - 1)

\* The maps there are: inline with the first page and the set bits, paged with
\* its map pages, and one whose size or type is wrong.
InlineMap == [type : {"inline"}, base : Int, bits : SUBSET Nat]
PagedMap  == [type : {"paged"}, maps : Seq(MapPage \cup {NoMapPage, BadMapPage})]
BrokenMap == [type : {"broken"}]
Map == InlineMap \cup PagedMap \cup BrokenMap

Least(S) == {p \in S : \A q \in S : p <= q}

\* mapFindNext0: the set bits from the one for the page after start.
InlineHits(m, start) ==
    {m.base + i : i \in {j \in m.bits : j >= (IF start >= m.base
                                              THEN start - m.base + 1 ELSE 0)}}

\* mapFindNext1.  The search starts at map page Ind(start) and bit Off(start) ...
Ind(start) == (start + 1) \div BitLen
Off(start) == (start + 1) % BitLen

\* Fault: the offset is not reset after a map page.
OffsetKept(m, start, k) == Off(start)

\* ... skips the entries without a map page, which leaves the bit it starts
\* from as it is, and starts from bit 0 after it has looked at a map page.
FirstBit(m, start, k) ==
    IF \A j \in Ind(start)..(k - 1) : m.maps[j + 1] = NoMapPage THEN Off(start) ELSE 0

\* The entries of the list from Ind(start) on that have a map page.
MapPages(m, start) ==
    {k \in 0..(Len(m.maps) - 1) : k >= Ind(start) /\ m.maps[k + 1] # NoMapPage}

Readable(m, start) == {k \in MapPages(m, start) : m.maps[k + 1] # BadMapPage}

\* The pages that map page k lists, among those looked at.
PageHits(m, start, k) ==
    {k * BitLen + i : i \in {j \in m.maps[k + 1] : j >= FirstBit(m, start, k)}}

\* The hits before the first map page that cannot be read.
PagedHits(m, start) ==
    UNION {PageHits(m, start, k) :
              k \in {k \in Readable(m, start) :
                        \A j \in MapPages(m, start) : j < k => m.maps[j + 1] # BadMapPage}}

\* mapFindNext: the set of its one result, the next page listed after start,
\* 0 if there is none, -1 for a map that is damaged.
FindNext(m, start) ==
    CASE m.type = "broken" -> {-1}
      [] m.type = "inline" ->
            IF InlineHits(m, start) = {} THEN {0} ELSE Least(InlineHits(m, start))
      [] m.type = "paged" ->
            IF PagedHits(m, start) # {} THEN Least(PagedHits(m, start))
            ELSE IF Readable(m, start) # MapPages(m, start) THEN {-1} ELSE {0}

\* The pages a map lists, by its format alone.
Listed(m) ==
    CASE m.type = "broken" -> {}
      [] m.type = "inline" -> {m.base + i : i \in m.bits}
      [] m.type = "paged" ->
            UNION {{(k - 1) * BitLen + i : i \in m.maps[k]} :
                      k \in {k \in 1..Len(m.maps) : m.maps[k] \notin {NoMapPage, BadMapPage}}}
=============================================================================
