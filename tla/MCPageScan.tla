------------------------------ MODULE MCPageScan ------------------------------
(* Small instances of PageScan for TLC: files of five pages and maps with two  *)
(* bits to a map page.                                                       *)
EXTENDS PageScan

MapEntry == SUBSET (0..1) \cup {NoMapPage, BadMapPage}

Inline == [type : {"inline"}, base : {-1, 0, 2}, bits : SUBSET (0..3)]
Paged == [type : {"paged"},
          maps : {<<a, b, c>> : a \in MapEntry, b \in MapEntry, c \in MapEntry}]
AnyMap == Inline \cup Paged \cup {[type |-> "broken"]}

Rows(own, r) == [p \in 1..4 |-> IF p \in own THEN r ELSE <<>>]

\* Every map with every set of data pages, each with one row; and the usual map
\* with pages of all kinds.
DamagedFiles ==
    {[map |-> m, own |-> o, counted |-> c, rows |-> Rows(o, <<"selected">>)] :
        m \in AnyMap, o \in SUBSET (1..4), c \in BOOLEAN}

RowSeqs == {<<>>, <<"selected">>, <<"skipped", "selected">>, <<"selected", "broken">>}
SoundFiles ==
    {[map |-> [type |-> "inline", base |-> 0, bits |-> {1, 3, 4}], own |-> {1, 3, 4},
      counted |-> TRUE, rows |-> [p \in 1..4 |-> IF p = 2 THEN <<>> ELSE f[p]]] :
        f \in [1..4 -> RowSeqs]}

AnyFile == DamagedFiles \cup SoundFiles
AnyLimit == {-1, 1}
===============================================================================
