----------------------------- MODULE MCConnection -----------------------------
(* Small instances of Connection for TLC: a query of each kind.               *)
EXTENDS Connection

AllQueries == {"scan", "fast", "sorted", "temp"}
KindOf == [q \in AllQueries |-> q]
PagesOf == [q \in AllQueries |-> CASE q = "sorted" -> <<2>> [] q = "temp" -> <<1>>
                                 [] OTHER -> <<1, 1>>]
LimitOf == [q \in AllQueries |-> IF q = "fast" THEN 1 ELSE -1]

\* Scans that are not fast.
Scans == {"a", "b", "c"}
ScanKind == [q \in Scans |-> "scan"]
ScanPages == [q \in Scans |-> <<2, 1>>]
ScanLimit == [q \in Scans |-> -1]
===============================================================================
