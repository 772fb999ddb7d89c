------------------------------ MODULE MCFastScan ------------------------------
(* Small instances of FastScan for TLC. *)
EXTENDS FastScan, TLC

T == TRUE
F == FALSE

\* No data page at all; pages that fill a batch partly, with an empty page and a
\* row that is not selected; a page that starts in one batch and ends in the
\* next; more rows than InFlight batches hold.
ScanTables == { <<>>, << <<T, F>>, <<>>, <<T>> >>, << <<T>>, <<T, T, T>> >>,
                << <<T, F>>, <<T, T>>, <<T>> >> }

\* For liveness: one scan that recycles a batch.
LiveTables == { << <<T>>, <<F, T>>, <<T>> >> }
LiveLimits == {NoLimit}

ScanLimits == {NoLimit, 1}

WorkerSymmetry == Permutations(Workers)
===============================================================================
