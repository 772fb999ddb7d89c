------------------------------ MODULE MCFileCache ------------------------------
(* Small instances of FileCache for TLC. *)
EXTENDS FileCache, TLC

CONSTANTS p1, p2

\* One file whose size changes and one whose size does not; with MaxBytes = 3
\* both fit, except when each is as large as it gets.
FileSizes == p1 :> {1, 2} @@ p2 :> {2}
================================================================================
