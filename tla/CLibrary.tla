------------------------------ MODULE CLibrary -------------------------------
(***************************************************************************)
(* The C library: its files, its pages of rows, its options and what it    *)
(* reads from bytes, side by side.  They share no state that these modules *)
(* model, so a behaviour moves one of them, and the others rest where they *)
(* start; `part` says which.                                               *)
(***************************************************************************)
EXTENDS CFile, CPage, COptions, CReading

VARIABLE part

vars == <<part, fileVars, pageVars, optionVars, job>>

Init ==
  /\ part \in {"files", "pages", "options", "reading"}
  /\ FileInit /\ PageInit /\ OptionsInit /\ ReadingInit
  /\ part # "files" => disk = CHOOSE d \in Dirs : TRUE
  /\ part # "pages" => file = CHOOSE t \in Tables : TRUE
  /\ part # "options" => asked = CHOOSE e \in Environments : TRUE

Next ==
  \/ part = "files" /\ FileNext /\ UNCHANGED <<part, pageVars, optionVars, job>>
  \/ part = "pages" /\ PageNext /\ UNCHANGED <<part, fileVars, optionVars, job>>
  \/ part = "options" /\ OptionsNext /\ UNCHANGED <<part, fileVars, pageVars, job>>
  \/ part = "reading" /\ ReadingNext /\ UNCHANGED <<part, fileVars, pageVars, optionVars>>

Spec == Init /\ [][Next]_vars
=============================================================================
