------------------------------ MODULE COptions ------------------------------
(***************************************************************************)
(* The options that MDBOPTS asks for, loaded by each thread when it first  *)
(* looks at one (options.c).  A Go program calls into C from any thread,   *)
(* and load_options cuts the string of the environment, which all threads  *)
(* share, with strtok_r and without a lock.                                *)
(*                                                                         *)
(* The string is the sequence of its options: strtok_r skips an empty one. *)
(* Separator i, the first character behind option i, is cut when a NUL is  *)
(* written over it; a write that others do not see yet is pending.  The    *)
(* string is not set while the program runs.                               *)
(***************************************************************************)
EXTENDS Integers, Sequences

CONSTANTS Threads, Environments

ASSUME OptionsAssumption == Environments \subseteq Seq(STRING)

VARIABLES asked,          \* what the environment asks for
          nuls, pending,  \* the separators that are seen cut, and those that will be
          opts            \* per thread

optionVars == <<asked, nuls, pending, opts>>

DebugAll == {"debug_like", "debug_write", "debug_usage", "debug_ole", "debug_row", "debug_props"}

(* use_index needs libmswstr, which this build does not have.              *)
Option(o) == IF o = "debug_all" THEN DebugAll ELSE {o} \cap DebugAll
Upto(k)   == UNION {Option(asked[i]) : i \in 1 .. k}

(* `at` is the option the thread is at, `passing` that it has found it to  *)
(* end in a separator; `after`, a history variable, that it began when the *)
(* first separator was seen cut.                                           *)
Unset == [set |-> FALSE, at |-> 0, passing |-> FALSE, on |-> {}, after |-> FALSE]

OptionsInit ==
  /\ asked \in Environments
  /\ nuls = {} /\ pending = {}
  /\ opts = [t \in Threads |-> Unset]

\* Fault: an option replaces those before it.
OnlyLast(on, o) == Option(o)
Adds(on, o) == on \cup Option(o)
Taken(t)    == Adds(opts[t].on, asked[opts[t].at])

(* mdb_get_option, mdb_debug: a thread that has not loaded begins to.      *)
Begin(t) ==
  /\ ~opts[t].set /\ opts[t].at = 0
  /\ opts' = [opts EXCEPT ![t] =
       IF asked = <<>> THEN [@ EXCEPT !.set = TRUE]
       ELSE [@ EXCEPT !.at = 1, !.after = 1 \in nuls]]
  /\ UNCHANGED <<asked, nuls, pending>>

(* strtok_r looks at the end of the option: a NUL there, of the string or  *)
(* of any thread, makes it the last.                                       *)
IsLast(at) == at = Len(asked) \/ at \in nuls
Look(t) ==
  /\ opts[t].at > 0 /\ ~opts[t].set /\ ~opts[t].passing
  /\ opts' = [opts EXCEPT ![t] =
       IF IsLast(@.at) THEN [@ EXCEPT !.set = TRUE, !.on = Taken(t)]
       ELSE [@ EXCEPT !.passing = TRUE]]
  /\ UNCHANGED <<asked, nuls, pending>>

(* It cuts the separator, whatever is there by now, and the next call will *)
(* go on behind it; load_options takes the option.                         *)
Pass(t) ==
  /\ opts[t].passing
  /\ pending' = (pending \cup {opts[t].at}) \ nuls
  /\ opts' = [opts EXCEPT ![t] =
       [@ EXCEPT !.at = opts[t].at + 1, !.passing = FALSE, !.on = Taken(t)]]
  /\ UNCHANGED <<asked, nuls>>

(* A write reaches the other threads: nothing orders it with theirs.       *)
Reach ==
  \E i \in pending :
    /\ nuls' = nuls \cup {i} /\ pending' = pending \ {i}
    /\ UNCHANGED <<asked, opts>>

OptionsNext ==
  \/ \E t \in Threads : Begin(t) \/ Look(t) \/ Pass(t)
  \/ Reach
OptionsSpec == OptionsInit /\ [][OptionsNext]_optionVars

-----------------------------------------------------------------------------
Loaded(t)  == opts[t].set
Loading(t) == opts[t].at > 0 /\ ~opts[t].set

(* Threads may find any number of the options, but never an option that    *)
(* was not asked for nor a later one without those before it, and at least *)
(* the first.  When all that began have loaded, one of them has all the    *)
(* options.  A thread that begins when the first separator has been seen   *)
(* cut has the first option only (load_options, strtok_r).                 *)
OptionsAsked ==
  /\ \A t \in Threads : Loaded(t) =>
       \E k \in 0 .. Len(asked) : (asked # <<>> => k > 0) /\ opts[t].on = Upto(k)
  /\ (\E t \in Threads : Loaded(t)) /\ (\A t \in Threads : ~Loading(t)) =>
       \E t \in Threads : Loaded(t) /\ opts[t].on = Upto(Len(asked))
  /\ \A t \in Threads : Loaded(t) /\ opts[t].after => opts[t].on = Upto(1)
=============================================================================
