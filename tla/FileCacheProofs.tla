--------------------------- MODULE FileCacheProofs ---------------------------
(***************************************************************************)
(* Proofs about FileCache for every value of its constants: an opener      *)
(* never gets bytes older than the file it stat'ed, a path has one loader  *)
(* at a time, nobody waits for a load that is not under way, and what is   *)
(* cached stays within the budget.                                         *)
(***************************************************************************)
EXTENDS FileCache, OperatorProofs

\* Versions only grow: an entry is not older than its key, and the file not older
\* than what anybody has seen of it.
Monotone ==
    /\ \A p \in DOMAIN fileCache : fileCache[p].ver >= fileCache[p].mtime
    /\ \A o \in Openers : req[o].mtime <= disk[req[o].path].mtime

\* fileCacheLoading has no key without a loader.
LoadingHasLoader ==
    \A p \in loading : \E o \in Openers : Loads(o) /\ req[o].path = p

\* A waiter waits for a path that is being loaded.
WaitsForLoading == \A o \in Openers : pc[o] = "wait" => req[o].path \in loading

\* What is about to be stored was read.
StoreHasData == \A o \in Openers : pc[o] = "store" => data[o] # Nil

Inv == TypeOK /\ Monotone /\ NeverOlder /\ SingleFlight /\ LoadingHasLoader
       /\ WaitsForLoading /\ StoreHasData
------------------------------------------------------------------------------
(* Lemmas about the operators *)

LEMMA NoRequestType == NoRequest \in [path : Paths, size : Nat, mtime : Nat, now : Nat]
  BY FileCacheAssumption DEF NoRequest

\* Setting an entry and deleting one.
LEMMA WithType ==
    ASSUME DOMAIN fileCache \subseteq Paths,
           \A q \in DOMAIN fileCache : fileCache[q] \in Entry,
           NEW p \in Paths, NEW e \in Entry, fileCache' = With(p, e)
    PROVE  /\ DOMAIN fileCache' \subseteq Paths
           /\ \A q \in DOMAIN fileCache' : fileCache'[q] \in Entry
  BY DEF With

LEMMA WithoutType ==
    ASSUME DOMAIN fileCache \subseteq Paths,
           \A q \in DOMAIN fileCache : fileCache[q] \in Entry,
           NEW p, fileCache' = Without(p)
    PROVE  /\ DOMAIN fileCache' \subseteq Paths
           /\ \A q \in DOMAIN fileCache' : fileCache'[q] \in Entry
  BY DEF Without

\* An opener that uses an entry gets a version that is not older than its key.
LEMMA MatchIsFresh ==
    ASSUME TypeOK, Monotone, NEW o \in Openers, Matches(o)
    PROVE  /\ fileCache[req[o].path] \in Entry
           /\ fileCache[req[o].path].ver \in Nat \ {Nil}
           /\ fileCache[req[o].path].ver >= req[o].mtime
<1>1. fileCache[req[o].path] \in Entry
  BY DEF TypeOK, Matches
<1>2. fileCache[req[o].path].ver \in Nat \ {Nil}
  BY <1>1 DEF Entry
<1> QED
  BY <1>1, <1>2 DEF Monotone, Matches

\* So does one that reads the file.
LEMMA ReadIsFresh ==
    ASSUME TypeOK, Monotone, NEW o \in Openers, NEW v \in ReadResults(o)
    PROVE  v \in Nat /\ (v # Nil => v >= req[o].mtime)
<1>1. req[o].path \in Paths
  BY DEF TypeOK
<1>2. disk[req[o].path].mtime \in Nat \ {0}
  BY <1>1 DEF TypeOK
<1>3. v \in {disk[req[o].path].mtime, Nil}
  BY DEF ReadResults
<1> QED
  BY <1>2, <1>3 DEF Monotone, Nil

\* Using an entry for o stamps it with the time of o.
LEMMA StampType ==
    ASSUME TypeOK, NEW o \in Openers, Matches(o)
    PROVE  [fileCache[req[o].path] EXCEPT !.lastUsed = req[o].now] \in Entry
<1>1. fileCache[req[o].path] \in Entry
  BY DEF TypeOK, Matches
<1>2. req[o].now \in Nat
  BY DEF TypeOK
<1> QED
  BY <1>1, <1>2 DEF Entry
------------------------------------------------------------------------------
(* Types *)

LEMMA TypeStep == Inv /\ [Next]_vars => TypeOK'
<1> SUFFICES ASSUME TypeOK, Monotone, StoreHasData, [Next]_vars
             PROVE  TypeOK'
  BY DEF Inv
<1> USE DEF TypeOK
<1>1. ASSUME NEW p \in Paths, Rewrite(p) PROVE TypeOK'
  <2>1. PICK s \in Sizes[p] :
            disk' = [disk EXCEPT ![p] = [size |-> s, mtime |-> @.mtime + 1]]
    BY <1>1 DEF Rewrite
  <2>2. s \in Nat \ {0} /\ disk[p].mtime + 1 \in Nat \ {0}
    BY FileCacheAssumption
  <2>3. disk' \in [Paths -> [size : Nat \ {0}, mtime : Nat \ {0}]]
    BY <2>1, <2>2
  <2> QED
    BY <1>1, <2>3 DEF Rewrite
<1>2. ASSUME NEW o \in Openers, NEW p \in Paths, Open(o, p) PROVE TypeOK'
  <2>1. disk[p].size \in Nat /\ disk[p].mtime \in Nat /\ opens' \in Nat
    BY <1>2 DEF Open
  <2>2. [path |-> p, size |-> disk[p].size, mtime |-> disk[p].mtime, now |-> opens']
            \in [path : Paths, size : Nat, mtime : Nat, now : Nat]
    BY <2>1
  <2>3. req' \in [Openers -> [path : Paths, size : Nat, mtime : Nat, now : Nat]]
    BY <1>2, <2>2 DEF Open
  <2>4. pc' \in [Openers -> {"idle", "lookup", "wait", "recheck", "read", "fail",
                             "store", "evict", "fallback", "return"}]
        /\ data' \in [Openers -> Nat]
    BY <1>2 DEF Open, Goto, Get, Nil
  <2> QED
    BY <1>2, <2>1, <2>3, <2>4 DEF Open
<1>3. ASSUME NEW o \in Openers, Hit(o) PROVE TypeOK'
  <2>1. req[o].path \in Paths /\ fileCache[req[o].path].ver \in Nat
    BY <1>3, MatchIsFresh DEF Hit
  <2>2. /\ DOMAIN fileCache' \subseteq Paths
        /\ \A q \in DOMAIN fileCache' : fileCache'[q] \in Entry
    BY <1>3, <2>1, StampType, WithType DEF Hit
  <2>3. data' \in [Openers -> Nat]
    BY <1>3, <2>1 DEF Hit, Get
  <2> QED
    BY <1>3, <2>2, <2>3 DEF Hit, Goto
<1>4. ASSUME NEW o \in Openers, Join(o) PROVE TypeOK'
  BY <1>4 DEF Join, Goto
<1>5. ASSUME NEW o \in Openers, StartLoad(o) PROVE TypeOK'
  <2>1. req[o].path \in Paths
    OBVIOUS
  <2> QED
    BY <1>5, <2>1 DEF StartLoad, Goto
<1>6. ASSUME NEW o \in Openers, ReadFile(o) PROVE TypeOK'
  <2>1. PICK v \in ReadResults(o) : Get(o, v) /\ Goto(o, IF v = Nil THEN "fail" ELSE "store")
    BY <1>6 DEF ReadFile
  <2>2. v \in Nat
    BY ReadIsFresh
  <2>3. data' \in [Openers -> Nat]
    BY <2>1, <2>2 DEF Get
  <2>4. pc' \in [Openers -> {"idle", "lookup", "wait", "recheck", "read", "fail",
                             "store", "evict", "fallback", "return"}]
    BY <2>1 DEF Goto
  <2> QED
    BY <1>6, <2>3, <2>4 DEF ReadFile
<1>7. ASSUME NEW o \in Openers, FailLoad(o) PROVE TypeOK'
  BY <1>7 DEF FailLoad, EndLoad
<1>8. ASSUME NEW o \in Openers, Store(o) PROVE TypeOK'
  <2>1. req[o].path \in Paths
    OBVIOUS
  <2>2. loading' \subseteq Paths
        /\ pc' \in [Openers -> {"idle", "lookup", "wait", "recheck", "read", "fail",
                                "store", "evict", "fallback", "return"}]
    BY <1>8 DEF Store, EndLoad
  <2>3. CASE Matches(o)
    <3>1. fileCache[req[o].path].ver \in Nat
      BY <2>3, MatchIsFresh
    <3>2. /\ DOMAIN fileCache' \subseteq Paths
          /\ \A q \in DOMAIN fileCache' : fileCache'[q] \in Entry
      BY <1>8, <2>1, <2>3, StampType, WithType DEF Store
    <3>3. data' \in [Openers -> Nat]
      BY <1>8, <2>3, <3>1 DEF Store, Get
    <3> QED
      BY <1>8, <2>2, <2>3, <3>2, <3>3 DEF Store
  <2>4. CASE ~Matches(o)
    <3>1. data[o] \in Nat \ {Nil} /\ req[o].size \in Nat /\ req[o].mtime \in Nat
          /\ req[o].now \in Nat
      BY <1>8 DEF Store, StoreHasData
    <3>2. [ver |-> data[o], size |-> req[o].size, mtime |-> req[o].mtime,
           lastUsed |-> req[o].now] \in Entry
      BY <3>1 DEF Entry
    <3>3. /\ DOMAIN fileCache' \subseteq Paths
          /\ \A q \in DOMAIN fileCache' : fileCache'[q] \in Entry
      BY <1>8, <2>1, <2>4, <3>2, WithType DEF Store
    <3>4. fileCacheBytes' \in Int
      BY <1>8, <2>4, <3>1 DEF Store, BytesAfter
    <3> QED
      BY <1>8, <2>2, <2>4, <3>3, <3>4 DEF Store
  <2> QED
    BY <2>3, <2>4
<1>9. ASSUME NEW o \in Openers, Evict(o) PROVE TypeOK'
  <2>1. PICK p \in DOMAIN fileCache :
            /\ fileCacheBytes' = fileCacheBytes - fileCache[p].size
            /\ fileCache' = Without(p)
    BY <1>9 DEF Evict
  <2>2. fileCache[p].size \in Nat
    BY DEF Entry
  <2>3. /\ DOMAIN fileCache' \subseteq Paths
        /\ \A q \in DOMAIN fileCache' : fileCache'[q] \in Entry
    BY <2>1, WithoutType
  <2> QED
    BY <1>9, <2>1, <2>2, <2>3 DEF Evict
<1>10. ASSUME NEW o \in Openers, EvictDone(o) PROVE TypeOK'
  BY <1>10 DEF EvictDone, Goto
<1>11. ASSUME NEW o \in Openers, Recheck(o) PROVE TypeOK'
  <2>1. Matches(o) => fileCache[req[o].path].ver \in Nat
    BY MatchIsFresh
  <2>2. data' \in [Openers -> Nat]
    BY <1>11, <2>1 DEF Recheck, Get
  <2>3. pc' \in [Openers -> {"idle", "lookup", "wait", "recheck", "read", "fail",
                             "store", "evict", "fallback", "return"}]
    BY <1>11 DEF Recheck, Goto
  <2> QED
    BY <1>11, <2>2, <2>3 DEF Recheck
<1>12. ASSUME NEW o \in Openers, Fallback(o) PROVE TypeOK'
  <2>1. data' \in [Openers -> Nat]
    BY <1>12, ReadIsFresh DEF Fallback, Get
  <2> QED
    BY <1>12, <2>1 DEF Fallback, Goto
<1>13. ASSUME NEW o \in Openers, Return(o) PROVE TypeOK'
  BY <1>13, NoRequestType DEF Return, Goto, Get, Nil
<1>14. CASE UNCHANGED vars
  BY <1>14 DEF vars
<1> QED
  BY <1>1, <1>2, <1>3, <1>4, <1>5, <1>6, <1>7, <1>8, <1>9, <1>10, <1>11, <1>12,
     <1>13, <1>14 DEF Next, Load
------------------------------------------------------------------------------
(* Versions *)

LEMMA MonotoneStep == Inv /\ [Next]_vars => Monotone'
<1> SUFFICES ASSUME TypeOK, Monotone, NeverOlder, StoreHasData, [Next]_vars
             PROVE  Monotone'
  BY DEF Inv
<1>a. ASSUME UNCHANGED <<disk, fileCache, req>> PROVE Monotone'
  BY <1>a DEF Monotone
<1>b. ASSUME UNCHANGED <<disk, req>>,
             \A p \in DOMAIN fileCache' : fileCache'[p].ver >= fileCache'[p].mtime
      PROVE  Monotone'
  BY <1>b DEF Monotone
<1>c. ASSUME NEW o \in Openers, Matches(o), UNCHANGED <<disk, req>>,
             fileCache' = With(req[o].path, [fileCache[req[o].path]
                                             EXCEPT !.lastUsed = req[o].now])
      PROVE  Monotone'
  <2>1. fileCache[req[o].path] \in Entry
    BY <1>c, MatchIsFresh
  <2>2. req[o].path \in DOMAIN fileCache
    BY <1>c DEF Matches
  <2>3. ASSUME NEW p \in DOMAIN fileCache'
        PROVE  fileCache'[p].ver >= fileCache'[p].mtime
    <3>1. p \in DOMAIN fileCache
      BY <1>c, <2>2 DEF With
    <3>2. fileCache'[p].ver = fileCache[p].ver /\ fileCache'[p].mtime = fileCache[p].mtime
      BY <1>c, <2>1, <3>1 DEF With, Entry
    <3> QED
      BY <3>1, <3>2 DEF Monotone
  <2> QED
    BY <1>b, <1>c, <2>3
<1>1. ASSUME NEW p \in Paths, Rewrite(p) PROVE Monotone'
  <2>1. \A q \in Paths : disk[q].mtime \in Nat /\ disk'[q].mtime >= disk[q].mtime
                        /\ disk'[q].mtime \in Nat
    BY <1>1 DEF Rewrite, TypeOK
  <2>2. \A o \in Openers : req[o].path \in Paths /\ req[o].mtime \in Nat
    BY DEF TypeOK
  <2>3. \A o \in Openers : req[o].mtime <= disk'[req[o].path].mtime
    BY <2>1, <2>2 DEF Monotone
  <2> QED
    BY <1>1, <2>3 DEF Rewrite, Monotone
<1>2. ASSUME NEW o \in Openers, NEW p \in Paths, Open(o, p) PROVE Monotone'
  <2>1. disk[p].mtime \in Nat
    BY DEF TypeOK
  <2>2. req'[o].path = p /\ req'[o].mtime = disk[p].mtime
        /\ \A q \in Openers : q # o => req'[q] = req[q]
    BY <1>2 DEF Open, TypeOK
  <2> QED
    BY <1>2, <2>1, <2>2 DEF Open, Monotone
<1>3. ASSUME NEW o \in Openers, Hit(o) PROVE Monotone'
  BY <1>3, <1>c DEF Hit
<1>4. ASSUME NEW o \in Openers, Store(o) PROVE Monotone'
  <2>1. CASE Matches(o)
    BY <1>4, <2>1, <1>c DEF Store
  <2>2. CASE ~Matches(o)
    <3>1. data[o] >= req[o].mtime
      BY <1>4 DEF Store, StoreHasData, NeverOlder
    <3> QED
      BY <1>4, <2>2, <3>1, <1>b DEF Store, With, Monotone
  <2> QED
    BY <2>1, <2>2
<1>5. ASSUME NEW o \in Openers, Evict(o) PROVE Monotone'
  BY <1>5, <1>b DEF Evict, Without, Monotone
<1>6. ASSUME NEW o \in Openers, Return(o) PROVE Monotone'
  <2>1. \A p \in Paths : disk[p].mtime \in Nat /\ 0 <= disk[p].mtime
    BY DEF TypeOK
  <2>2. NoRequest.path \in Paths /\ NoRequest.mtime = 0
    BY NoRequestType DEF NoRequest
  <2>3. req'[o] = NoRequest /\ \A q \in Openers : q # o => req'[q] = req[q]
    BY <1>6 DEF Return, TypeOK
  <2> QED
    BY <1>6, <2>1, <2>2, <2>3 DEF Return, Monotone
<1>7. ASSUME NEW o \in Openers,
             Join(o) \/ StartLoad(o) \/ ReadFile(o) \/ FailLoad(o) \/ EvictDone(o)
             \/ Recheck(o) \/ Fallback(o)
      PROVE  Monotone'
  BY <1>7, <1>a DEF Join, StartLoad, ReadFile, FailLoad, EvictDone, Recheck, Fallback
<1>8. CASE UNCHANGED vars
  BY <1>8, <1>a DEF vars
<1> QED
  BY <1>1, <1>2, <1>3, <1>4, <1>5, <1>6, <1>7, <1>8 DEF Next, Load

LEMMA NeverOlderStep == Inv /\ [Next]_vars => NeverOlder' /\ StoreHasData'
<1> SUFFICES ASSUME TypeOK, Monotone, NeverOlder, StoreHasData, [Next]_vars
             PROVE  NeverOlder' /\ StoreHasData'
  BY DEF Inv
<1> DEFINE Goal == NeverOlder' /\ StoreHasData'
\* Opener o gets v and goes on to l; the others keep what they have.
<1>a. ASSUME NEW o \in Openers, NEW v, v # Nil => v >= req'[o].mtime,
             Get(o, v), pc'[o] = "store" => v # Nil,
             \A q \in Openers : q # o =>
                 /\ req'[q] = req[q]
                 /\ pc'[q] = "store" => pc[q] = "store"
      PROVE  Goal
  <2>1. data'[o] = v /\ \A q \in Openers : q # o => data'[q] = data[q]
    BY <1>a DEF Get, TypeOK
  <2> QED
    BY <1>a, <2>1 DEF NeverOlder, StoreHasData
\* Nobody gets anything.
<1>b. ASSUME UNCHANGED <<req, data>>,
             \A q \in Openers : pc'[q] = "store" => pc[q] = "store"
      PROVE  Goal
  BY <1>b DEF NeverOlder, StoreHasData
<1>1. ASSUME NEW p \in Paths, Rewrite(p) PROVE Goal
  BY <1>1, <1>b DEF Rewrite
<1>2. ASSUME NEW o \in Openers, NEW p \in Paths, Open(o, p) PROVE Goal
  BY <1>2, <1>a DEF Open, Goto, TypeOK
<1>3. ASSUME NEW o \in Openers, Hit(o) PROVE Goal
  BY <1>3, <1>a, MatchIsFresh DEF Hit, Goto, TypeOK
<1>4. ASSUME NEW o \in Openers, Join(o) \/ StartLoad(o) \/ EvictDone(o) PROVE Goal
  BY <1>4, <1>b DEF Join, StartLoad, EvictDone, Goto, TypeOK
<1>5. ASSUME NEW o \in Openers, ReadFile(o) PROVE Goal
  <2>1. PICK v \in ReadResults(o) : Get(o, v) /\ Goto(o, IF v = Nil THEN "fail" ELSE "store")
    BY <1>5 DEF ReadFile
  <2>2. v # Nil => v >= req[o].mtime
    BY ReadIsFresh
  <2> QED
    BY <1>5, <2>1, <2>2, <1>a DEF ReadFile, Goto, TypeOK
<1>6. ASSUME NEW o \in Openers, FailLoad(o) PROVE Goal
  BY <1>6, <1>b DEF FailLoad, EndLoad
<1>7. ASSUME NEW o \in Openers, Store(o) PROVE Goal
  <2>1. pc'[o] # "store" /\ \A q \in Openers : pc'[q] = "store" => pc[q] = "store"
    BY <1>7 DEF Store, EndLoad
  <2>2. CASE Matches(o)
    BY <1>7, <2>1, <2>2, <1>a, MatchIsFresh DEF Store
  <2>3. CASE ~Matches(o)
    BY <1>7, <2>1, <2>3, <1>b DEF Store
  <2> QED
    BY <2>2, <2>3
<1>8. ASSUME NEW o \in Openers, Evict(o) PROVE Goal
  BY <1>8, <1>b DEF Evict
<1>9. ASSUME NEW o \in Openers, Recheck(o) PROVE Goal
  <2>1. CASE Matches(o)
    BY <1>9, <2>1, <1>a, MatchIsFresh DEF Recheck, Goto, TypeOK
  <2>2. CASE ~Matches(o)
    BY <1>9, <2>2, <1>b DEF Recheck, Goto, TypeOK
  <2> QED
    BY <2>1, <2>2
<1>10. ASSUME NEW o \in Openers, Fallback(o) PROVE Goal
  <2>1. PICK v \in ReadResults(o) : Get(o, v)
    BY <1>10 DEF Fallback
  <2>2. v # Nil => v >= req[o].mtime
    BY ReadIsFresh
  <2> QED
    BY <1>10, <2>1, <2>2, <1>a DEF Fallback, Goto, TypeOK
<1>11. ASSUME NEW o \in Openers, Return(o) PROVE Goal
  BY <1>11, <1>a DEF Return, Goto, TypeOK
<1>12. CASE UNCHANGED vars
  BY <1>12, <1>b DEF vars
<1> QED
  BY <1>1, <1>2, <1>3, <1>4, <1>5, <1>6, <1>7, <1>8, <1>9, <1>10, <1>11, <1>12
  DEF Next, Load
------------------------------------------------------------------------------
(* One loader for a path *)

Flight == SingleFlight /\ LoadingHasLoader /\ WaitsForLoading

\* A step that starts and ends no load.
LEMMA FlightKept ==
    ASSUME Flight, loading' = loading,
           \A q \in Openers : Loads(q)' <=> Loads(q),
           \A q \in Openers : Loads(q) => req'[q] = req[q] /\ (Matches(q)' => Matches(q)),
           \A q \in Openers : pc'[q] = "wait" => req'[q].path \in loading
    PROVE  Flight'
<1>1. SingleFlight'
  BY DEF Flight, SingleFlight
<1>2. LoadingHasLoader'
  BY DEF Flight, LoadingHasLoader
<1>3. WaitsForLoading'
  BY DEF Flight, WaitsForLoading
<1> QED
  BY <1>1, <1>2, <1>3 DEF Flight

\* Opener o, which loads nothing, goes on and loads nothing; entries keep their
\* keys or go.
LEMMA FlightOther ==
    ASSUME TypeOK, Flight, loading' = loading, NEW o \in Openers,
           ~Loads(o), ~Loads(o)', pc'[o] = "wait" => req'[o].path \in loading,
           \A q \in Openers : q # o => pc'[q] = pc[q] /\ req'[q] = req[q],
           \A p \in DOMAIN fileCache' :
               /\ p \in DOMAIN fileCache
               /\ fileCache'[p].size = fileCache[p].size
               /\ fileCache'[p].mtime = fileCache[p].mtime
    PROVE  Flight'
<1>1. \A q \in Openers : Loads(q)' <=> Loads(q)
  BY DEF Loads
<1>2. ASSUME NEW q \in Openers, Loads(q)
      PROVE  req'[q] = req[q] /\ (Matches(q)' => Matches(q))
  <2>1. q # o /\ req'[q] = req[q]
    BY <1>2
  <2> QED
    BY <2>1 DEF Matches
<1>3. \A q \in Openers : pc'[q] = "wait" => req'[q].path \in loading
  BY DEF Flight, WaitsForLoading
<1> QED
  BY <1>1, <1>2, <1>3, FlightKept

\* The load of o ends; of the entries only that of its path changes.
LEMMA FlightEnds ==
    ASSUME TypeOK, Flight, NEW o \in Openers, Loads(o), req' = req,
           NEW l \in {"fallback", "return", "evict"}, EndLoad(o, l),
           \A p \in Paths : p # req[o].path =>
               /\ p \in DOMAIN fileCache' <=> p \in DOMAIN fileCache
               /\ p \in DOMAIN fileCache' => fileCache'[p] = fileCache[p]
    PROVE  Flight'
<1>1. ~Loads(o)' /\ pc'[o] # "wait"
  BY DEF EndLoad, Loads
<1>2. \A q \in Openers : q # o => (Loads(q)' <=> Loads(q))
  BY DEF EndLoad, Loads
<1>3. ASSUME NEW q \in Openers, Loads(q)'
      PROVE  Loads(q) /\ req[q].path # req[o].path
  BY <1>1, <1>2, <1>3 DEF Flight, SingleFlight
<1>4. ASSUME NEW q \in Openers, Loads(q)'
      PROVE  req'[q].path \in loading' /\ ~Matches(q)'
  <2>1. Loads(q) /\ req[q].path # req[o].path /\ req[q].path \in Paths
    BY <1>3, <1>4 DEF TypeOK
  <2>2. req[q].path \in loading /\ ~Matches(q)
    BY <2>1 DEF Flight, SingleFlight
  <2> QED
    BY <2>1, <2>2 DEF EndLoad, Matches
<1>5. SingleFlight'
  BY <1>3, <1>4 DEF Flight, SingleFlight
<1>6. LoadingHasLoader'
  <2>1. ASSUME NEW p \in loading' PROVE \E q \in Openers : Loads(q)' /\ req'[q].path = p
    <3>1. p \in loading /\ p # req[o].path
      BY <2>1 DEF EndLoad
    <3>2. PICK q \in Openers : Loads(q) /\ req[q].path = p
      BY <3>1 DEF Flight, LoadingHasLoader
    <3> QED
      BY <1>2, <3>1, <3>2
  <2> QED
    BY <2>1 DEF LoadingHasLoader
<1>7. WaitsForLoading'
  <2>1. ASSUME NEW q \in Openers, pc'[q] = "wait" PROVE req'[q].path \in loading'
    <3>1. q # o /\ pc[q] = "wait" /\ req[q].path # req[o].path
      BY <1>1, <2>1 DEF EndLoad
    <3> QED
      BY <3>1 DEF EndLoad, Flight, WaitsForLoading
  <2> QED
    BY <2>1 DEF WaitsForLoading
<1> QED
  BY <1>5, <1>6, <1>7 DEF Flight

\* A load starts for a path that nobody loads.
LEMMA FlightStarts ==
    ASSUME TypeOK, Flight, NEW o \in Openers, StartLoad(o)
    PROVE  Flight'
<1>1. /\ req' = req /\ fileCache' = fileCache /\ ~Matches(o)
      /\ loading' = loading \cup {req[o].path} /\ req[o].path \notin loading
      /\ pc[o] = "lookup" /\ pc' = [pc EXCEPT ![o] = "read"]
  BY DEF StartLoad, BeingLoaded, Goto
<1>2. Loads(o)' /\ ~Loads(o) /\ \A q \in Openers : q # o => (Loads(q)' <=> Loads(q))
  BY <1>1 DEF Loads, TypeOK
<1>3. \A q \in Openers : Matches(q)' <=> Matches(q)
  BY <1>1 DEF Matches
<1>4. \A q \in Openers : Loads(q) => req[q].path # req[o].path
  BY <1>1 DEF Flight, SingleFlight
<1>5. SingleFlight'
  BY <1>1, <1>2, <1>3, <1>4 DEF Flight, SingleFlight
<1>6. LoadingHasLoader'
  <2>1. ASSUME NEW p \in loading' PROVE \E q \in Openers : Loads(q)' /\ req'[q].path = p
    <3>1. CASE p = req[o].path
      BY <1>1, <1>2, <3>1
    <3>2. CASE p \in loading
      <4>1. PICK q \in Openers : Loads(q) /\ req[q].path = p
        BY <3>2 DEF Flight, LoadingHasLoader
      <4> QED
        BY <1>1, <1>2, <4>1
    <3> QED
      BY <1>1, <3>1, <3>2
  <2> QED
    BY <2>1 DEF LoadingHasLoader
<1>7. WaitsForLoading'
  BY <1>1 DEF Flight, WaitsForLoading, TypeOK
<1> QED
  BY <1>5, <1>6, <1>7 DEF Flight

LEMMA FlightStep == Inv /\ [Next]_vars => Flight'
<1> SUFFICES ASSUME TypeOK, Flight, [Next]_vars
             PROVE  Flight'
  BY DEF Inv, Flight
<1>1. ASSUME NEW p \in Paths, Rewrite(p) PROVE Flight'
  <2>1. UNCHANGED <<fileCache, loading, pc, req>>
    BY <1>1 DEF Rewrite
  <2> QED
    BY <2>1, FlightKept DEF Loads, Matches, Flight, WaitsForLoading
<1>2. ASSUME NEW o \in Openers, NEW p \in Paths, Open(o, p) PROVE Flight'
  BY <1>2, FlightOther DEF Open, Goto, Loads, TypeOK
<1>3. ASSUME NEW o \in Openers, Hit(o) PROVE Flight'
  <2>1. fileCache[req[o].path] \in Entry /\ req[o].path \in DOMAIN fileCache
    BY <1>3 DEF Hit, Matches, TypeOK
  <2>2. \A p \in DOMAIN fileCache' :
               /\ p \in DOMAIN fileCache
               /\ fileCache'[p].size = fileCache[p].size
               /\ fileCache'[p].mtime = fileCache[p].mtime
    BY <1>3, <2>1 DEF Hit, With, Entry
  <2> QED
    BY <1>3, <2>2, FlightOther DEF Hit, Goto, Loads, TypeOK
<1>4. ASSUME NEW o \in Openers, Join(o) PROVE Flight'
  BY <1>4, FlightOther DEF Join, BeingLoaded, Goto, Loads, TypeOK
<1>5. ASSUME NEW o \in Openers, StartLoad(o) PROVE Flight'
  BY <1>5, FlightStarts
<1>6. ASSUME NEW o \in Openers, ReadFile(o) PROVE Flight'
  <2>1. UNCHANGED <<fileCache, loading, req>> /\ pc[o] = "read"
        /\ pc'[o] \in {"fail", "store"} /\ \A q \in Openers : q # o => pc'[q] = pc[q]
    BY <1>6 DEF ReadFile, Goto, TypeOK
  <2> QED
    BY <2>1, FlightKept DEF Loads, Matches, Flight, WaitsForLoading
<1>7. ASSUME NEW o \in Openers, FailLoad(o) PROVE Flight'
  BY <1>7, FlightEnds DEF FailLoad, Loads
<1>8. ASSUME NEW o \in Openers, Store(o) PROVE Flight'
  <2>1. Loads(o) /\ ~Matches(o)
    BY <1>8 DEF Store, Loads, Flight, SingleFlight
  <2> QED
    BY <1>8, <2>1, FlightEnds DEF Store, With
<1>9. ASSUME NEW o \in Openers, Evict(o) PROVE Flight'
  <2>1. pc[o] = "evict" /\ UNCHANGED <<pc, req, loading>>
    BY <1>9 DEF Evict
  <2> QED
    BY <1>9, <2>1, FlightOther DEF Evict, Without, Loads
<1>10. ASSUME NEW o \in Openers, EvictDone(o) PROVE Flight'
  BY <1>10, FlightOther DEF EvictDone, Goto, Loads, TypeOK
<1>11. ASSUME NEW o \in Openers, Recheck(o) PROVE Flight'
  BY <1>11, FlightOther DEF Recheck, Goto, Loads, TypeOK
<1>12. ASSUME NEW o \in Openers, Fallback(o) PROVE Flight'
  BY <1>12, FlightOther DEF Fallback, Goto, Loads, TypeOK
<1>13. ASSUME NEW o \in Openers, Return(o) PROVE Flight'
  BY <1>13, FlightOther DEF Return, Goto, Loads, TypeOK
<1>14. CASE UNCHANGED vars
  <2>1. UNCHANGED <<fileCache, loading, pc, req>>
    BY <1>14 DEF vars
  <2> QED
    BY <2>1, FlightKept DEF Loads, Matches, Flight, WaitsForLoading
<1> QED
  BY <1>1, <1>2, <1>3, <1>4, <1>5, <1>6, <1>7, <1>8, <1>9, <1>10, <1>11, <1>12,
     <1>13, <1>14 DEF Next, Load
------------------------------------------------------------------------------
(* The theorems *)

LEMMA InitInv == Init => Inv
<1> SUFFICES ASSUME Init PROVE Inv
  OBVIOUS
<1>1. PICK sz \in InitialSizes : disk = [p \in Paths |-> [size |-> sz[p], mtime |-> 1]]
  BY DEF Init
<1>2. \A p \in Paths : sz[p] \in Nat \ {0}
  BY FileCacheAssumption DEF InitialSizes
<1>3. disk \in [Paths -> [size : Nat \ {0}, mtime : Nat \ {0}]]
  BY <1>1, <1>2
<1>4. DOMAIN fileCache = {}
  BY DEF Init
<1>5. TypeOK
  BY <1>3, <1>4, NoRequestType DEF Init, TypeOK, Nil
<1>6. NoRequest.path \in Paths /\ NoRequest.mtime = 0
  BY NoRequestType DEF NoRequest
<1>7. Monotone
  <2>1. \A p \in Paths : 0 <= disk[p].mtime
    BY <1>3
  <2> QED
    BY <1>4, <1>6, <2>1 DEF Init, Monotone
<1> QED
  BY <1>4, <1>5, <1>7 DEF Init, Inv, NeverOlder, SingleFlight, LoadingHasLoader,
                       WaitsForLoading, StoreHasData, Loads, Nil

LEMMA Inductive == Inv /\ [Next]_vars => Inv'
  BY TypeStep, MonotoneStep, NeverOlderStep, FlightStep DEF Inv, Flight

\* The invariant the following rest on.
THEOREM Invariance == Spec => []Inv
  BY InitInv, Inductive, PTL DEF Spec

\* An opener never gets bytes that are older than the file it stat'ed, whether it
\* read them, found them in the cache or waited for another opener.
THEOREM FreshBytes == Spec => []NeverOlder
<1>1. Inv => NeverOlder
  BY DEF Inv
<1> QED
  BY Invariance, <1>1, PTL

\* A path is loaded by one opener at a time, and never while what it loads is
\* cached: the re-check that follows a load in loadCachedFileData is never needed.
THEOREM OneLoader == Spec => []SingleFlight
<1>1. Inv => SingleFlight
  BY DEF Inv
<1> QED
  BY Invariance, <1>1, PTL

\* Nobody waits for a load that is not under way: a failed load wakes its waiters
\* like a successful one.
THEOREM NoLostWakeup == Spec => []WaitersHaveLoader
<1>1. Inv => WaitersHaveLoader
  BY DEF Inv, WaitsForLoading, LoadingHasLoader, WaitersHaveLoader
<1> QED
  BY Invariance, <1>1, PTL
------------------------------------------------------------------------------
(* The budget *)

\* The sizes of the entries.
Bytes == [p \in DOMAIN fileCache |-> fileCache[p].size]

\* CachedBytes is the sum of the sizes.
LEMMA CachedBytesIs ==
    IsFiniteSet(DOMAIN fileCache)
        => \E it : IsSum(it, Bytes, DOMAIN fileCache) /\ CachedBytes = it[DOMAIN fileCache]
<1> SUFFICES ASSUME IsFiniteSet(DOMAIN fileCache)
             PROVE  \E it : IsSum(it, Bytes, DOMAIN fileCache)
                            /\ CachedBytes = it[DOMAIN fileCache]
  OBVIOUS
<1> DEFINE S == DOMAIN fileCache
           Sum(it) == it = [s \in SUBSET S |->
                IF s = {} THEN 0
                ELSE fileCache[CHOOSE x \in s : TRUE].size + it[s \ {CHOOSE x \in s : TRUE}]]
<1>1. PICK it : IsSum(it, Bytes, S)
  BY SumExists
<1>2. \A jt : Sum(jt) <=> IsSum(jt, Bytes, S)
  <2>1. \A s \in SUBSET S : s # {} => Bytes[Chosen(s)] = fileCache[CHOOSE x \in s : TRUE].size
    BY ChosenIn DEF Bytes, Chosen
  <2> TAKE jt
  <2>2. [s \in SUBSET S |-> IF s = {} THEN 0
                ELSE fileCache[CHOOSE x \in s : TRUE].size + jt[s \ {CHOOSE x \in s : TRUE}]]
        = [s \in SUBSET S |-> IF s = {} THEN 0 ELSE Bytes[Chosen(s)] + jt[s \ {Chosen(s)}]]
    BY <2>1 DEF Chosen
  <2> QED
    BY <2>2 DEF IsSum
<1> DEFINE best == CHOOSE jt : Sum(jt)
<1> HIDE DEF Sum
<1>3. IsSum(best, Bytes, S)
  BY <1>1, <1>2
<1>4. CachedBytes = best[S]
  BY DEF CachedBytes, MapThenSumSet, MapThenFoldSet, Sum
<1> QED
  BY <1>3, <1>4

LEMMA CachedBytesIsNext ==
    IsFiniteSet(DOMAIN fileCache')
        => \E it : IsSum(it, Bytes', DOMAIN fileCache') /\ CachedBytes' = it[DOMAIN fileCache']
<1>1. (IsFiniteSet(DOMAIN fileCache)
        => \E it : IsSum(it, Bytes, DOMAIN fileCache) /\ CachedBytes = it[DOMAIN fileCache])'
  BY CachedBytesIs, PTL
<1> QED
  BY <1>1

\* The sum of the sizes is a number, and 0 when nothing is cached.
LEMMA CachedBytesType ==
    ASSUME TypeOK, IsFiniteSet(DOMAIN fileCache)
    PROVE  CachedBytes \in Nat /\ (DOMAIN fileCache = {} => CachedBytes = 0)
<1>1. PICK it : IsSum(it, Bytes, DOMAIN fileCache) /\ CachedBytes = it[DOMAIN fileCache]
  BY CachedBytesIs
<1>2. \A x \in DOMAIN fileCache : Bytes[x] \in Nat
  BY DEF Bytes, TypeOK, Entry
<1>3. it[{}] = 0 /\ it[DOMAIN fileCache] \in Nat
  BY <1>1, <1>2, SumType
<1> QED
  BY <1>1, <1>3

\* The sum stays as it is when no size changes.
LEMMA SizesKept ==
    ASSUME IsFiniteSet(DOMAIN fileCache), DOMAIN fileCache' = DOMAIN fileCache,
           \A q \in DOMAIN fileCache : fileCache'[q].size = fileCache[q].size
    PROVE  CachedBytes' = CachedBytes
<1>1. PICK it : IsSum(it, Bytes, DOMAIN fileCache) /\ CachedBytes = it[DOMAIN fileCache]
  BY CachedBytesIs
<1>2. PICK jt : IsSum(jt, Bytes', DOMAIN fileCache') /\ CachedBytes' = jt[DOMAIN fileCache']
  BY CachedBytesIsNext
<1>3. PICK D : D = DOMAIN fileCache
  OBVIOUS
<1>4. PICK f, g : f = Bytes /\ g = Bytes'
  OBVIOUS
<1>5. \A x \in D : f[x] = g[x]
  BY <1>3, <1>4 DEF Bytes
<1>6. IsFiniteSet(D) /\ IsSum(it, f, D) /\ IsSum(jt, g, D)
  BY <1>1, <1>2, <1>3, <1>4
<1>7. it[D] = jt[D]
  BY <1>5, <1>6, SumSame
<1> QED
  BY <1>1, <1>2, <1>3, <1>7

\* An entry that is set adds its size at most.
LEMMA SetEntryBytes ==
    ASSUME TypeOK, IsFiniteSet(DOMAIN fileCache), NEW p, NEW e \in Entry, fileCache' = With(p, e)
    PROVE  /\ IsFiniteSet(DOMAIN fileCache')
           /\ CachedBytes' \in Nat /\ CachedBytes' <= CachedBytes + e.size
<1>1. PICK it : IsSum(it, Bytes, DOMAIN fileCache) /\ CachedBytes = it[DOMAIN fileCache]
  BY CachedBytesIs
<1>2. PICK D : D = DOMAIN fileCache
  OBVIOUS
<1>3. PICK f, g : f = Bytes /\ g = Bytes'
  OBVIOUS
<1>4. DOMAIN fileCache' = D \cup {p}
  BY <1>2 DEF With
<1>5. IsFiniteSet(D) /\ IsFiniteSet(D \cup {p}) /\ IsFiniteSet(D \ {p})
  BY <1>2, FS_AddElement, FS_RemoveElement
<1>6. PICK jt : IsSum(jt, g, D \cup {p}) /\ CachedBytes' = jt[D \cup {p}]
  BY <1>3, <1>4, <1>5, CachedBytesIsNext
<1>7. e.size \in Nat /\ \A x \in D : f[x] \in Nat
  BY <1>2, <1>3 DEF Bytes, TypeOK, Entry
<1>8. /\ \A x \in D \ {p} : g[x] = f[x]
      /\ g[p] = e.size
  BY <1>2, <1>3 DEF Bytes, With
<1>9. \A x \in D \cup {p} : g[x] \in Nat
  BY <1>7, <1>8
<1>10. jt[D \cup {p}] \in Nat /\ jt[D \cup {p}] = g[p] + jt[(D \cup {p}) \ {p}]
  <2>1. D \cup {p} \in SUBSET (D \cup {p}) /\ p \in D \cup {p}
    OBVIOUS
  <2>2. jt[D \cup {p}] \in Nat
    BY <1>5, <1>6, <1>9, <2>1, SumType
  <2>3. jt[D \cup {p}] = g[p] + jt[(D \cup {p}) \ {p}]
    <3>1. PICK T : T = D \cup {p}
      OBVIOUS
    <3>2. IsFiniteSet(T) /\ IsSum(jt, g, T) /\ T \in SUBSET T /\ p \in T
      BY <1>5, <1>6, <2>1, <3>1
    <3>3. \A x \in T : g[x] \in Nat
      BY <1>9, <3>1
    <3>4. jt[T] = g[p] + jt[T \ {p}]
      BY <3>2, <3>3, SumRemove
    <3> QED
      BY <3>1, <3>4
  <2> QED
    BY <2>2, <2>3
<1>11. (D \cup {p}) \ {p} = D \ {p}
  OBVIOUS
<1>12. jt[D \ {p}] = it[D \ {p}]
  <2>1. IsSum(it, f, D)
    BY <1>1, <1>2, <1>3
  <2>2. D \ {p} \subseteq D /\ D \ {p} \subseteq D \cup {p}
    OBVIOUS
  <2>3. it[D \ {p}] = jt[D \ {p}]
    BY <1>5, <1>6, <1>8, <2>1, <2>2, SumSame
  <2> QED
    BY <2>3
<1>13. it[D] \in Nat /\ it[D \ {p}] \in Nat /\ it[D \ {p}] <= it[D]
  <2>1. IsSum(it, f, D)
    BY <1>1, <1>2, <1>3
  <2>2. it[D] \in Nat /\ it[D \ {p}] \in Nat
    <3>1. D \in SUBSET D /\ D \ {p} \in SUBSET D
      OBVIOUS
    <3> QED
      BY <1>5, <1>7, <2>1, <3>1, SumType
  <2>3. CASE p \in D
    <3>1. D \in SUBSET D
      OBVIOUS
    <3>2. it[D] = f[p] + it[D \ {p}]
      BY <1>5, <1>7, <2>1, <2>3, <3>1, SumRemove
    <3> QED
      BY <1>7, <2>2, <2>3, <3>2
  <2>4. CASE p \notin D
    <3>1. D \ {p} = D
      BY <2>4
    <3>2. it[D \ {p}] = it[D]
      BY <3>1
    <3> QED
      BY <2>2, <3>2
  <2> QED
    BY <2>3, <2>4
<1>14. CachedBytes' = e.size + it[D \ {p}] /\ CachedBytes = it[D]
  BY <1>1, <1>2, <1>6, <1>8, <1>10, <1>11, <1>12
<1> QED
  BY <1>4, <1>5, <1>7, <1>13, <1>14

\* An entry that is deleted takes its size away.
LEMMA DeleteEntryBytes ==
    ASSUME TypeOK, IsFiniteSet(DOMAIN fileCache), NEW p \in DOMAIN fileCache,
           fileCache' = Without(p)
    PROVE  /\ IsFiniteSet(DOMAIN fileCache')
           /\ CachedBytes \in Nat /\ CachedBytes' \in Nat /\ fileCache[p].size \in Nat
           /\ CachedBytes = fileCache[p].size + CachedBytes'
<1>1. PICK it : IsSum(it, Bytes, DOMAIN fileCache) /\ CachedBytes = it[DOMAIN fileCache]
  BY CachedBytesIs
<1>2. PICK D : D = DOMAIN fileCache
  OBVIOUS
<1>3. PICK f, g : f = Bytes /\ g = Bytes'
  OBVIOUS
<1>4. DOMAIN fileCache' = D \ {p} /\ p \in D
  BY <1>2 DEF Without
<1>5. IsFiniteSet(D) /\ IsFiniteSet(D \ {p})
  BY <1>2, FS_RemoveElement
<1>6. PICK jt : IsSum(jt, g, D \ {p}) /\ CachedBytes' = jt[D \ {p}]
  BY <1>3, <1>4, <1>5, CachedBytesIsNext
<1>7. f[p] = fileCache[p].size /\ \A x \in D : f[x] \in Nat
  BY <1>2, <1>3 DEF Bytes, TypeOK, Entry
<1>8. \A x \in D \ {p} : f[x] = g[x]
  BY <1>2, <1>3 DEF Bytes, Without
<1>9. IsSum(it, f, D)
  BY <1>1, <1>2, <1>3
<1>10. it[D \ {p}] = jt[D \ {p}]
  <2>1. D \ {p} \subseteq D
    OBVIOUS
  <2> QED
    BY <1>5, <1>6, <1>8, <1>9, <2>1, SumSame
<1>11. it[D] \in Nat /\ it[D \ {p}] \in Nat /\ it[D] = f[p] + it[D \ {p}]
  <2>1. D \ {p} \in SUBSET D /\ D \in SUBSET D
    OBVIOUS
  <2>2. it[D] \in Nat /\ it[D \ {p}] \in Nat
    BY <1>5, <1>7, <1>9, <2>1, SumType
  <2>3. it[D] = f[p] + it[D \ {p}]
    BY <1>4, <1>5, <1>7, <1>9, <2>1, SumRemove
  <2> QED
    BY <2>2, <2>3
<1> QED
  BY <1>1, <1>2, <1>4, <1>5, <1>6, <1>7, <1>10, <1>11

\* The counter covers the entries, and is within the budget, or nothing is cached,
\* whenever the mutex is free.  The counter may stay above the budget for ever: the
\* size of an entry that was replaced is never subtracted.
BudgetInv ==
    /\ IsFiniteSet(DOMAIN fileCache)
    /\ CachedBytes <= fileCacheBytes
    /\ mu = Free => fileCacheBytes <= MaxBytes \/ DOMAIN fileCache = {}

LEMMA InitBudget == Init => BudgetInv
<1> SUFFICES ASSUME Init PROVE BudgetInv
  OBVIOUS
<1>1. DOMAIN fileCache = {} /\ fileCacheBytes = 0
  BY DEF Init
<1>2. IsFiniteSet(DOMAIN fileCache)
  BY <1>1, FS_EmptySet
<1>3. CachedBytes = 0
  BY <1>1, <1>2, InitInv, CachedBytesType DEF Inv
<1> QED
  BY <1>1, <1>2, <1>3 DEF BudgetInv

LEMMA NextBudget == Inv /\ BudgetInv /\ [Next]_vars => BudgetInv'
<1> SUFFICES ASSUME TypeOK, Inv, BudgetInv, [Next]_vars PROVE BudgetInv'
  BY DEF Inv
<1>0. /\ IsFiniteSet(DOMAIN fileCache) /\ CachedBytes \in Nat /\ fileCacheBytes \in Int
      /\ CachedBytes <= fileCacheBytes
      /\ mu = Free => fileCacheBytes <= MaxBytes \/ DOMAIN fileCache = {}
      /\ MaxBytes \in Nat
  BY CachedBytesType, FileCacheAssumption DEF BudgetInv, TypeOK
<1>1. ASSUME fileCache' = fileCache, fileCacheBytes' = fileCacheBytes, mu' = mu
      PROVE  BudgetInv'
  <2>1. CachedBytes' = CachedBytes
    BY <1>0, <1>1, SizesKept
  <2> QED
    BY <1>0, <1>1, <2>1 DEF BudgetInv
\* Using an entry changes when it was last used, and no size.
<1>2. ASSUME NEW o \in Openers, Matches(o), fileCacheBytes' = fileCacheBytes, mu' = mu,
             fileCache' = With(req[o].path,
                               [fileCache[req[o].path] EXCEPT !.lastUsed = req[o].now])
      PROVE  BudgetInv'
  <2>1. req[o].path \in DOMAIN fileCache /\ fileCache[req[o].path] \in Entry
    BY <1>2, MatchIsFresh, StampType DEF Matches, TypeOK
  <2>2. [fileCache[req[o].path] EXCEPT !.lastUsed = req[o].now].size = fileCache[req[o].path].size
    BY <2>1 DEF Entry
  <2>3. DOMAIN fileCache' = DOMAIN fileCache
    BY <1>2, <2>1 DEF With
  <2>4. \A q \in DOMAIN fileCache : fileCache'[q].size = fileCache[q].size
    BY <1>2, <2>1, <2>2 DEF With
  <2>5. CachedBytes' = CachedBytes
    BY <1>0, <2>3, <2>4, SizesKept
  <2> QED
    BY <1>0, <1>2, <2>3, <2>5 DEF BudgetInv
<1>3. ASSUME NEW p \in Paths, Rewrite(p) PROVE BudgetInv'
  BY <1>1, <1>3 DEF Rewrite
<1>4. ASSUME NEW o \in Openers, NEW p \in Paths, Open(o, p) PROVE BudgetInv'
  BY <1>1, <1>4 DEF Open
<1>5. ASSUME NEW o \in Openers, Hit(o) PROVE BudgetInv'
  BY <1>2, <1>5 DEF Hit
<1>6. ASSUME NEW o \in Openers, Join(o) \/ StartLoad(o) \/ ReadFile(o) \/ FailLoad(o)
                                \/ Recheck(o) \/ Fallback(o) \/ Return(o)
      PROVE  BudgetInv'
  BY <1>1, <1>6 DEF Join, StartLoad, ReadFile, FailLoad, Recheck, Fallback, Return
<1>7. ASSUME NEW o \in Openers, Store(o) PROVE BudgetInv'
  <2>1. CASE Matches(o)
    BY <1>2, <1>7, <2>1 DEF Store
  <2>2. CASE ~Matches(o)
    <3> DEFINE e == [ver |-> data[o], size |-> req[o].size, mtime |-> req[o].mtime,
                     lastUsed |-> req[o].now]
    <3>1. fileCache' = With(req[o].path, e) /\ fileCacheBytes' = fileCacheBytes + req[o].size
          /\ mu' = o
      BY <1>7, <2>2 DEF Store, BytesAfter
    <3>2. e \in Entry /\ e.size = req[o].size /\ req[o].size \in Nat
      <4>1. data[o] # Nil
        BY <1>7 DEF Inv, StoreHasData, Store
      <4>2. data[o] \in Nat \ {Nil} /\ req[o] \in [path : Paths, size : Nat, mtime : Nat, now : Nat]
        BY <4>1 DEF TypeOK
      <4> QED
        BY <4>2 DEF Entry
    <3> HIDE DEF e
    <3>3. /\ IsFiniteSet(DOMAIN fileCache')
          /\ CachedBytes' \in Nat /\ CachedBytes' <= CachedBytes + e.size
      BY <1>0, <3>1, <3>2, SetEntryBytes
    <3>4. mu' # Free
      BY <3>1, FileCacheAssumption
    <3>5. CachedBytes' <= fileCacheBytes'
      BY <1>0, <3>1, <3>2, <3>3
    <3> QED
      BY <3>3, <3>4, <3>5 DEF BudgetInv
  <2> QED
    BY <2>1, <2>2
<1>8. ASSUME NEW o \in Openers, Evict(o) PROVE BudgetInv'
  <2>1. PICK p \in DOMAIN fileCache : /\ fileCacheBytes' = fileCacheBytes - fileCache[p].size
                                      /\ fileCache' = Without(p)
    BY <1>8 DEF Evict
  <2>2. /\ IsFiniteSet(DOMAIN fileCache')
        /\ CachedBytes' \in Nat /\ fileCache[p].size \in Nat
        /\ CachedBytes = fileCache[p].size + CachedBytes'
    BY <1>0, <2>1, DeleteEntryBytes
  <2>3. mu # Free /\ mu' = mu
    BY <1>0, <1>8 DEF Evict, OverBudget
  <2>4. CachedBytes' <= fileCacheBytes'
    BY <1>0, <2>1, <2>2
  <2> QED
    BY <2>2, <2>3, <2>4 DEF BudgetInv
<1>9. ASSUME NEW o \in Openers, EvictDone(o) PROVE BudgetInv'
  <2>1. fileCache' = fileCache /\ fileCacheBytes' = fileCacheBytes
    BY <1>9 DEF EvictDone
  <2>2. fileCacheBytes <= MaxBytes \/ DOMAIN fileCache = {}
    BY <1>0, <1>9 DEF EvictDone, OverBudget
  <2>3. CachedBytes' = CachedBytes
    BY <1>0, <2>1, SizesKept
  <2> QED
    BY <1>0, <2>1, <2>2, <2>3 DEF BudgetInv
<1>10. CASE UNCHANGED vars
  BY <1>1, <1>10 DEF vars
<1> QED
  BY <1>3, <1>4, <1>5, <1>6, <1>7, <1>8, <1>9, <1>10 DEF Next, Load

\* Whatever is loaded, replaced and evicted by however many openers: the bytes cached
\* are within the budget whenever the mutex is free, and the counter never falls
\* behind the entries (evictCachedFilesLocked).
THEOREM BudgetKept == Spec => []WithinBudget
<1>1. Inv /\ BudgetInv => WithinBudget
  <2> SUFFICES ASSUME Inv, BudgetInv PROVE WithinBudget
    OBVIOUS
  <2>1. /\ CachedBytes \in Nat /\ (DOMAIN fileCache = {} => CachedBytes = 0)
        /\ fileCacheBytes \in Int /\ MaxBytes \in Nat
    BY CachedBytesType, FileCacheAssumption DEF Inv, BudgetInv, TypeOK
  <2> QED
    BY <2>1 DEF BudgetInv, WithinBudget
<1>2. Spec => []BudgetInv
  BY InitBudget, NextBudget, Invariance, PTL DEF Spec
<1> QED
  BY <1>1, <1>2, Invariance, PTL
==============================================================================
