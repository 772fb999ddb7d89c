------------------------------ MODULE FileCache ------------------------------
(***************************************************************************)
(* The cache of whole database files shared by all connections             *)
(* (src/internal/gomdb/filecache.go), as openMDBFromReader in file.go uses *)
(* it.                                                                     *)
(*                                                                         *)
(* Goroutines open files.  Each stats its file, looks the path up under    *)
(* fileCacheMu, and on a miss reads the file with the mutex released, while *)
(* others that want the same path wait for its channel to be closed.  The  *)
(* file may be rewritten in place at any time, and a read may fail.        *)
(*                                                                         *)
(* Atomicity: a critical section is one step, except that each round of    *)
(* the eviction loop is a step with the mutex held.  A file's content is   *)
(* its version, which grows with every rewrite; its mtime is the version   *)
(* too, so that a rewrite always changes it, and a read sees one version.  *)
(***************************************************************************)
EXTENDS Integers, FiniteSets, FiniteSetsExt

CONSTANTS
    Paths,      \* the files
    Openers,    \* goroutines that open files
    Sizes,      \* the sizes each file may have, a set for each path
    MaxBytes,   \* FileCacheMaxBytes, when the cache is enabled
    MaxVersion, \* bound: rewrites of a file
    MaxOpens,   \* bound: files opened
    Free        \* fileCacheMu is unlocked

ASSUME FileCacheAssumption ==
    /\ Paths # {}
    /\ Sizes \in [Paths -> SUBSET (Nat \ {0})]
    /\ MaxBytes \in Nat \ {0}
    /\ MaxVersion \in Nat /\ MaxOpens \in Nat
    /\ Free \notin Openers

VARIABLES
    disk,           \* the size and the version (its mtime) of every file
    fileCache,      \* the entries, a function on the cached paths
    fileCacheBytes,
    loading,        \* the keys of fileCacheLoading
    mu,             \* who holds fileCacheMu between steps
    pc,             \* where each opener stands
    req,            \* the path it opens, the size and mtime it saw, and now
    data,           \* the version of the bytes it has, Nil for none
    opens           \* files opened so far

vars == <<disk, fileCache, fileCacheBytes, loading, mu, pc, req, data, opens>>

Nil == 0
NoRequest == [path |-> CHOOSE p \in Paths : TRUE, size |-> 0, mtime |-> 0, now |-> 0]

Goto(o, l) == pc' = [pc EXCEPT ![o] = l]
Get(o, v) == data' = [data EXCEPT ![o] = v]

\* Fault: an entry is found by its path alone.
MatchesPath(o) == req[o].path \in DOMAIN fileCache

\* fileCache has an entry for the path, with the size and mtime of the request.
Matches(o) ==
    /\ req[o].path \in DOMAIN fileCache
    /\ fileCache[req[o].path].size = req[o].size
    /\ fileCache[req[o].path].mtime = req[o].mtime

\* What is cached after the entry of path p was set to e, and after it was deleted.
With(p, e) == [q \in DOMAIN fileCache \cup {p} |-> IF q = p THEN e ELSE fileCache[q]]

Without(p) == [q \in DOMAIN fileCache \ {p} |-> fileCache[q]]
------------------------------------------------------------------------------
(* The file system *)

\* Somebody rewrites a file in place.
Rewrite(p) ==
    /\ disk[p].mtime < MaxVersion
    /\ \E s \in Sizes[p] : disk' = [disk EXCEPT ![p] = [size |-> s, mtime |-> @.mtime + 1]]
    /\ UNCHANGED <<fileCache, fileCacheBytes, loading, mu, pc, req, data, opens>>

\* What readAllExact may return: the bytes of the file as it is now; nil if the
\* file has become too short, or the read fails.
ReadResults(o) ==
    IF disk[req[o].path].size >= req[o].size
    THEN {disk[req[o].path].mtime, Nil} ELSE {Nil}
------------------------------------------------------------------------------
(* loadCachedFileData *)

\* openMDBFromReader stats the file; loadCachedFileData reads the clock: the later
\* open sees the later time.
Open(o, p) ==
    /\ pc[o] = "idle" /\ opens < MaxOpens
    /\ opens' = opens + 1
    /\ req' = [req EXCEPT ![o] = [path |-> p, size |-> disk[p].size,
                                  mtime |-> disk[p].mtime, now |-> opens']]
    /\ Get(o, Nil)
    /\ Goto(o, "lookup")
    /\ UNCHANGED <<disk, fileCache, fileCacheBytes, loading, mu>>

\* The entry is used.
Hit(o) ==
    /\ pc[o] = "lookup" /\ mu = Free
    /\ Matches(o)
    /\ LET p == req[o].path IN
        /\ fileCache' = With(p, [fileCache[p] EXCEPT !.lastUsed = req[o].now])
        /\ Get(o, fileCache[p].ver)
    /\ Goto(o, "return")
    /\ UNCHANGED <<disk, fileCacheBytes, loading, mu, req, opens>>

\* Fault: nobody looks whether the file is being loaded.
LoadIgnored(o) == FALSE

\* Somebody is loading the path of the request.
BeingLoaded(o) == req[o].path \in loading

Join(o) ==
    /\ pc[o] = "lookup" /\ mu = Free
    /\ ~Matches(o) /\ BeingLoaded(o)
    /\ Goto(o, "wait")
    /\ UNCHANGED <<disk, fileCache, fileCacheBytes, loading, mu, req, data, opens>>

StartLoad(o) ==
    /\ pc[o] = "lookup" /\ mu = Free
    /\ ~Matches(o) /\ ~BeingLoaded(o)
    /\ loading' = loading \cup {req[o].path}
    /\ Goto(o, "read")
    /\ UNCHANGED <<disk, fileCache, fileCacheBytes, mu, req, data, opens>>

\* readAllExact, without the mutex.
ReadFile(o) ==
    /\ pc[o] = "read"
    /\ \E v \in ReadResults(o) : Get(o, v) /\ Goto(o, IF v = Nil THEN "fail" ELSE "store")
    /\ UNCHANGED <<disk, fileCache, fileCacheBytes, loading, mu, req, opens>>

\* Fault: the key is deleted and the channel is never closed.
EndLoadSilently(o, l) == loading' = loading \ {req[o].path} /\ Goto(o, l)

\* The load of o is over: the channel is closed, whoever waits on it looks again.
EndLoad(o, l) ==
    /\ loading' = loading \ {req[o].path}
    /\ pc' = [q \in Openers |->
                IF q = o THEN l
                ELSE IF pc[q] = "wait" /\ req[q].path = req[o].path THEN "recheck"
                ELSE pc[q]]

FailLoad(o) ==
    /\ pc[o] = "fail" /\ mu = Free
    /\ EndLoad(o, "fallback")
    /\ UNCHANGED <<disk, fileCache, fileCacheBytes, mu, req, data, opens>>

\* Fault: the entry is added and nothing is counted.
CountNothing(o) == fileCacheBytes

\* fileCacheBytes after the entry of o was added.  The size of an entry it
\* replaces, one for an older version of the file, is not subtracted.
BytesAfter(o) == fileCacheBytes + req[o].size

\* The bytes that were read are cached, unless an entry for them has appeared.
Store(o) ==
    /\ pc[o] = "store" /\ mu = Free
    /\ LET p == req[o].path IN
       IF Matches(o)
       THEN /\ fileCache' = With(p, [fileCache[p] EXCEPT !.lastUsed = req[o].now])
            /\ Get(o, fileCache[p].ver)
            /\ EndLoad(o, "return")
            /\ UNCHANGED <<fileCacheBytes, mu>>
       ELSE /\ fileCache' = With(p, [ver |-> data[o], size |-> req[o].size,
                                     mtime |-> req[o].mtime, lastUsed |-> req[o].now])
            /\ fileCacheBytes' = BytesAfter(o)
            /\ mu' = o
            /\ EndLoad(o, "evict")
            /\ UNCHANGED data
    /\ UNCHANGED <<disk, req, opens>>

\* Fault: eviction stops one byte late.
OverBudgetByOne == fileCacheBytes > MaxBytes + 1 /\ DOMAIN fileCache # {}

\* The condition of the loop of evictCachedFilesLocked.
OverBudget == fileCacheBytes > MaxBytes /\ DOMAIN fileCache # {}

\* One round: a least recently used entry goes.
Evict(o) ==
    /\ pc[o] = "evict"
    /\ OverBudget
    /\ \E p \in DOMAIN fileCache :
        /\ \A q \in DOMAIN fileCache : fileCache[p].lastUsed <= fileCache[q].lastUsed
        /\ fileCacheBytes' = fileCacheBytes - fileCache[p].size
        /\ fileCache' = Without(p)
    /\ UNCHANGED <<disk, loading, mu, pc, req, data, opens>>

EvictDone(o) ==
    /\ pc[o] = "evict"
    /\ ~OverBudget
    /\ mu' = Free
    /\ Goto(o, "return")
    /\ UNCHANGED <<disk, fileCache, fileCacheBytes, loading, req, data, opens>>

\* A waiter was woken up: it uses an entry that matches (without touching
\* lastUsed), and nothing otherwise.
Recheck(o) ==
    /\ pc[o] = "recheck" /\ mu = Free
    /\ IF Matches(o)
       THEN Get(o, fileCache[req[o].path].ver) /\ Goto(o, "return")
       ELSE Goto(o, "fallback") /\ UNCHANGED data
    /\ UNCHANGED <<disk, fileCache, fileCacheBytes, loading, mu, req, opens>>

\* openMDBFromReader got nil: it reads the file for itself; if that fails too, the
\* handle reads page by page from the file.
Fallback(o) ==
    /\ pc[o] = "fallback"
    /\ \E v \in ReadResults(o) : Get(o, v)
    /\ Goto(o, "return")
    /\ UNCHANGED <<disk, fileCache, fileCacheBytes, loading, mu, req, opens>>

\* openMDBFromReader has what it will serve pages from; its locals are gone.
Return(o) ==
    /\ pc[o] = "return"
    /\ Goto(o, "idle")
    /\ req' = [req EXCEPT ![o] = NoRequest]
    /\ Get(o, Nil)
    /\ UNCHANGED <<disk, fileCache, fileCacheBytes, loading, mu, opens>>

Load(o) ==
    \/ Hit(o) \/ Join(o) \/ StartLoad(o) \/ ReadFile(o) \/ FailLoad(o) \/ Store(o)
    \/ Evict(o) \/ EvictDone(o) \/ Recheck(o) \/ Fallback(o)
    \/ Return(o)
------------------------------------------------------------------------------
InitialSizes ==
    {sz \in [Paths -> UNION {Sizes[p] : p \in Paths}] : \A p \in Paths : sz[p] \in Sizes[p]}

Init ==
    /\ disk \in {[p \in Paths |-> [size |-> sz[p], mtime |-> 1]] : sz \in InitialSizes}
    /\ fileCache = <<>> /\ fileCacheBytes = 0
    /\ loading = {}
    /\ mu = Free
    /\ pc = [o \in Openers |-> "idle"]
    /\ req = [o \in Openers |-> NoRequest]
    /\ data = [o \in Openers |-> Nil]
    /\ opens = 0

Next ==
    \/ \E p \in Paths : Rewrite(p)
    \/ \E o \in Openers : Load(o) \/ \E p \in Paths : Open(o, p)

Spec == Init /\ [][Next]_vars

(* A goroutine that can go on and is not kept from it does so: the scheduler *)
(* is fair and reads return.  sync.Mutex gives more, it hands itself to a    *)
(* starving goroutine.  Nobody need open a file.                            *)
Fairness == \A o \in Openers : WF_vars(Load(o))

FairSpec == Spec /\ Fairness
------------------------------------------------------------------------------
(* Properties *)

\* The bytes of the entries.
CachedBytes == MapThenSumSet(LAMBDA p : fileCache[p].size, DOMAIN fileCache)

Entry == [ver : Nat \ {Nil}, size : Nat, mtime : Nat, lastUsed : Nat]

\* The types of the variables.
TypeOK ==
    /\ disk \in [Paths -> [size : Nat \ {0}, mtime : Nat \ {0}]]
    /\ DOMAIN fileCache \subseteq Paths
    /\ \A p \in DOMAIN fileCache : fileCache[p] \in Entry
    /\ fileCacheBytes \in Int
    /\ loading \subseteq Paths
    /\ mu \in Openers \cup {Free}
    /\ opens \in Nat
    /\ pc \in [Openers -> {"idle", "lookup", "wait", "recheck", "read", "fail",
                           "store", "evict", "fallback", "return"}]
    /\ req \in [Openers -> [path : Paths, size : Nat, mtime : Nat, now : Nat]]
    /\ data \in [Openers -> Nat]

\* Invalidation: the bytes an opener gets, whether it read them, found them
\* cached or waited for another opener, are not older than the file it
\* stat'ed.
NeverOlder ==
    \A o \in Openers : data[o] # Nil => data[o] >= req[o].mtime

\* Single flight: at most one opener reads a path into the cache, its path is in
\* fileCacheLoading all the time, and no entry for what it reads is there; so
\* Store never finds one.
Loads(o) == pc[o] \in {"read", "fail", "store"}
SingleFlight ==
    /\ \A o, q \in Openers :
          Loads(o) /\ Loads(q) /\ req[o].path = req[q].path => o = q
    /\ \A o \in Openers : Loads(o) => req[o].path \in loading /\ ~Matches(o)

\* Nobody waits for a channel that nobody will close.
WaitersHaveLoader ==
    \A o \in Openers : pc[o] = "wait" =>
        \E q \in Openers : Loads(q) /\ req[q].path = req[o].path

\* FileCacheMaxBytes bounds the bytes cached whenever the mutex is free, and the
\* counter never falls behind the entries, so it never becomes negative.
WithinBudget ==
    /\ CachedBytes <= fileCacheBytes
    /\ mu = Free => CachedBytes <= MaxBytes

\* Every open returns, whoever loads, fails or is evicted meanwhile.
OpenReturns == \A o \in Openers : pc[o] # "idle" ~> pc[o] = "idle"
==============================================================================
