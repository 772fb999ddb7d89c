---------------------------- MODULE SchemaCache ----------------------------
(***************************************************************************)
(* The caches of schemas that all handles of the process share: the        *)
(* catalogs of files (catalogCache in src/internal/gomdb/catalog.go) and   *)
(* the definitions of their tables (tableCache in tablecache.go).          *)
(*                                                                         *)
(* A handle stats its file, gets its bytes from the file cache (module     *)
(* FileCache, which promises bytes that are not older than the stat) and   *)
(* keeps them.  A query needs the catalog and then the definition of a     *)
(* table; each is looked up under a mutex, built from the bytes of the     *)
(* handle with the mutex released, and stored.                             *)
(*                                                                         *)
(* The size and mtime of a file are its version, as in FileCache.  Files   *)
(* too large to be kept in memory are left out: their pages change under   *)
(* the handle.                                                             *)
(***************************************************************************)
EXTENDS Integers, FiniteSets

CONSTANTS
    Handles,    \* the handles there can be at a time
    Paths,      \* the files
    Tables,     \* the names of tables
    Defines,    \* the tables that each version of a file has
    MaxFiles,   \* maxCatalogCacheEntries and maxTableCacheFiles, both 64
    MaxVersion, \* bound: versions of a file
    MaxOpens    \* bound: handles opened

ASSUME SchemaCacheAssumption ==
    /\ Paths # {}
    /\ Tables # {}
    /\ MaxFiles \in Nat \ {0} /\ MaxVersion \in Nat \ {0} /\ MaxOpens \in Nat
    /\ Defines \in [1..MaxVersion -> SUBSET Tables]
    /\ \A v \in 1..MaxVersion : Defines[v] # {}

VARIABLES
    disk,           \* the version of every file
    catalogCache,   \* a function on the cached paths
    tableCache,     \* a function on the cached paths
    pc,             \* where each handle stands
    path, key,      \* its file, and the version it stat'ed
    bytes,          \* the version it has in memory
    catalog,        \* the version that mdb.Catalog describes, None before it is read
    want,           \* the table of its query
    answer,         \* how its last query ended
    table,          \* the definition that query got
    opens,          \* handles opened so far
    loaded          \* history: the versions read under each path and key

cacheVars == <<catalogCache, tableCache>>
fileVars == <<path, key, bytes>>
queryVars == <<want, answer, table>>
vars == <<disk, cacheVars, pc, fileVars, catalog, queryVars, opens, loaded>>

Versions == 1..MaxVersion
None == 0

\* A definition is read from the page that an entry of the catalog names: the version of
\* the catalog and the version of the bytes.
Template == [entry : Versions, page : Versions]
NoTemplate == [entry |-> None, page |-> None]

\* The definitions of some of the tables.
Definitions == UNION {[T -> Template] : T \in SUBSET Tables}

Goto(h, l) == pc' = [pc EXCEPT ![h] = l]

\* f with the value v at x.
Put(f, x, v) == [y \in DOMAIN f \cup {x} |-> IF y = x THEN v ELSE f[y]]

Empty == [x \in {} |-> None]

\* All of a cache goes when it is full.
Room(cache) == IF Cardinality(DOMAIN cache) >= MaxFiles THEN Empty ELSE cache
------------------------------------------------------------------------------
(* Files and handles *)

Rewrite(p) ==
    /\ disk[p] < MaxVersion
    /\ disk' = [disk EXCEPT ![p] = @ + 1]
    /\ UNCHANGED <<cacheVars, pc, fileVars, catalog, queryVars, opens, loaded>>

\* OpenMDB stats the file ...
Open(h, p) ==
    /\ pc[h] = "closed" /\ opens < MaxOpens
    /\ opens' = opens + 1
    /\ path' = [path EXCEPT ![h] = p]
    /\ key' = [key EXCEPT ![h] = disk[p]]
    /\ Goto(h, "load")
    /\ UNCHANGED <<disk, cacheVars, bytes, catalog, queryVars, loaded>>

\* ... and gets its bytes.
Load(h) ==
    /\ pc[h] = "load"
    /\ \E v \in key[h]..disk[path[h]] :
        /\ bytes' = [bytes EXCEPT ![h] = v]
        /\ loaded' = loaded \cup {<<path[h], key[h], v>>}
    /\ Goto(h, "idle")
    /\ UNCHANGED <<disk, cacheVars, path, key, catalog, queryVars, opens>>

\* MdbHandle.Close.
Close(h) ==
    /\ pc[h] = "idle"
    /\ catalog' = [catalog EXCEPT ![h] = None]
    /\ answer' = [answer EXCEPT ![h] = "none"]
    /\ table' = [table EXCEPT ![h] = NoTemplate]
    /\ Goto(h, "closed")
    /\ UNCHANGED <<disk, cacheVars, fileVars, want, opens, loaded>>
------------------------------------------------------------------------------
(* A query *)

\* The query of h ends.
Answer(h, a, t) ==
    /\ answer' = [answer EXCEPT ![h] = a]
    /\ table' = [table EXCEPT ![h] = t]
    /\ Goto(h, "idle")

\* mdbExecute or DescribeTable; ReadCatalog is done if the handle has a catalog.
Query(h, t) ==
    /\ pc[h] = "idle"
    /\ want' = [want EXCEPT ![h] = t]
    /\ answer' = [answer EXCEPT ![h] = "none"]
    /\ table' = [table EXCEPT ![h] = NoTemplate]
    /\ Goto(h, IF catalog[h] = None THEN "catalog" ELSE "entry")
    /\ UNCHANGED <<disk, cacheVars, fileVars, catalog, opens, loaded>>

\* Fault: an entry is found by its path alone.
FoundByPath(h, cache) == path[h] \in DOMAIN cache

\* A cache has an entry for the path, size and mtime of the handle.
Found(h, cache) == path[h] \in DOMAIN cache /\ cache[path[h]].key = key[h]

CatalogHit(h) ==
    /\ pc[h] = "catalog"
    /\ Found(h, catalogCache)
    /\ catalog' = [catalog EXCEPT ![h] = catalogCache[path[h]].ver]
    /\ Goto(h, "entry")
    /\ UNCHANGED <<disk, cacheVars, fileVars, queryVars, opens, loaded>>

CatalogMiss(h) ==
    /\ pc[h] = "catalog"
    /\ ~Found(h, catalogCache)
    /\ Goto(h, "buildCatalog")
    /\ UNCHANGED <<disk, cacheVars, fileVars, catalog, queryVars, opens, loaded>>

\* buildCatalogEntries reads MSysObjects of the file the handle has.
Built(h) == {bytes[h]}

\* The catalog is stored, over an entry that another handle may have stored meanwhile.
StoreCatalog(h) ==
    /\ pc[h] = "buildCatalog"
    /\ \E v \in Built(h) :
        /\ catalogCache' = Put(Room(catalogCache), path[h], [key |-> key[h], ver |-> v])
        /\ catalog' = [catalog EXCEPT ![h] = v]
    /\ Goto(h, "entry")
    /\ UNCHANGED <<disk, tableCache, fileVars, queryVars, opens, loaded>>

\* ReadTableByName looks for the table in the catalog of the handle.
FindEntry(h) ==
    /\ pc[h] = "entry"
    /\ IF want[h] \in Defines[catalog[h]]
       THEN Goto(h, "table") /\ UNCHANGED <<answer, table>>
       ELSE Answer(h, "notFound", NoTemplate)
    /\ UNCHANGED <<disk, cacheVars, fileVars, catalog, want, opens, loaded>>

\* ListTables needs no more than the catalog.
ListTables(h) ==
    /\ pc[h] = "entry"
    /\ Answer(h, "listed", NoTemplate)
    /\ UNCHANGED <<disk, cacheVars, fileVars, catalog, want, opens, loaded>>

HasTable(h) == Found(h, tableCache) /\ want[h] \in DOMAIN tableCache[path[h]].tables

TableHit(h) ==
    /\ pc[h] = "table"
    /\ HasTable(h)
    /\ Answer(h, "table", tableCache[path[h]].tables[want[h]])
    /\ UNCHANGED <<disk, cacheVars, fileVars, catalog, want, opens, loaded>>

TableMiss(h) ==
    /\ pc[h] = "table"
    /\ ~HasTable(h)
    /\ Goto(h, "buildTable")
    /\ UNCHANGED <<disk, cacheVars, fileVars, catalog, queryVars, opens, loaded>>

\* Fault: an entry for another version of the file is extended too.
ExtendsAny(h) == path[h] \in DOMAIN tableCache

\* The entry of the file takes one more definition; otherwise a new entry is made.
Extends(h) == Found(h, tableCache)

\* loadTableTemplate, and its result is stored.
StoreTable(h) ==
    LET t == [entry |-> catalog[h], page |-> bytes[h]]
        new == [key |-> key[h], tables |-> Put(Empty, want[h], t)]
    IN
    /\ pc[h] = "buildTable"
    /\ tableCache' =
         IF Extends(h)
         THEN [tableCache EXCEPT ![path[h]].tables = Put(@, want[h], t)]
         ELSE Put(Room(tableCache), path[h], new)
    /\ Answer(h, "table", t)
    /\ UNCHANGED <<disk, catalogCache, fileVars, catalog, want, opens, loaded>>

\* The catalog or the definition cannot be read.
BuildFails(h) ==
    /\ pc[h] \in {"buildCatalog", "buildTable"}
    /\ Answer(h, "failed", NoTemplate)
    /\ UNCHANGED <<disk, cacheVars, fileVars, catalog, want, opens, loaded>>

Execute(h) ==
    \/ CatalogHit(h) \/ CatalogMiss(h) \/ StoreCatalog(h) \/ FindEntry(h)
    \/ ListTables(h) \/ TableHit(h) \/ TableMiss(h) \/ StoreTable(h) \/ BuildFails(h)
------------------------------------------------------------------------------
Init ==
    /\ disk = [p \in Paths |-> 1]
    /\ catalogCache = Empty /\ tableCache = Empty
    /\ pc = [h \in Handles |-> "closed"]
    /\ path = [h \in Handles |-> CHOOSE p \in Paths : TRUE]
    /\ key = [h \in Handles |-> 1] /\ bytes = [h \in Handles |-> 1]
    /\ catalog = [h \in Handles |-> None]
    /\ want = [h \in Handles |-> CHOOSE t \in Tables : TRUE]
    /\ answer = [h \in Handles |-> "none"]
    /\ table = [h \in Handles |-> NoTemplate]
    /\ opens = 0 /\ loaded = {}

Next ==
    \/ \E p \in Paths : Rewrite(p) \/ \E h \in Handles : Open(h, p)
    \/ \E h \in Handles : Load(h) \/ Close(h) \/ Execute(h)
    \/ \E h \in Handles, t \in Tables : Query(h, t)

Spec == Init /\ [][Next]_vars
------------------------------------------------------------------------------
(* Properties *)

\* The types of the variables.
TypeOK ==
    /\ disk \in [Paths -> Versions]
    /\ DOMAIN catalogCache \subseteq Paths
    /\ \A p \in DOMAIN catalogCache : catalogCache[p] \in [key : Versions, ver : Versions]
    /\ DOMAIN tableCache \subseteq Paths
    /\ \A p \in DOMAIN tableCache :
        tableCache[p] \in [key : Versions, tables : Definitions]
    /\ pc \in [Handles -> {"closed", "load", "idle", "catalog", "buildCatalog", "entry",
                           "table", "buildTable"}]
    /\ path \in [Handles -> Paths] /\ key \in [Handles -> Versions]
    /\ bytes \in [Handles -> Versions] /\ catalog \in [Handles -> Versions \cup {None}]
    /\ want \in [Handles -> Tables]
    /\ answer \in [Handles -> {"none", "listed", "table", "notFound", "failed"}]
    /\ table \in [Handles -> Template \cup {NoTemplate}]
    /\ opens \in Nat
    /\ loaded \subseteq Paths \X Versions \X Versions

\* The versions that handles read of file p when they had stat'ed version k.
Loaded(p, k) == {v \in Versions : <<p, k, v>> \in loaded}

\* Whatever handles store over each other, and whenever the caches are cleared: what is
\* cached for a path, size and mtime was built from bytes read under them.
CachedOfKey ==
    /\ \A p \in DOMAIN catalogCache : catalogCache[p].ver \in Loaded(p, catalogCache[p].key)
    /\ \A p \in DOMAIN tableCache : \A t \in DOMAIN tableCache[p].tables :
        {tableCache[p].tables[t].entry, tableCache[p].tables[t].page}
            \subseteq Loaded(p, tableCache[p].key)

\* The file was not rewritten between the stat and the read of a handle that has the key
\* of h.
CleanKey(h) == Loaded(path[h], key[h]) = {key[h]}

\* "reusing a per-file cache when the file is unchanged" (catalog.go:61-62): a handle
\* works with the catalog and the definitions of the bytes that it has, and a table is
\* not found only if they do not have it.
OwnSchema ==
    \A h \in Handles : (pc[h] = "idle" /\ CleanKey(h)) =>
        /\ catalog[h] \in {None, bytes[h]}
        /\ answer[h] = "table" =>
             table[h] = [entry |-> bytes[h], page |-> bytes[h]] /\ want[h] \in Defines[bytes[h]]
        /\ answer[h] = "notFound" => want[h] \notin Defines[bytes[h]]
==============================================================================
