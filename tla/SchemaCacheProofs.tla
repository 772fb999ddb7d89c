------------------------- MODULE SchemaCacheProofs -------------------------
(***************************************************************************)
(* Proofs about SchemaCache for every value of its constants: the caches   *)
(* only hold what was built from bytes read under their key, and a handle  *)
(* only works with the schema of the bytes that it has, unless the file is *)
(* rewritten between a stat and a read.                                    *)
(***************************************************************************)
EXTENDS SchemaCache, TLAPS

\* What handle h has was read under its path and key, and its query goes by its catalog.
HandleOK(h) ==
    LET mine == Loaded(path[h], key[h]) IN
    /\ pc[h] \notin {"closed", "load"} => bytes[h] \in mine
    /\ pc[h] \in {"closed", "load"} => catalog[h] = None
    /\ pc[h] # "idle" => answer[h] = "none"
    /\ catalog[h] # None => catalog[h] \in mine
    /\ pc[h] \in {"entry", "table", "buildTable"} => catalog[h] # None
    /\ pc[h] \in {"table", "buildTable"} => want[h] \in Defines[catalog[h]]
    /\ answer[h] = "table" =>
        /\ catalog[h] # None /\ want[h] \in Defines[catalog[h]]
        /\ {table[h].entry, table[h].page} \subseteq mine
        /\ table[h] \in Template
    /\ answer[h] = "notFound" => catalog[h] # None /\ want[h] \notin Defines[catalog[h]]

Inv ==
    /\ TypeOK
    /\ CachedOfKey
    /\ \A h \in Handles : HandleOK(h)
------------------------------------------------------------------------------
(* Lemmas about the operators *)

LEMMA NoneNotVersion == None \notin Versions
  BY DEF None, Versions

\* What Definitions holds, and a definition put into it.
LEMMA DefinitionsProp ==
    ASSUME NEW f \in Definitions
    PROVE  /\ DOMAIN f \subseteq Tables
           /\ \A t \in DOMAIN f : f[t] \in Template
  BY DEF Definitions

LEMMA PutDefinition ==
    ASSUME NEW f \in Definitions, NEW t \in Tables, NEW d \in Template
    PROVE  Put(f, t, d) \in Definitions
<1>1. DOMAIN f \subseteq Tables /\ \A u \in DOMAIN f : f[u] \in Template
  BY DefinitionsProp
<1> DEFINE T == DOMAIN f \cup {t}
<1>2. T \in SUBSET Tables
  BY <1>1
<1>3. Put(f, t, d) \in [T -> Template]
  BY <1>1 DEF Put
<1> HIDE DEF T
<1> QED
  BY <1>2, <1>3 DEF Definitions

LEMMA EmptyDefinitions == Empty \in Definitions
<1>1. {} \in SUBSET Tables
  OBVIOUS
<1>2. Empty \in [{} -> Template]
  BY DEF Empty
<1> QED
  BY <1>1, <1>2 DEF Definitions

\* Making room leaves all of a cache or nothing.
LEMMA RoomProp ==
    ASSUME NEW f
    PROVE  Room(f) = f \/ DOMAIN Room(f) = {}
  BY DEF Room, Empty

\* More is read, nothing forgotten.
LEMMA LoadedGrows ==
    ASSUME loaded \subseteq loaded', NEW p, NEW k
    PROVE  Loaded(p, k) \subseteq Loaded(p, k)'
  BY DEF Loaded

\* A handle that a step is not about.
LEMMA Others ==
    ASSUME Inv, NEW h \in Handles, loaded \subseteq loaded',
           \A g \in Handles \ {h} :
               /\ pc'[g] = pc[g] /\ path'[g] = path[g] /\ key'[g] = key[g]
               /\ bytes'[g] = bytes[g] /\ catalog'[g] = catalog[g]
               /\ want'[g] = want[g] /\ answer'[g] = answer[g] /\ table'[g] = table[g]
    PROVE  \A g \in Handles \ {h} : HandleOK(g)'
<1> TAKE g \in Handles \ {h}
<1>1. HandleOK(g)
  BY DEF Inv
<1>2. Loaded(path[g], key[g]) \subseteq Loaded(path[g], key[g])'
  BY DEF Loaded
<1>3. /\ pc'[g] = pc[g] /\ path'[g] = path[g] /\ key'[g] = key[g]
      /\ bytes'[g] = bytes[g] /\ catalog'[g] = catalog[g]
      /\ want'[g] = want[g] /\ answer'[g] = answer[g] /\ table'[g] = table[g]
  OBVIOUS
<1> QED
  BY <1>1, <1>2, <1>3 DEF HandleOK

\* Caches that a step leaves alone stay right.
LEMMA CachesKept ==
    ASSUME CachedOfKey, loaded \subseteq loaded', UNCHANGED cacheVars
    PROVE  CachedOfKey'
<1>1. \A p, k : Loaded(p, k) \subseteq Loaded(p, k)'
  BY LoadedGrows
<1> QED
  BY <1>1 DEF CachedOfKey, cacheVars
------------------------------------------------------------------------------
(* The steps *)

LEMMA InitInv == Init => Inv
<1> SUFFICES ASSUME Init PROVE Inv
  OBVIOUS
<1> USE SchemaCacheAssumption
<1>1. TypeOK
  BY DEF Init, TypeOK, Empty, Versions, None, Template, NoTemplate
<1>2. CachedOfKey
  BY DEF Init, CachedOfKey, Empty
<1>3. \A h \in Handles : HandleOK(h)
  BY DEF Init, HandleOK, None
<1> QED
  BY <1>1, <1>2, <1>3 DEF Inv

LEMMA RewriteInv ==
    ASSUME Inv, NEW p \in Paths, Rewrite(p)
    PROVE  Inv'
<1>1. TypeOK'
  BY SchemaCacheAssumption DEF Inv, TypeOK, Rewrite, Versions, cacheVars, fileVars, queryVars
<1>2. CachedOfKey'
  BY CachesKept DEF Inv, Rewrite
<1>3. \A h \in Handles : HandleOK(h)'
  BY DEF Inv, HandleOK, Loaded, Rewrite, fileVars, queryVars
<1> QED
  BY <1>1, <1>2, <1>3 DEF Inv

LEMMA OpenInv ==
    ASSUME Inv, NEW h \in Handles, NEW p \in Paths, Open(h, p)
    PROVE  Inv'
<1>1. TypeOK'
  BY DEF Inv, TypeOK, Open, Goto, cacheVars, fileVars, queryVars
<1>2. CachedOfKey'
  BY CachesKept DEF Inv, Open
<1>3. HandleOK(h)'
  BY DEF Inv, TypeOK, HandleOK, Loaded, Open, Goto, queryVars
<1>4. \A g \in Handles \ {h} : HandleOK(g)'
  BY Others DEF Inv, TypeOK, Open, Goto, queryVars
<1> QED
  BY <1>1, <1>2, <1>3, <1>4 DEF Inv

LEMMA LoadInv ==
    ASSUME Inv, NEW h \in Handles, Load(h)
    PROVE  Inv'
<1>1. PICK v \in key[h]..disk[path[h]] :
        /\ bytes' = [bytes EXCEPT ![h] = v]
        /\ loaded' = loaded \cup {<<path[h], key[h], v>>}
  BY DEF Load
<1>2. v \in Versions
  BY SchemaCacheAssumption DEF Inv, TypeOK, Versions
<1>3. TypeOK'
  BY <1>1, <1>2 DEF Inv, TypeOK, Load, Goto, cacheVars, queryVars
<1>4. CachedOfKey'
  BY <1>1, CachesKept DEF Inv, Load
<1>5. HandleOK(h)'
  <2>1. v \in Loaded(path[h], key[h])'
    BY <1>1, <1>2 DEF Load, Loaded
  <2>2. pc[h] = "load" /\ pc'[h] = "idle" /\ path'[h] = path[h] /\ key'[h] = key[h]
        /\ bytes'[h] = v
    BY <1>1 DEF Inv, TypeOK, Load, Goto
  <2> QED
    BY <2>1, <2>2 DEF Inv, HandleOK, Load, queryVars
<1>6. \A g \in Handles \ {h} : HandleOK(g)'
  BY <1>1, Others DEF Inv, TypeOK, Load, Goto, queryVars
<1> QED
  BY <1>3, <1>4, <1>5, <1>6 DEF Inv

LEMMA CloseInv ==
    ASSUME Inv, NEW h \in Handles, Close(h)
    PROVE  Inv'
<1>1. TypeOK'
  BY DEF Inv, TypeOK, Close, Goto, cacheVars, fileVars
<1>2. CachedOfKey'
  BY CachesKept DEF Inv, Close
<1>3. HandleOK(h)'
  BY DEF Inv, TypeOK, HandleOK, Loaded, Close, Goto, fileVars
<1>4. \A g \in Handles \ {h} : HandleOK(g)'
  BY Others DEF Inv, TypeOK, Close, Goto, fileVars
<1> QED
  BY <1>1, <1>2, <1>3, <1>4 DEF Inv

LEMMA QueryInv ==
    ASSUME Inv, NEW h \in Handles, NEW t \in Tables, Query(h, t)
    PROVE  Inv'
<1>1. TypeOK'
  BY DEF Inv, TypeOK, Query, Goto, cacheVars, fileVars
<1>2. CachedOfKey'
  BY CachesKept DEF Inv, Query
<1>3. HandleOK(h)'
  BY DEF Inv, TypeOK, HandleOK, Loaded, Query, Goto, fileVars
<1>4. \A g \in Handles \ {h} : HandleOK(g)'
  BY Others DEF Inv, TypeOK, Query, Goto, fileVars
<1> QED
  BY <1>1, <1>2, <1>3, <1>4 DEF Inv

LEMMA CatalogHitInv ==
    ASSUME Inv, NEW h \in Handles, CatalogHit(h)
    PROVE  Inv'
<1> DEFINE v == catalogCache[path[h]].ver
<1>1. path[h] \in DOMAIN catalogCache /\ catalogCache[path[h]].key = key[h]
  BY DEF CatalogHit, Found
<1>2. v \in Versions /\ v \in Loaded(path[h], key[h])
  BY <1>1 DEF Inv, TypeOK, CachedOfKey
<1>3. TypeOK'
  BY <1>2 DEF Inv, TypeOK, CatalogHit, Goto, cacheVars, fileVars, queryVars
<1>4. CachedOfKey'
  BY CachesKept DEF Inv, CatalogHit
<1>5. HandleOK(h)'
  BY <1>2, NoneNotVersion DEF Inv, TypeOK, HandleOK, Loaded, CatalogHit, Goto, fileVars, queryVars
<1>6. \A g \in Handles \ {h} : HandleOK(g)'
  BY Others DEF Inv, TypeOK, CatalogHit, Goto, fileVars, queryVars
<1> QED
  BY <1>3, <1>4, <1>5, <1>6 DEF Inv

LEMMA StoreCatalogInv ==
    ASSUME Inv, NEW h \in Handles, StoreCatalog(h)
    PROVE  Inv'
<1> DEFINE e == [key |-> key[h], ver |-> bytes[h]]
<1>1. /\ pc[h] = "buildCatalog" /\ pc' = [pc EXCEPT ![h] = "entry"]
      /\ catalogCache' = Put(Room(catalogCache), path[h], e)
      /\ catalog' = [catalog EXCEPT ![h] = bytes[h]]
      /\ UNCHANGED <<disk, tableCache, fileVars, queryVars, opens, loaded>>
  BY DEF StoreCatalog, Built, Goto
<1>2. bytes[h] \in Loaded(path[h], key[h]) /\ bytes[h] \in Versions
  BY <1>1 DEF Inv, TypeOK, HandleOK
<1>3. /\ DOMAIN catalogCache' \subseteq DOMAIN catalogCache \cup {path[h]}
      /\ catalogCache'[path[h]] = e
      /\ \A p \in DOMAIN catalogCache' : p # path[h] =>
            p \in DOMAIN catalogCache /\ catalogCache'[p] = catalogCache[p]
  <2> DEFINE r == Room(catalogCache)
  <2>1. r = catalogCache \/ DOMAIN r = {}
    BY RoomProp
  <2>3. catalogCache' = Put(r, path[h], e)
    BY <1>1
  <2> HIDE DEF r, e
  <2>2. /\ DOMAIN Put(r, path[h], e) = DOMAIN r \cup {path[h]}
        /\ Put(r, path[h], e)[path[h]] = e
        /\ \A y \in DOMAIN r : y # path[h] => Put(r, path[h], e)[y] = r[y]
    BY DEF Put
  <2> QED
    BY <2>1, <2>2, <2>3
<1>4. TypeOK'
  <2>1. e \in [key : Versions, ver : Versions]
    BY <1>2 DEF Inv, TypeOK
  <2> HIDE DEF e
  <2>2. DOMAIN catalogCache' \subseteq Paths
    BY <1>3 DEF Inv, TypeOK
  <2>3. \A p \in DOMAIN catalogCache' : catalogCache'[p] \in [key : Versions, ver : Versions]
    BY <1>3, <2>1 DEF Inv, TypeOK
  <2> QED
    BY <1>1, <1>2, <2>2, <2>3 DEF Inv, TypeOK, fileVars, queryVars
<1>5. CachedOfKey'
  <2>1. \A p \in DOMAIN catalogCache' :
            catalogCache'[p].ver \in Loaded(p, catalogCache'[p].key)
    BY <1>2, <1>3 DEF Inv, CachedOfKey
  <2>2. \A q \in DOMAIN tableCache' : \A t \in DOMAIN tableCache'[q].tables :
            {tableCache'[q].tables[t].entry, tableCache'[q].tables[t].page}
                \subseteq Loaded(q, tableCache'[q].key)
    BY <1>1 DEF Inv, CachedOfKey
  <2>3. \A q, k : Loaded(q, k)' = Loaded(q, k)
    BY <1>1 DEF Loaded
  <2> QED
    BY <2>1, <2>2, <2>3 DEF CachedOfKey
<1>6. HandleOK(h)'
  BY <1>1, <1>2, NoneNotVersion DEF Inv, TypeOK, HandleOK, Loaded, fileVars, queryVars
<1>7. \A g \in Handles \ {h} : HandleOK(g)'
  BY <1>1, Others DEF Inv, TypeOK, fileVars, queryVars
<1> QED
  BY <1>4, <1>5, <1>6, <1>7 DEF Inv

\* The steps of a query that change no more than where it stands.
LEMMA MissInv ==
    ASSUME Inv, NEW h \in Handles, CatalogMiss(h) \/ TableMiss(h)
    PROVE  Inv'
<1>1. TypeOK'
  BY DEF Inv, TypeOK, CatalogMiss, TableMiss, Goto, cacheVars, fileVars, queryVars
<1>2. CachedOfKey'
  BY CachesKept DEF Inv, CatalogMiss, TableMiss
<1>3. HandleOK(h)'
  BY DEF Inv, TypeOK, HandleOK, Loaded, CatalogMiss, TableMiss, Goto, fileVars, queryVars
<1>4. \A g \in Handles \ {h} : HandleOK(g)'
  BY Others DEF Inv, TypeOK, CatalogMiss, TableMiss, Goto, fileVars, queryVars
<1> QED
  BY <1>1, <1>2, <1>3, <1>4 DEF Inv

\* The steps that end a query without a definition, and the one that finds the entry.
LEMMA PlainAnswerInv ==
    ASSUME Inv, NEW h \in Handles, FindEntry(h) \/ ListTables(h) \/ BuildFails(h)
    PROVE  Inv'
<1> USE DEF FindEntry, ListTables, BuildFails
<1>1. TypeOK'
  BY DEF Inv, TypeOK, Answer, Goto, cacheVars, fileVars
<1>2. CachedOfKey'
  BY CachesKept DEF Inv
<1>3. HandleOK(h)'
  BY ZenonT(30) DEF Inv, TypeOK, HandleOK, Loaded, Answer, Goto, fileVars
<1>4. \A g \in Handles \ {h} : HandleOK(g)'
  BY Others DEF Inv, TypeOK, Answer, Goto, fileVars
<1> QED
  BY <1>1, <1>2, <1>3, <1>4 DEF Inv

LEMMA TableHitInv ==
    ASSUME Inv, NEW h \in Handles, TableHit(h)
    PROVE  Inv'
<1> DEFINE d == tableCache[path[h]].tables[want[h]]
<1>1. /\ path[h] \in DOMAIN tableCache /\ tableCache[path[h]].key = key[h]
      /\ want[h] \in DOMAIN tableCache[path[h]].tables
  BY DEF TableHit, HasTable, Found
<1>2. d \in Template
  BY <1>1, DefinitionsProp DEF Inv, TypeOK
<1>3. {d.entry, d.page} \subseteq Loaded(path[h], key[h])
  BY <1>1 DEF Inv, CachedOfKey
<1>4. /\ pc[h] = "table" /\ pc' = [pc EXCEPT ![h] = "idle"]
      /\ answer' = [answer EXCEPT ![h] = "table"] /\ table' = [table EXCEPT ![h] = d]
      /\ UNCHANGED <<disk, cacheVars, fileVars, catalog, want, opens, loaded>>
  BY DEF TableHit, Answer, Goto
<1> HIDE DEF d
<1>5. TypeOK'
  BY <1>2, <1>4 DEF Inv, TypeOK, cacheVars, fileVars
<1>6. CachedOfKey'
  BY <1>4, CachesKept DEF Inv
<1>7. HandleOK(h)'
  BY <1>2, <1>3, <1>4 DEF Inv, TypeOK, HandleOK, Loaded, fileVars
<1>8. \A g \in Handles \ {h} : HandleOK(g)'
  BY <1>4, Others DEF Inv, TypeOK, fileVars
<1> QED
  BY <1>5, <1>6, <1>7, <1>8 DEF Inv

\* What an entry of the table cache has to be.
EntryOK(p, e) ==
    /\ e \in [key : Versions, tables : Definitions]
    /\ \A t \in DOMAIN e.tables :
        {e.tables[t].entry, e.tables[t].page} \subseteq Loaded(p, e.key)

LEMMA StoreTableInv ==
    ASSUME Inv, NEW h \in Handles, StoreTable(h)
    PROVE  Inv'
<1> DEFINE d == [entry |-> catalog[h], page |-> bytes[h]]
           p == path[h]
           fresh == [key |-> key[h], tables |-> Put(Empty, want[h], d)]
<1>1. /\ pc[h] = "buildTable" /\ pc' = [pc EXCEPT ![h] = "idle"]
      /\ answer' = [answer EXCEPT ![h] = "table"] /\ table' = [table EXCEPT ![h] = d]
      /\ UNCHANGED <<disk, catalogCache, fileVars, catalog, want, opens, loaded>>
  BY DEF StoreTable, Answer, Goto
<1>2. d \in Template /\ {d.entry, d.page} \subseteq Loaded(p, key[h])
  BY <1>1 DEF Inv, TypeOK, HandleOK, Template, Loaded
<1>3. want[h] \in Tables /\ p \in Paths /\ key[h] \in Versions
  BY DEF Inv, TypeOK
<1>4. tableCache' = IF Extends(h)
                    THEN [tableCache EXCEPT ![p].tables = Put(@, want[h], d)]
                    ELSE Put(Room(tableCache), p, fresh)
  BY DEF StoreTable
<1> HIDE DEF d
<1>5. \A q \in DOMAIN tableCache : EntryOK(q, tableCache[q])
  BY DEF Inv, TypeOK, CachedOfKey, EntryOK
<1>6. /\ DOMAIN tableCache' \subseteq Paths
      /\ \A q \in DOMAIN tableCache' : EntryOK(q, tableCache'[q])
  <2>1. CASE Extends(h)
    <3> DEFINE old == tableCache[p]
               new == [key |-> key[h], tables |-> Put(old.tables, want[h], d)]
    <3>1. p \in DOMAIN tableCache /\ old.key = key[h]
      BY <2>1 DEF Extends, Found
    <3>2. old \in [key : Versions, tables : Definitions]
      BY <3>1, <1>5 DEF EntryOK
    <3>3. [old EXCEPT !.tables = Put(@, want[h], d)] = new
      BY <3>1, <3>2
    <3>4. EntryOK(p, new)
      <4>1. Put(old.tables, want[h], d) \in Definitions
        BY <1>2, <1>3, <3>2, PutDefinition
      <4>2. /\ DOMAIN Put(old.tables, want[h], d) = DOMAIN old.tables \cup {want[h]}
            /\ Put(old.tables, want[h], d)[want[h]] = d
            /\ \A y \in DOMAIN old.tables : y # want[h] =>
                  Put(old.tables, want[h], d)[y] = old.tables[y]
        BY DEF Put
      <4>3. \A t \in DOMAIN old.tables :
              {old.tables[t].entry, old.tables[t].page} \subseteq Loaded(p, key[h])
        BY <1>5, <3>1 DEF EntryOK
      <4> QED
        BY <1>2, <1>3, <4>1, <4>2, <4>3 DEF EntryOK
    <3>5. tableCache' = [tableCache EXCEPT ![p] = [old EXCEPT !.tables = Put(@, want[h], d)]]
      BY <1>4, <2>1
    <3>6. tableCache' = [tableCache EXCEPT ![p] = new]
      BY <3>3, <3>5
    <3> HIDE DEF new
    <3> QED
      BY <3>1, <3>4, <3>6, <1>5 DEF Inv, TypeOK
  <2>2. CASE ~Extends(h)
    <3> DEFINE r == Room(tableCache)
    <3>1. r = tableCache \/ DOMAIN r = {}
      BY RoomProp
    <3>3. tableCache' = Put(r, p, fresh)
      BY <1>4, <2>2
    <3> HIDE DEF r
    <3>2. /\ DOMAIN Put(r, p, fresh) = DOMAIN r \cup {p}
          /\ Put(r, p, fresh)[p] = fresh
          /\ \A y \in DOMAIN r : y # p => Put(r, p, fresh)[y] = r[y]
      BY DEF Put
    <3>4. EntryOK(p, fresh)
      <4>1. Put(Empty, want[h], d) \in Definitions
        BY <1>2, <1>3, EmptyDefinitions, PutDefinition
      <4>2. /\ DOMAIN Put(Empty, want[h], d) = {want[h]}
            /\ Put(Empty, want[h], d)[want[h]] = d
        BY DEF Put, Empty
      <4> QED
        BY <1>2, <1>3, <4>1, <4>2 DEF EntryOK
    <3> HIDE DEF fresh
    <3> QED
      BY <1>3, <1>5, <3>1, <3>2, <3>3, <3>4 DEF Inv, TypeOK
  <2> QED
    BY <2>1, <2>2
<1>7. TypeOK'
  BY <1>1, <1>2, <1>6 DEF Inv, TypeOK, EntryOK, fileVars
<1>8. CachedOfKey'
  <2>1. \A q, k : Loaded(q, k)' = Loaded(q, k)
    BY <1>1 DEF Loaded
  <2> QED
    BY <1>1, <1>6, <2>1 DEF Inv, CachedOfKey, EntryOK
<1>9. HandleOK(h)'
  BY <1>1, <1>2 DEF Inv, TypeOK, HandleOK, Loaded, fileVars
<1>10. \A g \in Handles \ {h} : HandleOK(g)'
  BY <1>1, Others DEF Inv, TypeOK, fileVars
<1> QED
  BY <1>7, <1>8, <1>9, <1>10 DEF Inv
------------------------------------------------------------------------------
LEMMA NextInv == Inv /\ [Next]_vars => Inv'
<1> SUFFICES ASSUME Inv, [Next]_vars PROVE Inv'
  OBVIOUS
<1>1. CASE \E p \in Paths : Rewrite(p) \/ \E h \in Handles : Open(h, p)
  BY <1>1, RewriteInv, OpenInv
<1>2. CASE \E h \in Handles : Load(h) \/ Close(h)
  BY <1>2, LoadInv, CloseInv
<1>3. CASE \E h \in Handles : Execute(h)
  BY <1>3, CatalogHitInv, MissInv, StoreCatalogInv, PlainAnswerInv, TableHitInv, StoreTableInv
     DEF Execute
<1>4. CASE \E h \in Handles, t \in Tables : Query(h, t)
  BY <1>4, QueryInv
<1>5. CASE UNCHANGED vars
  <2>1. TypeOK'
    BY <1>5 DEF Inv, TypeOK, vars, cacheVars, fileVars, queryVars
  <2>2. CachedOfKey'
    BY <1>5, CachesKept DEF Inv, vars
  <2>3. \A h \in Handles : HandleOK(h)'
    BY <1>5 DEF Inv, HandleOK, Loaded, vars, fileVars, queryVars
  <2> QED
    BY <2>1, <2>2, <2>3 DEF Inv
<1> QED
  BY <1>1, <1>2, <1>3, <1>4, <1>5 DEF Next

LEMMA InvAlways == Spec => []Inv
  BY InitInv, NextInv, PTL DEF Spec

\* However handles overwrite each other's entries and clear the caches, what is cached for
\* a path, size and mtime was built from bytes that were read under them.
THEOREM CachedOfKeyAlways == Spec => []CachedOfKey
<1>1. Inv => CachedOfKey
  BY DEF Inv
<1> QED
  BY <1>1, InvAlways, PTL

\* A handle whose key names one content works with the catalog and the definitions of the
\* bytes that it has, and does not find a table only if they do not have it.
THEOREM OwnSchemaAlways == Spec => []OwnSchema
<1>1. Inv => OwnSchema
  <2> SUFFICES ASSUME Inv, NEW h \in Handles, pc[h] = "idle", CleanKey(h)
               PROVE  /\ catalog[h] \in {None, bytes[h]}
                      /\ answer[h] = "table" =>
                            /\ table[h] = [entry |-> bytes[h], page |-> bytes[h]]
                            /\ want[h] \in Defines[bytes[h]]
                      /\ answer[h] = "notFound" => want[h] \notin Defines[bytes[h]]
    BY DEF OwnSchema
  <2>1. HandleOK(h)
    BY DEF Inv
  <2>2. bytes[h] = key[h]
    BY <2>1 DEF HandleOK, CleanKey
  <2>3. catalog[h] \in {None, bytes[h]}
    BY <2>1, <2>2 DEF HandleOK, CleanKey
  <2>4. answer[h] = "table" => table[h] = [entry |-> bytes[h], page |-> bytes[h]]
    BY <2>1, <2>2 DEF HandleOK, CleanKey, Template
  <2> QED
    BY <2>1, <2>3, <2>4 DEF HandleOK
<1> QED
  BY <1>1, InvAlways, PTL
==============================================================================
