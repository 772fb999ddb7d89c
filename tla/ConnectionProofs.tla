-------------------------- MODULE ConnectionProofs --------------------------
(***************************************************************************)
(* For any number of Rows and queries: open Rows never share an SQL object, *)
(* a plan is marked in use exactly as long as Rows hold it, and no producer *)
(* runs for a query that is not open.                                      *)
(*                                                                         *)
(* The three depend on where an SQL object can come from.  An object is    *)
(* owned by the Rows that executed it afresh until they are closed; only   *)
(* then it is in the cache of plans, and whoever takes it from there marks *)
(* it in use.                                                              *)
(*                                                                         *)
(* And Rows over an SQL object that has never run beside another one       *)
(* return what a fresh execution returns.  The invariant behind it says    *)
(* where the rows delivered stand in the result (Standing): at the position *)
(* of the scan, whose page is the one in the buffer of the handle; at the  *)
(* count of rows in a materialized result; before the rows a producer has  *)
(* handed on, up to the page it took last.                                 *)
(***************************************************************************)
EXTENDS Connection, OperatorProofs

\* The types that the argument needs.
Types ==
    /\ state \in [Opens -> {"none", "opening", "open", "closed"}]
    /\ sqlOf \in [Opens -> Opens]
    /\ hit \in [Opens -> BOOLEAN]
    /\ inUse \in [Opens -> BOOLEAN]
    /\ producer \in [Opens -> {"off", "read", "take", "done"}]
    /\ \A q \in DOMAIN plans : plans[q] \in Opens

\* Rows that executed a query afresh hold the SQL object of their own number; an object
\* reached through a plan, or cached as one, belonged to Rows that are closed.
Ownership ==
    /\ \A r \in OpenRows : ~hit[r] => sqlOf[r] = r
    /\ \A r \in OpenRows : hit[r] => state[sqlOf[r]] = "closed"
    /\ \A q \in DOMAIN plans : state[plans[q]] = "closed"
    /\ \A r \in Opens : hit[r] => r \in OpenRows

IInv == Types /\ Ownership /\ PlanExclusive /\ InUseWhileOpen /\ NoStrayProducer

LEMMA InitIInv == Init => IInv
<1> SUFFICES ASSUME Init PROVE IInv
    OBVIOUS
<1>1. \A r \in Opens : state[r] = "none" /\ hit[r] = FALSE /\ inUse[r] = FALSE /\ producer[r] = "off"
    BY DEF Init
<1>2. OpenRows = {} /\ DOMAIN plans = {}
    BY <1>1 DEF OpenRows, Init
<1>3. Types
    BY <1>2 DEF Init, Types
<1>4. Ownership /\ PlanExclusive /\ NoStrayProducer
    BY <1>1, <1>2, Zenon DEF Ownership, PlanExclusive, NoStrayProducer
<1>5. InUseWhileOpen
    BY <1>1, <1>2, Zenon DEF InUseWhileOpen, InUseBy
<1> QED  BY <1>3, <1>4, <1>5 DEF IInv

\* A step that touches neither the Rows nor the plans keeps all of it, whatever it does to
\* the producer of an SQL object that has one.
LEMMA Untouched ==
    ASSUME IInv, UNCHANGED <<state, sqlOf, hit, inUse>>,
           DOMAIN plans' \subseteq DOMAIN plans,
           \A q \in DOMAIN plans' : plans'[q] = plans[q],
           producer' \in [Opens -> {"off", "read", "take", "done"}],
           \A s \in Opens : producer'[s] # "off" => producer[s] # "off"
    PROVE  IInv'
<1>1. OpenRows' = OpenRows
    BY DEF OpenRows
<1>2. Types'
    BY DEF IInv, Types
<1>3. Ownership'
    BY <1>1, ZenonT(30) DEF IInv, Ownership
<1>4. PlanExclusive'
    BY <1>1 DEF IInv, PlanExclusive
<1>5. InUseWhileOpen'
    BY <1>1, Zenon DEF IInv, InUseWhileOpen, InUseBy
<1>6. NoStrayProducer'
    BY <1>1 DEF IInv, NoStrayProducer, InUseBy
<1> QED  BY <1>2, <1>3, <1>4, <1>5, <1>6 DEF IInv

LEMMA StepIInv == IInv /\ [Next]_vars => IInv'
<1> SUFFICES ASSUME IInv, [Next]_vars PROVE IInv'
    OBVIOUS
<1> USE DEF IInv
<1>1. ASSUME NEW r \in Opens, NEW q \in Queries, Execute(r, q)
      PROVE  IInv'
    <2>a. PICK s \in Opens : s = plans[q]
        BY <1>1 DEF Execute, PlanReady, Types
    <2>0. q \in DOMAIN plans /\ ~inUse[s] /\ state[s] = "closed"
          /\ state[r] = "none" /\ s # r
        BY <1>1, <2>a DEF Execute, PlanReady, NewRows, Types, Ownership
    <2>1. /\ state' = [state EXCEPT ![r] = "open"]
          /\ sqlOf' = [sqlOf EXCEPT ![r] = s]
          /\ hit' = [hit EXCEPT ![r] = TRUE]
          /\ inUse' = [inUse EXCEPT ![s] = TRUE]
          /\ plans' = plans
        BY <1>1, <2>a DEF Execute, connVars
    <2>2. /\ producer' \in [Opens -> {"off", "read", "take", "done"}]
          /\ \A t \in Opens \ {s} : producer'[t] = producer[t]
        BY <1>1, <2>0, <2>a DEF Execute, StartScan, Types
    <2>3. OpenRows' = OpenRows \cup {r} /\ r \notin OpenRows /\ s \notin OpenRows
        BY <2>0, <2>1 DEF OpenRows, Types
    <2>4. InUseBy(s) = {}
        <3>1. ASSUME NEW o \in InUseBy(s) PROVE FALSE
            <4>1. o \in OpenRows /\ o \in Opens /\ sqlOf[o] = s
                BY <3>1 DEF InUseBy, OpenRows
            <4>2. ~hit[o]
                BY <2>0, <3>1, Zenon DEF InUseWhileOpen
            <4>3. s = o
                BY <4>1, <4>2, Zenon DEF Ownership
            <4> QED  BY <2>3, <4>1, <4>3
        <3> QED  BY <3>1
    <2>5. Types'
        <3>1. inUse' \in [Opens -> BOOLEAN] /\ hit' \in [Opens -> BOOLEAN]
            BY <2>1, Zenon DEF Types
        <3>2. state' \in [Opens -> {"none", "opening", "open", "closed"}]
              /\ sqlOf' \in [Opens -> Opens]
            BY <2>0, <2>1 DEF Types
        <3> QED  BY <2>1, <2>2, <3>1, <3>2 DEF Types
    <2>6. Ownership'
        <3>1. /\ \A o \in Opens \ {r} : state'[o] = state[o] /\ sqlOf'[o] = sqlOf[o]
              /\ sqlOf'[r] = s
            BY <2>1 DEF Types
        <3>2. \A o \in Opens \ {r} : hit'[o] = hit[o]
            BY <2>1, Zenon DEF Types
        <3>3. hit'[r]
            BY <2>1, Zenon DEF Types
        <3>4. \A o \in OpenRows : o \in Opens /\ sqlOf[o] \in Opens /\ o # r
            BY <2>3 DEF OpenRows, Types
        <3>5. \A o \in OpenRows' : ~hit'[o] => sqlOf'[o] = o
            BY <2>3, <3>1, <3>2, <3>3, <3>4, Zenon DEF Ownership
        <3>6. \A o \in OpenRows : hit[o] => sqlOf[o] # r
            BY <2>0, <3>4, Zenon DEF Ownership
        <3>7. \A o \in OpenRows' : hit'[o] => state'[sqlOf'[o]] = "closed"
            <4>1. state'[s] = "closed"
                BY <2>0, <3>1
            <4>2. ASSUME NEW o \in OpenRows, hit'[o]
                  PROVE  state'[sqlOf'[o]] = "closed"
                <5>1. hit[o]
                    BY <3>2, <3>4, <4>2, Zenon
                <5>2. sqlOf[o] \in Opens \ {r} /\ state[sqlOf[o]] = "closed"
                    BY <3>4, <3>6, <5>1, Zenon DEF Ownership
                <5> QED  BY <3>1, <3>4, <5>2
            <4>3. \A o \in OpenRows' : o = r \/ o \in OpenRows
                BY <2>3
            <4> QED  BY <3>1, <4>1, <4>2, <4>3, Zenon
        <3>8. \A x \in DOMAIN plans' : state'[plans'[x]] = "closed"
            BY <2>0, <2>1, <3>1 DEF Ownership, Types
        <3>9. \A o \in Opens : hit'[o] => o \in OpenRows'
            BY <2>3, <3>2, Zenon DEF Ownership
        <3> QED  BY <3>5, <3>7, <3>8, <3>9, Zenon DEF Ownership
    <2>7. PlanExclusive'
        <3>1. \A o \in OpenRows : o \in Opens /\ sqlOf'[o] = sqlOf[o] /\ sqlOf[o] # s
            BY <2>1, <2>3, <2>4 DEF Types, OpenRows, InUseBy
        <3>2. sqlOf'[r] = s
            BY <2>1 DEF Types
        <3> QED  BY <2>3, <3>1, <3>2 DEF PlanExclusive
    <2>8. InUseWhileOpen' /\ NoStrayProducer'
        <3>1. \A t \in Opens \ {s} : InUseBy(t)' = InUseBy(t)
            BY <2>1, <2>3 DEF InUseBy, OpenRows, Types
        <3>2. InUseBy(s)' = {r}
            BY <2>1, <2>3, <2>4 DEF InUseBy, OpenRows, Types
        <3>3. \A t \in Opens : \A o \in InUseBy(t) : o \in Opens \ {r}
            BY <2>3 DEF InUseBy, OpenRows
        <3>4. /\ \A o \in Opens \ {r} : hit'[o] = hit[o]
              /\ hit'[r] /\ inUse'[s]
              /\ \A t \in Opens \ {s} : inUse'[t] = inUse[t]
            BY <2>0, <2>1, Zenon DEF Types
        <3>5. InUseWhileOpen'
            <4>1. ASSUME NEW t \in Opens
                  PROVE  inUse'[t] <=> \E o \in InUseBy(t)' : hit'[o]
                <5>1. CASE t = s
                    BY <3>2, <3>4, <5>1, Zenon
                <5>2. CASE t # s
                    <6>1. InUseBy(t)' = InUseBy(t) /\ inUse'[t] = inUse[t]
                        BY <3>1, <3>4, <5>2, Zenon
                    <6>2. \A o \in InUseBy(t) : hit'[o] = hit[o]
                        BY <3>3, <3>4, Zenon
                    <6> QED  BY <6>1, <6>2, ZenonT(30) DEF InUseWhileOpen
                <5> QED  BY <5>1, <5>2
            <4> QED  BY <4>1, Zenon DEF InUseWhileOpen
        <3>6. NoStrayProducer'
            BY <2>2, <3>1, <3>2 DEF NoStrayProducer
        <3> QED  BY <3>5, <3>6
    <2> QED  BY <2>5, <2>6, <2>7, <2>8
<1>2. ASSUME NEW r \in Opens, NEW q \in Queries, OpenAfresh(r, q)
      PROVE  IInv'
    <2>0. state[r] = "none" /\ r \notin OpenRows
        BY <1>2 DEF OpenAfresh, NewRows, OpenRows
    <2>1. /\ state' \in {[state EXCEPT ![r] = "open"], [state EXCEPT ![r] = "opening"]}
          /\ sqlOf' = [sqlOf EXCEPT ![r] = r]
          /\ hit' = hit /\ inUse' = inUse
          /\ DOMAIN plans' \subseteq DOMAIN plans
          /\ \A x \in DOMAIN plans' : plans'[x] = plans[x]
        BY <1>2 DEF OpenAfresh, Forget
    <2>2. /\ producer' \in [Opens -> {"off", "read", "take", "done"}]
          /\ \A t \in Opens \ {r} : producer'[t] = producer[t]
        BY <1>2 DEF OpenAfresh, StartScan, Types
    <2>3. OpenRows' = OpenRows \cup {r}
        BY <2>1 DEF OpenRows, Types
    <2>4. /\ \A o \in Opens \ {r} : state'[o] = state[o] /\ sqlOf'[o] = sqlOf[o]
          /\ sqlOf'[r] = r
        BY <2>1 DEF Types
    <2>5. \A o \in OpenRows : o \in Opens \ {r} /\ sqlOf[o] \in Opens /\ sqlOf[o] # r
        <3>1. \A o \in OpenRows : o \in Opens \ {r} /\ sqlOf[o] \in Opens
            BY <2>0 DEF OpenRows, Types
        <3> QED  BY <2>0, <3>1, Zenon DEF Ownership
    <2>6. ~hit[r]
        BY <2>0, Zenon DEF Ownership
    <2>7. Types'
        BY <2>1, <2>2 DEF Types
    <2>8. Ownership'
        <3>1. \A o \in OpenRows' : ~hit'[o] => sqlOf'[o] = o
            BY <2>1, <2>3, <2>4, <2>5, Zenon DEF Ownership
        <3>2. \A o \in OpenRows' : hit'[o] => state'[sqlOf'[o]] = "closed"
            <4>1. ASSUME NEW o \in OpenRows, hit'[o]
                  PROVE  state'[sqlOf'[o]] = "closed"
                <5>1. sqlOf[o] \in Opens \ {r} /\ state[sqlOf[o]] = "closed"
                    BY <2>1, <2>5, <4>1, Zenon DEF Ownership
                <5> QED  BY <2>4, <2>5, <5>1
            <4>2. \A o \in OpenRows' : o = r \/ o \in OpenRows
                BY <2>3
            <4> QED  BY <2>1, <2>6, <4>1, <4>2, Zenon
        <3>3. \A x \in DOMAIN plans' : state'[plans'[x]] = "closed"
            BY <2>0, <2>1, <2>4 DEF Ownership, Types
        <3>4. \A o \in Opens : hit'[o] => o \in OpenRows'
            BY <2>1, <2>3, Zenon DEF Ownership
        <3> QED  BY <3>1, <3>2, <3>3, <3>4, Zenon DEF Ownership
    <2>9. PlanExclusive'
        BY <2>3, <2>4, <2>5 DEF PlanExclusive
    <2>10. InUseWhileOpen' /\ NoStrayProducer'
        <3>1. \A t \in Opens \ {r} : InUseBy(t)' = InUseBy(t)
            BY <2>3, <2>4, <2>5 DEF InUseBy
        <3>2. InUseBy(r)' = {r} /\ InUseBy(r) = {}
            BY <2>3, <2>4, <2>5 DEF InUseBy
        <3>3. InUseWhileOpen'
            <4>1. ASSUME NEW t \in Opens
                  PROVE  inUse'[t] <=> \E o \in InUseBy(t)' : hit'[o]
                <5>1. CASE t = r
                    <6>1. ~inUse[r]
                        BY <3>2, Zenon DEF InUseWhileOpen
                    <6> QED  BY <2>1, <2>6, <3>2, <5>1, <6>1, Zenon
                <5>2. CASE t # r
                    <6>1. InUseBy(t)' = InUseBy(t)
                        BY <3>1, <5>2, Zenon
                    <6>2. inUse'[t] = inUse[t] /\ \A o \in InUseBy(t) : hit'[o] = hit[o]
                        BY <2>1
                    <6>3. inUse[t] <=> \E o \in InUseBy(t) : hit[o]
                        BY Zenon DEF InUseWhileOpen
                    <6> QED  BY <6>1, <6>2, <6>3, Zenon
                <5> QED  BY <5>1, <5>2
            <4> QED  BY <4>1, Zenon DEF InUseWhileOpen
        <3>4. NoStrayProducer'
            BY <2>2, <3>1, <3>2 DEF NoStrayProducer
        <3> QED  BY <3>3, <3>4
    <2> QED  BY <2>7, <2>8, <2>9, <2>10
<1>3. ASSUME NEW r \in Opens, NEW q \in Queries, OpenFails(r, q)
      PROVE  IInv'
    <2>0. state[r] = "none" /\ r \notin OpenRows
        BY <1>3 DEF OpenFails, NewRows, OpenRows
    <2>1. /\ state' = [state EXCEPT ![r] = "closed"]
          /\ UNCHANGED <<sqlOf, hit, inUse, producer>>
          /\ DOMAIN plans' \subseteq DOMAIN plans
          /\ \A x \in DOMAIN plans' : plans'[x] = plans[x]
        BY <1>3 DEF OpenFails, Forget, sqlVars, scanVars
    <2>2. OpenRows' = OpenRows
        BY <2>0, <2>1 DEF OpenRows, Types
    <2>3. \A o \in Opens : state[o] = "closed" => state'[o] = "closed"
        BY <2>1 DEF Types
    <2>4. Types'
        BY <2>1 DEF Types
    <2>5. Ownership'
        <3>1. \A o \in OpenRows : sqlOf[o] \in Opens
            BY DEF OpenRows, Types
        <3>2. \A x \in DOMAIN plans' : plans'[x] \in Opens /\ state[plans'[x]] = "closed"
            BY <2>1 DEF Types, Ownership
        <3> QED  BY <2>1, <2>2, <2>3, <3>1, <3>2, Zenon DEF Ownership
    <2>6. PlanExclusive' /\ NoStrayProducer'
        BY <2>1, <2>2 DEF PlanExclusive, NoStrayProducer, InUseBy
    <2>7. InUseWhileOpen'
        BY <2>1, <2>2, Zenon DEF InUseWhileOpen, InUseBy
    <2> QED  BY <2>4, <2>5, <2>6, <2>7
<1>4. ASSUME NEW r \in Opens, Materialize(r)
      PROVE  IInv'
    <2>1. /\ state[r] = "opening"
          /\ state' = state \/ state' = [state EXCEPT ![r] = "open"]
          /\ UNCHANGED <<plans, sqlOf, hit, inUse, producer>>
        BY <1>4 DEF Materialize, connVars, scanVars
    <2>2. OpenRows' = OpenRows
        BY <2>1 DEF OpenRows, Types
    <2>3. \A o \in Opens : state[o] = "closed" => state'[o] = "closed"
        BY <2>1 DEF Types
    <2>4. Types'
        BY <2>1 DEF Types
    <2>5. Ownership'
        <3>1. \A o \in OpenRows : sqlOf[o] \in Opens
            BY DEF OpenRows, Types
        <3>2. \A x \in DOMAIN plans' : plans'[x] \in Opens /\ state[plans'[x]] = "closed"
            BY <2>1 DEF Types, Ownership
        <3> QED  BY <2>1, <2>2, <2>3, <3>1, <3>2, Zenon DEF Ownership
    <2>6. PlanExclusive' /\ NoStrayProducer'
        BY <2>1, <2>2 DEF PlanExclusive, NoStrayProducer, InUseBy
    <2>7. InUseWhileOpen'
        BY <2>1, <2>2, Zenon DEF InUseWhileOpen, InUseBy
    <2> QED  BY <2>4, <2>5, <2>6, <2>7
<1>5. CASE Ping
    <2>1. UNCHANGED <<plans, state, sqlOf, hit, inUse, producer>>
        BY <1>5 DEF Ping, rowsVars, sqlVars, scanVars
    <2> QED  BY <2>1, Untouched DEF Types
<1>6. CASE CloseConn
    <2>1. UNCHANGED <<state, sqlOf, hit, inUse, producer>> /\ DOMAIN plans' = {}
        BY <1>6 DEF CloseConn, rowsVars, sqlVars, scanVars
    <2> QED  BY <2>1, Untouched DEF Types
<1>7. ASSUME NEW r \in Opens, NextRow(r)
      PROVE  IInv'
    <2>1. UNCHANGED <<plans, state, sqlOf, hit, inUse, producer>>
        BY <1>7 DEF NextRow, NextScanned, NextMaterialized, NextFast, connVars, scanVars
    <2> QED  BY <2>1, Untouched DEF Types
<1>8. ASSUME NEW r \in Opens, Close(r)
      PROVE  IInv'
    <2>a. PICK s \in Opens : s = sqlOf[r]
        BY DEF Types
    <2>0. state[r] = "open" /\ r \in OpenRows
        BY <1>8 DEF Close, OpenRows, Types
    <2>1. /\ state' = [state EXCEPT ![r] = "closed"]
          /\ sqlOf' = [sqlOf EXCEPT ![r] = r]
          /\ hit' = [hit EXCEPT ![r] = FALSE]
          /\ inUse' = [inUse EXCEPT ![s] = FALSE]
          /\ producer' = [producer EXCEPT ![s] = "off"]
        BY <1>8, <2>a DEF Close, StopScan, Release
    <2>2. \A x \in DOMAIN plans' : \/ x \in DOMAIN plans /\ plans'[x] = plans[x]
                                   \/ ~hit[r] /\ plans'[x] = s
        BY <1>8, <2>a DEF Close, CachePlan
    <2>3. OpenRows' = OpenRows \ {r}
        BY <2>1 DEF OpenRows, Types
    <2>4. \A o \in OpenRows \ {r} : o \in Opens /\ sqlOf'[o] = sqlOf[o] /\ sqlOf[o] # s /\ sqlOf[o] \in Opens
        BY <2>0, <2>a, <2>1 DEF OpenRows, Types, PlanExclusive
    <2>5. /\ \A o \in Opens \ {r} : hit'[o] = hit[o]
          /\ ~hit'[r] /\ ~inUse'[s]
          /\ \A t \in Opens \ {s} : inUse'[t] = inUse[t]
        BY <2>0, <2>1, Zenon DEF Types
    <2>6. \A o \in Opens : state[o] = "closed" => state'[o] = "closed"
        BY <2>1 DEF Types
    <2>7. Types'
        <3>1. inUse' \in [Opens -> BOOLEAN] /\ hit' \in [Opens -> BOOLEAN]
            BY <2>1, Zenon DEF Types
        <3>2. \A x \in DOMAIN plans' : plans'[x] \in Opens
            BY <2>0, <2>2 DEF Types
        <3> QED  BY <2>0, <2>1, <3>1, <3>2 DEF Types
    <2>8. Ownership'
        <3>1. \A o \in OpenRows' : ~hit'[o] => sqlOf'[o] = o
            BY <2>3, <2>4, <2>5, Zenon DEF Ownership
        <3>2. \A o \in OpenRows' : hit'[o] => state'[sqlOf'[o]] = "closed"
            <4>1. \A o \in OpenRows' : hit'[o] => state[sqlOf[o]] = "closed" /\ sqlOf'[o] = sqlOf[o]
                BY <2>3, <2>4, <2>5, Zenon DEF Ownership
            <4> QED  BY <2>3, <2>4, <2>6, <4>1
        <3>3. \A x \in DOMAIN plans' : state'[plans'[x]] = "closed"
            <4>1. ~hit[r] => s = r
                BY <2>0, <2>a, Zenon DEF Ownership
            <4>2. state'[r] = "closed"
                BY <2>1 DEF Types
            <4>3. \A x \in DOMAIN plans : plans[x] \in Opens /\ state[plans[x]] = "closed"
                BY DEF Types, Ownership
            <4> QED  BY <2>2, <2>6, <4>1, <4>2, <4>3
        <3>4. \A o \in Opens : hit'[o] => o \in OpenRows'
            BY <2>3, <2>5, Zenon DEF Ownership
        <3> QED  BY <3>1, <3>2, <3>3, <3>4, Zenon DEF Ownership
    <2>9. PlanExclusive'
        BY <2>3, <2>4 DEF PlanExclusive
    <2>10. InUseWhileOpen' /\ NoStrayProducer'
        <3>1. \A t \in Opens \ {s} : InUseBy(t)' = InUseBy(t) /\ r \notin InUseBy(t)
            BY <2>0, <2>a, <2>3, <2>4 DEF InUseBy
        <3>2. InUseBy(s)' = {}
            BY <2>3, <2>4 DEF InUseBy
        <3>3. \A t \in Opens : \A o \in InUseBy(t) : o \in Opens
            BY DEF InUseBy, OpenRows
        <3>4. InUseWhileOpen'
            <4>1. ASSUME NEW t \in Opens
                  PROVE  inUse'[t] <=> \E o \in InUseBy(t)' : hit'[o]
                <5>1. CASE t = s
                    BY <2>5, <3>2, <5>1, Zenon
                <5>2. CASE t # s
                    <6>1. /\ InUseBy(t)' = InUseBy(t) /\ inUse'[t] = inUse[t]
                          /\ \A o \in InUseBy(t) : o \in Opens \ {r}
                        BY <2>5, <3>1, <3>3, <5>2, Zenon
                    <6>2. \A o \in InUseBy(t) : hit'[o] = hit[o]
                        BY <2>5, <6>1, Zenon
                    <6>3. inUse[t] <=> \E o \in InUseBy(t) : hit[o]
                        BY Zenon DEF InUseWhileOpen
                    <6> QED  BY <6>1, <6>2, <6>3, Zenon
                <5> QED  BY <5>1, <5>2
            <4> QED  BY <4>1, Zenon DEF InUseWhileOpen
        <3>5. NoStrayProducer'
            BY <2>0, <2>1, <3>1 DEF NoStrayProducer, Types
        <3> QED  BY <3>4, <3>5
    <2> QED  BY <2>7, <2>8, <2>9, <2>10
<1>9. ASSUME NEW s \in Opens, Produce(s)
      PROVE  IInv'
    <2>1. UNCHANGED <<plans, state, sqlOf, hit, inUse>>
        BY <1>9 DEF Produce, ProducerRead, ProducerTake, connVars, rowsVars
    <2>2. /\ producer[s] \in {"read", "take"}
          /\ \E v \in {"read", "take", "done"} : producer' = [producer EXCEPT ![s] = v]
        BY <1>9 DEF Produce, ProducerRead, ProducerTake
    <2>3. /\ producer' \in [Opens -> {"off", "read", "take", "done"}]
          /\ \A t \in Opens : producer'[t] # "off" => producer[t] # "off"
        BY <2>2 DEF Types
    <2> QED  BY <2>1, <2>3, Untouched
<1>10. CASE UNCHANGED vars
    <2>1. UNCHANGED <<plans, state, sqlOf, hit, inUse, producer>>
        BY <1>10 DEF vars, connVars, rowsVars, sqlVars, scanVars
    <2> QED  BY <2>1, Untouched DEF Types
<1> QED  BY <1>1, <1>2, <1>3, <1>4, <1>5, <1>6, <1>7, <1>8, <1>9, <1>10 DEF Next, QueryContext

LEMMA Invariance == Spec => []IInv
BY InitIInv, StepIInv, PTL DEF Spec

\* Two open Rows of a connection never share an SQL object (Plan.Execute refuses a plan in
\* use, plan.go:27-30), for any number of Rows, queries and plans.
THEOREM ExclusiveUse == Spec => []PlanExclusive
<1>1. IInv => PlanExclusive
    BY DEF IInv
<1> QED  BY <1>1, Invariance, PTL

\* A plan is in use exactly as long as open Rows hold it: none is lost by staying marked.
THEOREM ReleasedOnClose == Spec => []InUseWhileOpen
<1>1. IInv => InUseWhileOpen
    BY DEF IInv
<1> QED  BY <1>1, Invariance, PTL

\* No producer outlives the Rows of its fast scan.
THEOREM ProducersStopped == Spec => []NoStrayProducer
<1>1. IInv => NoStrayProducer
    BY DEF IInv
<1> QED  BY <1>1, Invariance, PTL

-----------------------------------------------------------------------------
(* Where the rows of a query stand *)

\* Row k of page p of a query.
RowSet == (Queries \X Nat) \X Nat

\* The first k rows of page p.
PageRows(q, p, k) == [j \in 1..k |-> <<<<q, p>>, j>>]

\* The rows of the first p pages.
Upto(q, p) == FlattenSeq([i \in 1..p |-> PageRows(q, i, Pages[q][i])])

\* The rows up to row k of page p: what a scan at that position has returned.
Seen(q, p, k) == IF p = 0 THEN <<>> ELSE Upto(q, p - 1) \o PageRows(q, p, k)

\* The rows of a query before its LIMIT.
Full(q) == IF Kind[q] = "sorted" THEN Sorted(AllRows(q)) ELSE AllRows(q)

\* The scan of a table stands at a row of it, with the page in the buffer of the handle.
AtPosition(s) ==
    LET q == query[s] IN
    /\ page[s] \in 0..Len(Pages[q])
    /\ page[s] = 0 => row[s] = 0
    /\ page[s] > 0 => row[s] \in 0..Pages[q][page[s]] /\ buf = <<q, page[s]>>

\* The pages whose rows a producer has handed on.
Taken(s) == IF producer[s] = "take" THEN page[s] - 1 ELSE page[s]

\* Where the rows delivered stand in the result: in a scan they are the rows up to its
\* position; of a fast scan they are, with the ones that are ready, those of the pages taken.
Standing(r) ==
    LET s == sqlOf[r]
        q == query[s]
    IN
    /\ Kind[q] = "scan" => AtPosition(s) /\ out[r] = Seen(q, page[s], row[s])
    /\ Kind[q] \in {"sorted", "temp"} => out[r] \in Seq(RowSet) /\ IsPrefix(out[r], Full(q))
    /\ Kind[q] = "fast" =>
        /\ producer[s] # "off" /\ page[s] \in 0..Len(Pages[q])
        /\ producer[s] = "take" => page[s] > 0 /\ buf = <<q, page[s]>>
        /\ producer[s] = "done" => page[s] = Len(Pages[q])
        /\ out[r] \in Seq(RowSet) /\ batches[s] \in Seq(RowSet)
        /\ out[r] \o batches[s] = Upto(q, Taken(s))

\* Rows over an SQL object that has run alone: only a fast scan has a producer.
AsFresh(r) ==
    LET s == sqlOf[r]
        q == query[s]
    IN
    /\ Kind[q] # "fast" => producer[s] = "off"
    /\ state[r] = "opening" =>
        /\ s = r /\ Kind[q] = "sorted" /\ AtPosition(s)
        /\ snapshot[s] = Seen(q, page[s], row[s])
        /\ count[s] = 0 /\ out[r] = <<>> /\ ~ended[r]
    /\ state[r] = "open" =>
        /\ Kind[q] \in {"sorted", "temp"} => snapshot[s] = Full(q)
        /\ ended[r] => out[r] = Expected(q)
        /\ ~ended[r] =>
            /\ count[s] = Len(out[r])
            /\ Limit[q] >= 0 => count[s] <= Limit[q]
            /\ Standing(r)

\* A plan belongs to its query and keeps its sorted rows.
PlansKept ==
    \A q \in DOMAIN plans :
        LET s == plans[q] IN
        /\ q \in Queries /\ query[s] = q /\ Kind[q] # "temp"
        /\ Kind[q] = "sorted" /\ s \notin disturbed => snapshot[s] = Full(q)

FreshInv ==
    /\ OpenRows # {} \/ DOMAIN plans # {} => handle = "open"
    /\ PlansKept
    /\ \A r \in Opens : state[r] = "none" => out[r] = <<>> /\ ~ended[r]
    /\ \A r \in OpenRows : 
        /\ query[sqlOf[r]] \in Queries
        /\ sqlOf[r] \notin disturbed => OpenRows = {r} /\ AsFresh(r)

-----------------------------------------------------------------------------
(* Sequences *)

\* The concatenation of sequences is what one gets by appending them one by one.
LEMMA FlattenIs ==
    ASSUME NEW seqs, NEW n \in Nat, DOMAIN seqs = 1..n, Len(seqs) = n,
           NEW S, \A i \in 1..n : seqs[i] \in Seq(S),
           NEW f, f[0] = <<>>, \A i \in 1..n : f[i] = f[i - 1] \o seqs[i],
           n = 0 => seqs = <<>>
    PROVE  FlattenSeq(seqs) = f[n]
<1>1. CASE n = 0
    BY <1>1 DEF FlattenSeq
<1>2. CASE n # 0
    <2> DEFINE Body(g, i) == IF i = 1 THEN seqs[i] ELSE g[i - 1] \o seqs[i]
               flatten == CHOOSE g : g = [i \in 1..Len(seqs) |-> Body(g, i)]
               some == [i \in 1..Len(seqs) |-> f[i]]
    <2>1. FlattenSeq(seqs) = flatten[n]
        BY <1>2 DEF FlattenSeq
    <2>2. f[1] = seqs[1]
        <3>1. 1 \in 1..n /\ 1 - 1 = 0
            BY <1>2
        <3>2. f[1] = <<>> \o seqs[1] /\ seqs[1] \in Seq(S)
            BY <3>1
        <3> QED  BY <3>2
    <2>3. some = [i \in 1..n |-> Body(some, i)]
        <3>1. ASSUME NEW i \in 1..n PROVE f[i] = Body(some, i)
            <4>1. CASE i = 1
                BY <2>2, <4>1
            <4>2. CASE i # 1
                <5>1. i - 1 \in 1..n
                    BY <4>2
                <5>2. some[i - 1] = f[i - 1]
                    BY <5>1
                <5> QED  BY <4>2, <5>2
            <4> QED  BY <4>1, <4>2
        <3> HIDE DEF Body
        <3> QED  BY <3>1
    <2>4. flatten = [i \in 1..n |-> Body(flatten, i)]
        <3> HIDE DEF Body, some
        <3> QED  BY <2>3
    <2> HIDE DEF flatten
    <2> DEFINE T == {i \in Nat : i + 1 <= n => flatten[i + 1] = f[i + 1]}
    <2>5. \A i \in 1..n : flatten[i] = Body(flatten, i)
        <3> HIDE DEF Body
        <3> QED  BY <2>4
    <2>6. 0 \in T
        BY <1>2, <2>2, <2>5
    <2>7. ASSUME NEW i \in Nat, i \in T PROVE i + 1 \in T
        <3> SUFFICES ASSUME (i + 1) + 1 <= n PROVE flatten[(i + 1) + 1] = f[(i + 1) + 1]
            OBVIOUS
        <3>1. flatten[i + 1] = f[i + 1] /\ (i + 1) + 1 \in 1..n /\ (i + 1) + 1 # 1
              /\ ((i + 1) + 1) - 1 = i + 1
            BY <2>7
        <3>2. flatten[(i + 1) + 1] = flatten[i + 1] \o seqs[(i + 1) + 1]
            BY <2>5, <3>1
        <3> QED  BY <3>1, <3>2
    <2>8. Nat \subseteq T
        <3> HIDE DEF T
        <3> QED  BY <2>6, <2>7, NatInduct
    <2>9. n - 1 \in Nat /\ (n - 1) + 1 = n
        BY <1>2
    <2>10. flatten[(n - 1) + 1] = f[(n - 1) + 1]
        <3>1. n - 1 \in T
            BY <2>8, <2>9
        <3>2. (n - 1) + 1 <= n
            BY <2>9
        <3> QED  BY <3>1, <3>2
    <2> QED  BY <2>1, <2>9, <2>10
<1> QED  BY <1>1, <1>2

\* A prefix has the elements of the whole.
LEMMA PrefixIs ==
    ASSUME NEW S, NEW s \in Seq(S), NEW t \in Seq(S)
    PROVE  IsPrefix(s, t) <=> Len(s) <= Len(t) /\ \A i \in 1..Len(s) : s[i] = t[i]
<1>0. Len(s) \in Nat /\ Len(t) \in Nat
    OBVIOUS
<1>1. SubSeq(s, 1, Len(s)) = s
    OBVIOUS
<1>2. ASSUME Len(s) <= Len(t)
      PROVE  SubSeq(t, 1, Len(s)) = s <=> \A i \in 1..Len(s) : s[i] = t[i]
    <2>1. SubSeq(t, 1, Len(s)) \in Seq(S) /\ Len(SubSeq(t, 1, Len(s))) = Len(s)
          /\ \A i \in 1..Len(s) : SubSeq(t, 1, Len(s))[i] = t[i]
        BY <1>0, <1>2
    <2> QED  BY <2>1
<1> QED  BY <1>1, <1>2 DEF IsPrefix

\* The front of a concatenation is a prefix of it.
LEMMA PrefixOfWhole ==
    ASSUME NEW S, NEW s \in Seq(S), NEW t \in Seq(S)
    PROVE  s \o t \in Seq(S) /\ IsPrefix(s, s \o t)
<1>1. /\ s \o t \in Seq(S) /\ Len(s) <= Len(s \o t)
      /\ \A i \in 1..Len(s) : s[i] = (s \o t)[i]
    OBVIOUS
<1> QED  BY <1>1, PrefixIs

\* A prefix of a prefix is one of the whole.
LEMMA PrefixTransitive ==
    ASSUME NEW S, NEW s \in Seq(S), NEW t \in Seq(S), NEW u \in Seq(S),
           IsPrefix(s, t), IsPrefix(t, u)
    PROVE  IsPrefix(s, u)
<1>1. /\ Len(s) <= Len(t) /\ \A i \in 1..Len(s) : s[i] = t[i]
      /\ Len(t) <= Len(u) /\ \A i \in 1..Len(t) : t[i] = u[i]
    BY PrefixIs
<1>2. Len(s) <= Len(u) /\ \A i \in 1..Len(s) : i \in 1..Len(t)
    BY <1>1
<1>3. \A i \in 1..Len(s) : s[i] = u[i]
    BY <1>1, <1>2
<1> QED  BY <1>2, <1>3, PrefixIs

\* A prefix that is as long as the whole is the whole; a shorter one can be extended by the
\* element behind it.
LEMMA PrefixGrows ==
    ASSUME NEW S, NEW s \in Seq(S), NEW t \in Seq(S), IsPrefix(s, t)
    PROVE  /\ Len(s) >= Len(t) => s = t
           /\ Len(s) < Len(t) => IsPrefix(Append(s, t[Len(s) + 1]), t)
<1>1. Len(s) <= Len(t) /\ \A i \in 1..Len(s) : s[i] = t[i]
    BY PrefixIs
<1>2. ASSUME Len(s) >= Len(t) PROVE s = t
    BY <1>1, <1>2
<1>3. ASSUME Len(s) < Len(t) PROVE IsPrefix(Append(s, t[Len(s) + 1]), t)
    <2> DEFINE u == Append(s, t[Len(s) + 1])
    <2>1. Len(s) + 1 \in 1..Len(t) /\ t[Len(s) + 1] \in S
        BY <1>3
    <2>2. u \in Seq(S) /\ Len(u) = Len(s) + 1 /\ u[Len(s) + 1] = t[Len(s) + 1]
          /\ \A i \in 1..Len(s) : u[i] = s[i]
        BY <2>1
    <2> HIDE DEF u
    <2>3. \A i \in 1..Len(u) : u[i] = t[i]
        BY <1>1, <2>2
    <2>4. Len(u) <= Len(t)
        BY <1>3, <2>2
    <2>5. IsPrefix(u, t)
        BY <2>2, <2>3, <2>4, PrefixIs
    <2> QED  BY <2>5 DEF u
<1> QED  BY <1>2, <1>3

\* What one element more makes of a sequence.
LEMMA AppendIs ==
    ASSUME NEW S, NEW s \in Seq(S), NEW x \in S, NEW t \in Seq(S), Len(t) = Len(s) + 1,
           t[Len(s) + 1] = x, \A i \in 1..Len(s) : t[i] = s[i]
    PROVE  t = Append(s, x)
  OBVIOUS

\* Behind the same front, a prefix stays one.
LEMMA ConcatPrefix ==
    ASSUME NEW S, NEW s \in Seq(S), NEW t \in Seq(S), NEW u \in Seq(S), IsPrefix(t, u)
    PROVE  IsPrefix(s \o t, s \o u)
<1>1. Len(t) <= Len(u) /\ \A i \in 1..Len(t) : t[i] = u[i]
    BY PrefixIs
<1>2. /\ s \o t \in Seq(S) /\ Len(s \o t) = Len(s) + Len(t)
      /\ s \o u \in Seq(S) /\ Len(s \o u) = Len(s) + Len(u)
    OBVIOUS
<1>3. PICK l \in Nat, m \in Nat, n \in Nat : l = Len(s) /\ m = Len(t) /\ n = Len(u)
    OBVIOUS
<1>4. ASSUME NEW i \in 1..l + m PROVE (s \o t)[i] = (s \o u)[i]
    <2>1. CASE i <= l
        BY <1>3, <2>1
    <2>2. CASE i > l
        <3>1. i - l \in 1..m
            BY <2>2
        <3>2. (s \o t)[i] = t[i - l] /\ (s \o u)[i] = u[i - l]
            BY <1>1, <1>3, <2>2
        <3> QED  BY <1>1, <1>3, <3>1, <3>2
    <2>3. i <= l \/ i > l
        OBVIOUS
    <2> QED  BY <2>1, <2>2, <2>3
<1>5. Len(s \o t) <= Len(s \o u) /\ \A i \in 1..Len(s \o t) : (s \o t)[i] = (s \o u)[i]
    BY <1>1, <1>2, <1>3, <1>4
<1> QED  BY <1>2, <1>5, PrefixIs

\* Nothing is a prefix of everything.
LEMMA EmptyPrefix ==
    ASSUME NEW S, NEW t \in Seq(S) PROVE IsPrefix(<<>>, t)
<1>1. <<>> \in Seq(S) /\ <<>> \o t = t
    OBVIOUS
<1> QED  BY <1>1, PrefixOfWhole

\* A table with one entry replaced.
LEMMA TableUpdate ==
    ASSUME NEW D, NEW t, t = [x \in D |-> t[x]], NEW r \in D, NEW v
    PROVE  /\ [t EXCEPT ![r] = v][r] = v
           /\ \A x \in D \ {r} : [t EXCEPT ![r] = v][x] = t[x]
           /\ [t EXCEPT ![r] = v] = [x \in D |-> [t EXCEPT ![r] = v][x]]
  OBVIOUS

\* Moving the head of one sequence to the end of another.
LEMMA HeadMoves ==
    ASSUME NEW S, NEW s \in Seq(S), NEW t \in Seq(S), t # <<>>
    PROVE  Append(s, Head(t)) \o Tail(t) = s \o t /\ Append(s, Head(t)) \in Seq(S)
  OBVIOUS

-----------------------------------------------------------------------------
(* The rows of a query *)

\* What the constants are for a query.
LEMMA QueryFacts ==
    ASSUME NEW q \in Queries
    PROVE  /\ Kind[q] \in {"scan", "fast", "sorted", "temp"}
           /\ Len(Pages[q]) \in Nat \ {0}
           /\ \A p \in 1..Len(Pages[q]) : Pages[q][p] \in Nat \ {0}
           /\ Limit[q] \in Nat \cup {-1}
<1>1. Pages[q] \in Seq(Nat \ {0}) /\ Pages[q] # <<>>
    BY ConnectionAssumption
<1> QED  BY <1>1, ConnectionAssumption

LEMMA PageRowsAre ==
    ASSUME NEW q \in Queries, NEW p \in Nat, NEW k \in Nat
    PROVE  /\ PageRows(q, p, k) \in Seq(RowSet) /\ Len(PageRows(q, p, k)) = k
           /\ PageRows(q, p, k + 1) = Append(PageRows(q, p, k), <<<<q, p>>, k + 1>>)
<1>1. \A j \in 1..k + 1 : <<<<q, p>>, j>> \in RowSet
    BY DEF RowSet
<1>2. PageRows(q, p, k) \in Seq(RowSet) /\ Len(PageRows(q, p, k)) = k
      /\ PageRows(q, p, k + 1) \in Seq(RowSet) /\ Len(PageRows(q, p, k + 1)) = k + 1
    BY <1>1 DEF PageRows
<1>3. PageRows(q, p, k + 1)[k + 1] = <<<<q, p>>, k + 1>>
      /\ \A j \in 1..k : PageRows(q, p, k + 1)[j] = PageRows(q, p, k)[j]
    BY DEF PageRows
<1>4. <<<<q, p>>, k + 1>> \in RowSet
    BY <1>1
<1> QED  BY <1>2, <1>3, <1>4, AppendIs

\* The rows of one page more.
LEMMA UptoIs ==
    ASSUME NEW q \in Queries
    PROVE  /\ Upto(q, 0) = <<>>
           /\ \A p \in 0..Len(Pages[q]) : Upto(q, p) \in Seq(RowSet)
           /\ \A p \in 0..Len(Pages[q]) - 1 :
                 Upto(q, p + 1) = Upto(q, p) \o PageRows(q, p + 1, Pages[q][p + 1])
           /\ Upto(q, Len(Pages[q])) = AllRows(q)
<1> DEFINE n == Len(Pages[q])
           rows == [i \in 1..n |-> PageRows(q, i, Pages[q][i])]
           first(p) == [i \in 1..p |-> PageRows(q, i, Pages[q][i])]
<1>0. n \in Nat /\ \A i \in 1..n : Pages[q][i] \in Nat
    BY QueryFacts
<1>1. PICK f : f = [p \in Nat |-> IF p = 0 THEN <<>> ELSE f[p - 1] \o rows[p]]
    BY ConcatExists
<1>2. f[0] = <<>> /\ \A p \in 1..n : f[p] = f[p - 1] \o rows[p]
    <2> HIDE DEF rows
    <2>1. \A p \in Nat : f[p] = IF p = 0 THEN <<>> ELSE f[p - 1] \o rows[p]
        BY <1>1
    <2>2. \A p \in 1..n : p \in Nat /\ p # 0
        BY <1>0
    <2>3. 0 \in Nat
        OBVIOUS
    <2> QED  BY <2>1, <2>2, <2>3, Zenon
<1>3. \A i \in 1..n : rows[i] \in Seq(RowSet)
    <2> TAKE i \in 1..n
    <2>1. i \in Nat /\ Pages[q][i] \in Nat
        BY <1>0
    <2>2. rows[i] = PageRows(q, i, Pages[q][i])
        OBVIOUS
    <2> HIDE DEF rows
    <2> QED  BY <2>1, <2>2, PageRowsAre
<1>4. ASSUME NEW p \in 0..n PROVE Upto(q, p) = f[p]
    <2>1. DOMAIN first(p) = 1..p /\ p \in Nat
        BY <1>0
    <2>2. Len(first(p)) = p
        BY <1>0
    <2>3. \A i \in 1..p : first(p)[i] = rows[i] /\ i \in 1..n
        BY <1>0
    <2>4. \A i \in 1..p : first(p)[i] \in Seq(RowSet)
        BY <1>3, <2>3
    <2>5. \A i \in 1..p : f[i] = f[i - 1] \o first(p)[i]
        BY <1>2, <2>3
    <2>6. p = 0 => first(p) = <<>>
        OBVIOUS
    <2>7. Upto(q, p) = FlattenSeq(first(p))
        BY DEF Upto
    <2> HIDE DEF first
    <2> QED  BY <1>2, <2>1, <2>2, <2>4, <2>5, <2>6, <2>7, FlattenIs
<1>5. \A p \in 0..n : f[p] \in Seq(RowSet)
    <2> DEFINE T == {p \in Nat : p <= n => f[p] \in Seq(RowSet)}
    <2>0. <<>> \in Seq(RowSet)
        OBVIOUS
    <2>1. 0 \in T
        BY <1>2, <2>0, Zenon
    <2>2. ASSUME NEW p \in Nat, p \in T PROVE p + 1 \in T
        <3> HIDE DEF rows
        <3> SUFFICES ASSUME p + 1 <= n PROVE f[p + 1] \in Seq(RowSet)
            OBVIOUS
        <3>1. f[p] \in Seq(RowSet) /\ p + 1 \in 1..n /\ (p + 1) - 1 = p
            BY <1>0, <2>2
        <3>2. f[p + 1] = f[p] \o rows[p + 1] /\ rows[p + 1] \in Seq(RowSet)
            BY <1>2, <1>3, <3>1
        <3> QED  BY <3>1, <3>2
    <2>3. Nat \subseteq T
        <3> HIDE DEF T
        <3> QED  BY <2>1, <2>2, NatInduct
    <2> QED  BY <2>3
<1>6. ASSUME NEW p \in 0..n - 1
      PROVE  Upto(q, p + 1) = Upto(q, p) \o PageRows(q, p + 1, Pages[q][p + 1])
    <2>1. p + 1 \in 1..n /\ p + 1 \in 0..n /\ p \in 0..n /\ (p + 1) - 1 = p
        BY <1>0
    <2>2. rows[p + 1] = PageRows(q, p + 1, Pages[q][p + 1])
        BY <2>1
    <2> HIDE DEF rows
    <2> QED  BY <1>2, <1>4, <2>1, <2>2
<1>7. Upto(q, n) = AllRows(q)
    BY DEF Upto, AllRows, PageRows
<1>8. 0 \in 0..n
    BY <1>0
<1> QED  BY <1>2, <1>4, <1>5, <1>6, <1>7, <1>8

LEMMA UptoPrefix ==
    ASSUME NEW q \in Queries, NEW p \in 0..Len(Pages[q])
    PROVE  Upto(q, p) \in Seq(RowSet) /\ IsPrefix(Upto(q, p), AllRows(q))
           /\ AllRows(q) \in Seq(RowSet)
<1> DEFINE n == Len(Pages[q])
           T == {d \in Nat : \A m \in 0..n : n - m = d => IsPrefix(Upto(q, m), Upto(q, n))}
<1>0. n \in Nat /\ \A i \in 1..n : Pages[q][i] \in Nat
    BY QueryFacts
<1>1. \A m \in 0..n : Upto(q, m) \in Seq(RowSet)
    BY UptoIs
<1>2. n \in 0..n
    BY <1>0
<1>3. 0 \in T
    <2>1. \A m \in 0..n : n - m = 0 => m = n
        BY <1>0
    <2>2. IsPrefix(Upto(q, n), Upto(q, n))
        BY DEF IsPrefix
    <2> QED  BY <2>1, <2>2
<1>4. ASSUME NEW d \in Nat, d \in T PROVE d + 1 \in T
    <2> SUFFICES ASSUME NEW m \in 0..n, n - m = d + 1 PROVE IsPrefix(Upto(q, m), Upto(q, n))
        OBVIOUS
    <2>1. m + 1 \in 0..n /\ m \in 0..n - 1 /\ n - (m + 1) = d /\ m + 1 \in 1..n /\ m + 1 \in Nat
        BY <1>0
    <2>2. IsPrefix(Upto(q, m + 1), Upto(q, n))
        BY <1>4, <2>1
    <2>3. Upto(q, m + 1) = Upto(q, m) \o PageRows(q, m + 1, Pages[q][m + 1])
        BY <2>1, UptoIs
    <2>4. PageRows(q, m + 1, Pages[q][m + 1]) \in Seq(RowSet)
        BY <1>0, <2>1, PageRowsAre
    <2>5. IsPrefix(Upto(q, m), Upto(q, m + 1))
        BY <1>1, <2>3, <2>4, PrefixOfWhole
    <2> QED  BY <1>1, <1>2, <2>1, <2>2, <2>5, PrefixTransitive
<1>5. Nat \subseteq T
    <2> HIDE DEF T
    <2> QED  BY <1>3, <1>4, NatInduct
<1>6. n - p \in Nat
    BY <1>0
<1>7. IsPrefix(Upto(q, p), Upto(q, n))
    BY <1>5, <1>6
<1> QED  BY <1>1, <1>2, <1>7, UptoIs

\* What follows a position: the next row of the page, behind its last row the first one of
\* the next page.
LEMMA SeenIs ==
    ASSUME NEW q \in Queries, NEW p \in 1..Len(Pages[q]), NEW k \in 0..Pages[q][p]
    PROVE  /\ Seen(q, p, k) \in Seq(RowSet) /\ IsPrefix(Seen(q, p, k), AllRows(q))
           /\ Seen(q, p, k + 1) = Append(Seen(q, p, k), <<<<q, p>>, k + 1>>)
           /\ Seen(q, p, Pages[q][p]) = Upto(q, p)
<1>0. /\ Len(Pages[q]) \in Nat /\ Pages[q][p] \in Nat
      /\ p \in Nat /\ p # 0 /\ k \in Nat /\ k + 1 \in Nat
      /\ p - 1 \in 0..Len(Pages[q]) - 1 /\ p - 1 \in 0..Len(Pages[q]) /\ (p - 1) + 1 = p
      /\ p \in 0..Len(Pages[q])
    BY QueryFacts
<1> DEFINE s == Upto(q, p - 1)
           t == PageRows(q, p, k)
           u == PageRows(q, p, Pages[q][p])
           x == <<<<q, p>>, k + 1>>
<1>1. s \in Seq(RowSet) /\ t \in Seq(RowSet) /\ u \in Seq(RowSet) /\ Len(t) = k /\ Len(u) = Pages[q][p]
    BY <1>0, PageRowsAre, UptoIs
<1>2. Upto(q, p) = s \o u
    BY <1>0, UptoIs
<1>3. \A j \in 1..k : t[j] = u[j]
    BY <1>0 DEF PageRows
<1>4. Seen(q, p, k) = s \o t /\ Seen(q, p, Pages[q][p]) = s \o u
      /\ Seen(q, p, k + 1) = s \o PageRows(q, p, k + 1)
    BY <1>0 DEF Seen
<1>5. PageRows(q, p, k + 1) = Append(t, x) /\ x \in RowSet
    BY <1>0, PageRowsAre DEF RowSet
<1> HIDE DEF s, t, u, x
<1>6. IsPrefix(s \o t, s \o u) /\ s \o t \in Seq(RowSet) /\ s \o u \in Seq(RowSet)
    <2>1. s \o t \in Seq(RowSet) /\ s \o u \in Seq(RowSet)
        BY <1>1
    <2>2. Len(t) <= Len(u)
        BY <1>0, <1>1
    <2>3. IsPrefix(t, u)
        BY <1>1, <1>3, <2>2, PrefixIs
    <2> QED  BY <1>1, <2>1, <2>3, ConcatPrefix
<1>7. IsPrefix(s \o u, AllRows(q)) /\ AllRows(q) \in Seq(RowSet)
    BY <1>0, <1>2, UptoPrefix
<1>8. IsPrefix(s \o t, AllRows(q))
    BY <1>6, <1>7, PrefixTransitive
<1>9. s \o Append(t, x) = Append(s \o t, x)
    BY <1>1, <1>5
<1> QED  BY <1>2, <1>4, <1>5, <1>6, <1>8, <1>9 DEF x

LEMMA SeenFirst ==
    ASSUME NEW q \in Queries, NEW p \in 0..Len(Pages[q]) - 1
    PROVE  Seen(q, p + 1, 1) = Append(Upto(q, p), <<<<q, p + 1>>, 1>>)
<1>0. /\ p + 1 \in 1..Len(Pages[q]) /\ p + 1 # 0 /\ (p + 1) - 1 = p /\ p \in 0..Len(Pages[q])
      /\ Pages[q][p + 1] \in Nat /\ 0 \in 0..Pages[q][p + 1] /\ p + 1 \in Nat /\ 0 + 1 = 1
    BY QueryFacts
<1>1. PageRows(q, p + 1, 0) = <<>>
    BY <1>0, PageRowsAre
<1>2. Upto(q, p) \o <<>> = Upto(q, p)
    BY <1>0, UptoIs
<1>3. Seen(q, p + 1, 0) = Upto(q, p)
    BY <1>0, <1>1, <1>2 DEF Seen
<1>4. Seen(q, p + 1, 0 + 1) = Append(Seen(q, p + 1, 0), <<<<q, p + 1>>, 0 + 1>>)
    BY <1>0, SeenIs
<1> QED  BY <1>0, <1>3, <1>4

\* The rows before the LIMIT, and what the LIMIT leaves of them.
LEMMA FullIs ==
    ASSUME NEW q \in Queries
    PROVE  Full(q) \in Seq(RowSet) /\ AllRows(q) \in Seq(RowSet)
<1>1. AllRows(q) \in Seq(RowSet)
    <2>1. 0 \in 0..Len(Pages[q])
        BY QueryFacts
    <2> QED  BY <2>1, UptoPrefix
<1>2. Reverse(AllRows(q)) \in Seq(RowSet)
    <2> DEFINE s == AllRows(q)
    <2>1. Len(s) \in Nat /\ \A i \in 1..Len(s) : s[(Len(s) - i) + 1] \in RowSet
        <3> HIDE DEF s
        <3>1. s \in Seq(RowSet)
            BY <1>1 DEF s
        <3>2. Len(s) \in Nat /\ \A i \in 1..Len(s) : (Len(s) - i) + 1 \in 1..Len(s)
            BY <3>1
        <3> QED  BY <3>1, <3>2
    <2>2. Reverse(s) = [i \in 1..Len(s) |-> s[(Len(s) - i) + 1]]
        BY DEF Reverse
    <2> HIDE DEF s
    <2>3. Reverse(s) \in Seq(RowSet)
        BY <2>1, <2>2
    <2> QED  BY <2>3 DEF s
<1> QED  BY <1>1, <1>2 DEF Full, Sorted

LEMMA ExpectedIs ==
    ASSUME NEW q \in Queries, NEW o \in Seq(RowSet), IsPrefix(o, Full(q)),
           Limit[q] >= 0 => Len(o) <= Limit[q]
    PROVE  /\ Expected(q) \in Seq(RowSet) /\ IsPrefix(o, Expected(q))
           /\ o = Full(q) \/ (Limit[q] >= 0 /\ Len(o) + 1 > Limit[q]) => o = Expected(q)
<1> DEFINE all == Full(q)
           least == Min({Limit[q], Len(all)})
<1>0. all \in Seq(RowSet) /\ Len(all) \in Nat /\ Len(o) \in Nat /\ Limit[q] \in Nat \cup {-1}
    BY FullIs, QueryFacts
<1>1. Expected(q) = IF Limit[q] = -1 THEN all ELSE SubSeq(all, 1, least)
    BY DEF Expected, Full
<1>2. Len(o) <= Len(all) /\ \A i \in 1..Len(o) : o[i] = all[i]
    BY <1>0, PrefixIs
<1> HIDE DEF all
<1>3. CASE Limit[q] = -1
    <2>1. Expected(q) = all /\ ~(Limit[q] >= 0)
        BY <1>1, <1>3
    <2> QED  BY <1>0, <2>1 DEF all
<1>4. CASE Limit[q] # -1
    <2>1. Limit[q] \in Nat
        BY <1>0, <1>4
    <2>2. least \in {Limit[q], Len(all)} /\ least <= Limit[q] /\ least <= Len(all)
        <3>1. \E m \in {Limit[q], Len(all)} : \A y \in {Limit[q], Len(all)} : m <= y
            BY <1>0, <2>1
        <3>2. /\ least \in {Limit[q], Len(all)}
              /\ \A y \in {Limit[q], Len(all)} : least <= y
            BY <3>1, Zenon DEF Min
        <3> HIDE DEF least
        <3> QED  BY <3>2
    <2> HIDE DEF least
    <2>3. least \in Nat /\ Len(o) <= least
        BY <1>0, <1>2, <2>1, <2>2
    <2>4. /\ SubSeq(all, 1, least) \in Seq(RowSet) /\ Len(SubSeq(all, 1, least)) = least
          /\ \A i \in 1..least : SubSeq(all, 1, least)[i] = all[i]
        BY <1>0, <2>2, <2>3
    <2>5. \A i \in 1..Len(o) : i \in 1..least
        BY <1>0, <2>3
    <2>6. IsPrefix(o, SubSeq(all, 1, least))
        BY <1>0, <1>2, <2>3, <2>4, <2>5, PrefixIs
    <2>7. ASSUME o = all \/ Len(o) + 1 > Limit[q] PROVE o = SubSeq(all, 1, least)
        <3>1. Len(o) >= least
            <4>1. CASE o = all
                BY <2>2, <4>1
            <4>2. CASE Len(o) + 1 > Limit[q]
                BY <1>0, <2>1, <2>2, <2>3, <4>2
            <4> QED  BY <2>7, <4>1, <4>2
        <3>2. PICK w \in Seq(RowSet) : w = SubSeq(all, 1, least) /\ Len(w) = least
            BY <2>4
        <3>3. IsPrefix(o, w) /\ Len(o) >= Len(w)
            BY <2>6, <3>1, <3>2
        <3>4. o = w
            BY <3>3, PrefixGrows
        <3> QED  BY <3>2, <3>4
    <2> QED  BY <1>1, <1>4, <2>4, <2>6, <2>7 DEF all
<1> QED  BY <1>3, <1>4

-----------------------------------------------------------------------------
(* Reading rows *)

\* Nothing but s reads pages.
Alone(s) == \A t \in Opens \ {s} : producer[t] = "off"

\* A page of a query in the buffer is what it seems, and seen as long as s is alone.
LEMMA OwnBuffer ==
    ASSUME NEW s, Alone(s), NEW q \in Queries, NEW p \in Nat
    PROVE  /\ BufferSeen(s, <<q, p>>) = {<<q, p>>}
           /\ RowCounts(<<q, p>>) = {Pages[q][p]}
<1>1. <<q, p>> # Stray
    BY ConnectionAssumption
<1>2. ~\E t \in Opens \ {s} : producer[t] \in {"read", "take"}
    BY DEF Alone
<1>3. <<q, p>>[1] = q /\ <<q, p>>[2] = p
    OBVIOUS
<1>4. RowCounts(<<q, p>>) = {Pages[q][p]}
    BY <1>1, <1>3 DEF RowCounts
<1>5. BufferSeen(s, <<q, p>>) = {<<q, p>>} \cup {}
    BY <1>2, Zenon DEF BufferSeen
<1> QED  BY <1>4, <1>5

\* What FetchRow finds for an SQL object that is alone and at its position.
Ends(s, f) == f.got = <<>> /\ Seen(query[s], page[s], row[s]) = AllRows(query[s])
Moves(s, f) ==
    LET q == query[s] IN
    /\ f.got # <<>> /\ f.got \in RowSet
    /\ f.page \in 1..Len(Pages[q]) /\ f.row \in 0..Pages[q][f.page] /\ f.buf = <<q, f.page>>
    /\ Seen(q, f.page, f.row) = Append(Seen(q, page[s], row[s]), f.got)

\* FetchRow of an SQL object that is alone finds the row behind its position or the end.
LEMMA FetchesAre ==
    ASSUME NEW s \in Opens, query[s] \in Queries, AtPosition(s), Alone(s), NEW f \in Fetches(s)
    PROVE  Ends(s, f) \/ Moves(s, f)
<1> DEFINE q == query[s]
           n == Len(Pages[q])
           p == IF page[s] = 0 THEN 1 ELSE page[s]
           start == IF page[s] = 0 THEN <<q, 1>> ELSE buf
           here == {[page |-> p, row |-> row[s] + 1, buf |-> b, got |-> RowAt(s, p, b, row[s] + 1)] :
                       b \in {b \in BufferSeen(s, start) : \E c \in RowCounts(b) : row[s] < c}}
           over == {b \in BufferSeen(s, start) : \E c \in RowCounts(b) : row[s] >= c}
           last == {[page |-> p, row |-> 0, buf |-> b, got |-> <<>>] : b \in over}
           next == {[page |-> p + 1, row |-> 1, buf |-> b, got |-> RowAt(s, p + 1, b, 1)] :
                       b \in BufferSeen(s, <<q, p + 1>>)}
<1>0. /\ q \in Queries /\ n \in Nat \ {0} /\ \A i \in 1..n : Pages[q][i] \in Nat \ {0}
      /\ page[s] \in 0..n /\ (page[s] = 0 => row[s] = 0)
      /\ page[s] > 0 => row[s] \in 0..Pages[q][page[s]] /\ buf = <<q, page[s]>>
    BY QueryFacts DEF AtPosition
<1>1. p \in 1..n /\ start = <<q, p>> /\ row[s] \in 0..Pages[q][p] /\ Pages[q][p] \in Nat \ {0}
    BY <1>0
<1>2. f \in here \/ (over # {} /\ LastPage(s, p) /\ f \in last)
                 \/ (over # {} /\ ~LastPage(s, p) /\ f \in next)
    BY Zenon DEF Fetches
<1>3. BufferSeen(s, start) = {<<q, p>>} /\ RowCounts(<<q, p>>) = {Pages[q][p]}
    <2> HIDE DEF p, start
    <2>1. p \in Nat
        BY <1>0, <1>1
    <2> QED  BY <1>0, <1>1, <2>1, OwnBuffer
<1> HIDE DEF p, start
<1>4. Seen(q, page[s], row[s]) = IF page[s] = 0 THEN <<>> ELSE Seen(q, p, row[s])
    BY <1>0 DEF Seen, p
<1>5. CASE f \in here
    <2>1. PICK b \in {<<q, p>>} : /\ \E c \in RowCounts(b) : row[s] < c
                                  /\ f = [page |-> p, row |-> row[s] + 1, buf |-> b,
                                          got |-> RowAt(s, p, b, row[s] + 1)]
        BY <1>3, <1>5
    <2>2. b = <<q, p>> /\ row[s] < Pages[q][p]
        BY <1>3, <2>1
    <2>3. RowAt(s, p, b, row[s] + 1) = <<<<q, p>>, row[s] + 1>>
        BY <2>2 DEF RowAt
    <2>4. /\ f.page = p /\ f.row = row[s] + 1 /\ f.buf = <<q, p>>
          /\ f.got = <<<<q, p>>, row[s] + 1>>
        BY <2>1, <2>2, <2>3
    <2>5. f.row \in 0..Pages[q][p] /\ row[s] \in Nat
        BY <1>1, <2>2, <2>4
    <2>6. f.got # <<>> /\ f.got \in RowSet
        BY <1>0, <1>1, <2>4, <2>5 DEF RowSet
    <2>7. Seen(q, p, row[s] + 1) = Append(Seen(q, p, row[s]), <<<<q, p>>, row[s] + 1>>)
        BY <1>0, <1>1, SeenIs
    <2>8. page[s] = 0 => Seen(q, p, row[s]) = <<>>
        <3> SUFFICES ASSUME page[s] = 0 PROVE Seen(q, p, row[s]) = <<>>
            OBVIOUS
        <3>1. p = 1 /\ row[s] = 0 /\ 1 # 0 /\ 1 - 1 = 0
            BY <1>0 DEF p
        <3>2. PageRows(q, 1, 0) = <<>> /\ Upto(q, 0) = <<>>
            <4>1. PageRows(q, 1, 0) \in Seq(RowSet) /\ Len(PageRows(q, 1, 0)) = 0
                <5>1. 1 \in Nat /\ 0 \in Nat
                    OBVIOUS
                <5> QED  BY <1>0, <5>1, PageRowsAre, Zenon
            <4>2. PageRows(q, 1, 0) = <<>>
                BY <4>1
            <4> QED  BY <1>0, <4>2, UptoIs
        <3>3. Seen(q, 1, 0) = <<>> \o <<>>
            BY <3>1, <3>2 DEF Seen
        <3> QED  BY <3>1, <3>3
    <2>9. Seen(q, page[s], row[s]) = Seen(q, p, row[s])
        BY <1>4, <2>8
    <2>10. Seen(q, f.page, f.row) = Append(Seen(q, page[s], row[s]), f.got)
        BY <2>4, <2>7, <2>9
    <2> QED  BY <1>1, <2>4, <2>5, <2>6, <2>10, Zenon DEF Moves
<1>6. ASSUME over # {}
      PROVE  page[s] = p /\ page[s] \in 1..n /\ row[s] = Pages[q][p]
             /\ Seen(q, page[s], row[s]) = Upto(q, p)
    <2>1. row[s] >= Pages[q][p]
        BY <1>3, <1>6
    <2>2. page[s] # 0 /\ p = page[s]
        BY <1>0, <1>1, <2>1 DEF p
    <2>3. row[s] = Pages[q][p]
        BY <1>1, <2>1
    <2>4. Seen(q, p, Pages[q][p]) = Upto(q, p)
        <3>1. 0 \in 0..Pages[q][p]
            BY <1>1
        <3> QED  BY <1>0, <1>1, <3>1, SeenIs
    <2> QED  BY <1>1, <2>2, <2>3, <2>4
<1>7. CASE over # {} /\ LastPage(s, p) /\ f \in last
    <2>1. p = n
        BY <1>7 DEF LastPage
    <2>2. f.got = <<>>
        BY <1>7
    <2>3. Seen(q, page[s], row[s]) = AllRows(q)
        BY <1>0, <1>6, <1>7, <2>1, UptoIs
    <2> QED  BY <2>2, <2>3 DEF Ends
<1>8. CASE over # {} /\ ~LastPage(s, p) /\ f \in next
    <2>1. p \in 0..n - 1 /\ p + 1 \in 1..n /\ p + 1 \in Nat /\ Pages[q][p + 1] \in Nat \ {0}
        BY <1>0, <1>1, <1>8 DEF LastPage
    <2>2. BufferSeen(s, <<q, p + 1>>) = {<<q, p + 1>>}
        BY <1>0, <2>1, OwnBuffer
    <2>3. f = [page |-> p + 1, row |-> 1, buf |-> <<q, p + 1>>, got |-> RowAt(s, p + 1, <<q, p + 1>>, 1)]
        BY <1>8, <2>2
    <2>4. RowAt(s, p + 1, <<q, p + 1>>, 1) = <<<<q, p + 1>>, 1>>
        BY DEF RowAt
    <2>5. /\ f.page = p + 1 /\ f.row = 1 /\ f.buf = <<q, p + 1>> /\ f.got = <<<<q, p + 1>>, 1>>
        BY <2>3, <2>4
    <2>6. f.got # <<>> /\ f.got \in RowSet
        BY <1>0, <2>1, <2>5 DEF RowSet
    <2>7. f.row \in 0..Pages[q][p + 1]
        BY <2>1, <2>5
    <2>8. Seen(q, p + 1, 1) = Append(Upto(q, p), <<<<q, p + 1>>, 1>>)
        BY <1>0, <2>1, SeenFirst
    <2>9. Seen(q, f.page, f.row) = Append(Seen(q, page[s], row[s]), f.got)
        BY <1>6, <1>8, <2>5, <2>8
    <2> QED  BY <2>1, <2>5, <2>6, <2>7, <2>9, Zenon DEF Moves
<1> QED  BY <1>2, <1>5, <1>7, <1>8

-----------------------------------------------------------------------------
(* Rows that are as fresh *)

Tables ==
    /\ query = [s \in Opens |-> query[s]] /\ page = [s \in Opens |-> page[s]]
    /\ row = [s \in Opens |-> row[s]] /\ count = [s \in Opens |-> count[s]]
    /\ snapshot = [s \in Opens |-> snapshot[s]] /\ batches = [s \in Opens |-> batches[s]]
    /\ out = [r \in Opens |-> out[r]] /\ ended \in [Opens -> BOOLEAN]

FInv == IInv /\ Tables /\ FreshInv

\* Rows that have run alone are the only ones, and only their producer can run.
LEMMA RunsAlone ==
    ASSUME FInv, NEW r \in OpenRows, sqlOf[r] \notin disturbed
    PROVE  /\ r \in Opens /\ sqlOf[r] \in Opens /\ query[sqlOf[r]] \in Queries
           /\ OpenRows = {r} /\ AsFresh(r) /\ Alone(sqlOf[r])
           /\ handle = "open"
           /\ \A q \in DOMAIN plans : plans[q] \in Opens /\ state[plans[q]] = "closed"
<1>1. r \in Opens /\ sqlOf[r] \in Opens
    BY DEF OpenRows, FInv, IInv, Types
<1>2. query[sqlOf[r]] \in Queries /\ OpenRows = {r} /\ AsFresh(r) /\ handle = "open"
    BY DEF FInv, FreshInv
<1>3. Alone(sqlOf[r])
    <2> SUFFICES ASSUME NEW t \in Opens \ {sqlOf[r]} PROVE producer[t] = "off"
        BY DEF Alone
    <2>1. InUseBy(t) = {}
        BY <1>2 DEF InUseBy
    <2> QED  BY <2>1 DEF FInv, IInv, NoStrayProducer
<1>4. \A q \in DOMAIN plans : plans[q] \in Opens /\ state[plans[q]] = "closed"
    BY DEF FInv, IInv, Types, Ownership
<1> QED  BY <1>1, <1>2, <1>3, <1>4

\* A step that opens and closes no Rows and touches no plan keeps the invariant if Rows that
\* run alone stay as they should be.
LEMMA RowsStay ==
    ASSUME FreshInv, UNCHANGED <<plans, sqlOf, disturbed, query>>, OpenRows' = OpenRows,
           handle' \in {handle, "open"},
           \A q \in DOMAIN plans : snapshot'[plans[q]] = snapshot[plans[q]],
           \A r \in Opens : state'[r] = "none" =>
                state[r] = "none" /\ out'[r] = out[r] /\ (ended'[r] <=> ended[r]),
           \A r \in OpenRows : sqlOf[r] \notin disturbed => AsFresh(r)'
    PROVE  FreshInv'
<1>1. OpenRows' # {} \/ DOMAIN plans' # {} => handle' = "open"
    BY DEF FreshInv
<1>2. PlansKept'
    BY DEF FreshInv, PlansKept, Full
<1>3. \A r \in Opens : state'[r] = "none" => out'[r] = <<>> /\ ~ended'[r]
    BY Zenon DEF FreshInv
<1>4. \A r \in OpenRows' : /\ query'[sqlOf'[r]] \in Queries
                           /\ sqlOf'[r] \notin disturbed' => OpenRows' = {r} /\ AsFresh(r)'
    BY Zenon DEF FreshInv
<1> QED  BY <1>1, <1>2, <1>3, <1>4 DEF FreshInv

\* One round of ORDER BY.
LEMMA MaterializeFresh ==
    ASSUME FInv, NEW r \in OpenRows, sqlOf[r] \notin disturbed, NEW o \in Opens, Materialize(o)
    PROVE  AsFresh(r)'
<1>1. /\ r \in Opens /\ sqlOf[r] \in Opens /\ query[sqlOf[r]] \in Queries
      /\ OpenRows = {r} /\ AsFresh(r) /\ Alone(sqlOf[r])
    BY RunsAlone
<1>2. state[o] = "opening" /\ o = r
    BY <1>1 DEF Materialize, OpenRows
<1> DEFINE q == query[r]
<1>3. /\ sqlOf[r] = r /\ Kind[q] = "sorted" /\ AtPosition(r)
      /\ snapshot[r] = Seen(q, page[r], row[r])
      /\ count[r] = 0 /\ out[r] = <<>> /\ ~ended[r] /\ producer[r] = "off"
    BY <1>1, <1>2 DEF AsFresh
<1>4. PICK f \in Fetches(r) :
        /\ Fetched(r, f)
        /\ IF f.got = <<>>
           THEN /\ snapshot' = [snapshot EXCEPT ![r] = Sorted(snapshot[r])]
                /\ state' = [state EXCEPT ![r] = "open"]
           ELSE /\ snapshot' = [snapshot EXCEPT ![r] = Append(@, f.got)]
                /\ UNCHANGED state
    BY <1>2 DEF Materialize
<1>5. UNCHANGED <<sqlOf, query, count, out, ended, producer, batches>>
    BY DEF Materialize, scanVars
<1>6. Ends(r, f) \/ Moves(r, f)
    BY <1>1, <1>3, FetchesAre
<1>7. page'[r] = f.page /\ row'[r] = f.row /\ buf' = f.buf
    <2>1. /\ page' = [page EXCEPT ![r] = f.page] /\ row' = [row EXCEPT ![r] = f.row]
          /\ buf' = f.buf
        BY <1>4 DEF Fetched
    <2>2. page = [x \in Opens |-> page[x]] /\ row = [x \in Opens |-> row[x]]
        BY DEF FInv, Tables
    <2> QED  BY <1>1, <2>1, <2>2, TableUpdate
<1>t. snapshot = [x \in Opens |-> snapshot[x]]
      /\ state \in [Opens -> {"none", "opening", "open", "closed"}]
    BY DEF FInv, Tables, IInv, Types
<1>8. CASE Ends(r, f)
    <2>1. snapshot'[r] = Sorted(AllRows(q)) /\ state'[r] = "open"
        <3>1. /\ f.got = <<>> /\ snapshot[r] = AllRows(q)
              /\ snapshot' = [snapshot EXCEPT ![r] = Sorted(snapshot[r])]
              /\ state' = [state EXCEPT ![r] = "open"]
            BY <1>3, <1>4, <1>8 DEF Ends
        <3> QED  BY <1>1, <1>t, <3>1, TableUpdate
    <2>2. snapshot'[r] = Full(q)
        BY <1>3, <2>1 DEF Full
    <2>3. IsPrefix(<<>>, Full(q))
        BY <1>1, <1>3, FullIs, EmptyPrefix
    <2>4. count'[r] = Len(out'[r]) /\ (Limit[q] >= 0 => count'[r] <= Limit[q])
        BY <1>1, <1>3, <1>5, QueryFacts
    <2>5. Standing(r)'
        <3>1. <<>> \in Seq(RowSet)
            OBVIOUS
        <3> QED  BY <1>3, <1>5, <2>3, <3>1 DEF Standing
    <2> QED  BY <1>3, <1>5, <2>1, <2>2, <2>4, <2>5 DEF AsFresh
<1>9. CASE Moves(r, f)
    <2>1. snapshot'[r] = Append(Seen(q, page[r], row[r]), f.got) /\ state' = state
        <3>1. /\ f.got # <<>> /\ state' = state
              /\ snapshot' = [snapshot EXCEPT ![r] = Append(snapshot[r], f.got)]
            BY <1>4, <1>9 DEF Moves
        <3> QED  BY <1>1, <1>3, <1>t, <3>1, TableUpdate
    <2>2. AtPosition(r)'
        BY <1>5, <1>7, <1>9 DEF Moves, AtPosition
    <2>3. snapshot'[r] = Seen(q, page'[r], row'[r])
        BY <1>7, <1>9, <2>1 DEF Moves
    <2>4. state'[r] = "opening"
        BY <1>2, <2>1
    <2> QED  BY <1>3, <1>5, <2>2, <2>3, <2>4 DEF AsFresh
<1> QED  BY <1>6, <1>8, <1>9

\* What is known of open Rows that go on.
LEMMA GoesOn ==
    ASSUME FInv, NEW r \in OpenRows, sqlOf[r] \notin disturbed, NEW o \in Opens, Calls(o)
    PROVE  /\ o = r /\ state[r] = "open" /\ ~ended[r]
           /\ count[sqlOf[r]] = Len(out[r])
           /\ Limit[query[sqlOf[r]]] >= 0 => count[sqlOf[r]] <= Limit[query[sqlOf[r]]]
           /\ Standing(r)
           /\ Kind[query[sqlOf[r]]] # "fast" => producer[sqlOf[r]] = "off"
           /\ Kind[query[sqlOf[r]]] \in {"sorted", "temp"} => snapshot[sqlOf[r]] = Full(query[sqlOf[r]])
<1>1. OpenRows = {r} /\ AsFresh(r)
    BY RunsAlone
<1>2. state[o] = "open" /\ ~ended[o]
    BY DEF Calls
<1>3. o = r
    BY <1>1, <1>2 DEF OpenRows
<1> QED  BY <1>1, <1>2, <1>3 DEF AsFresh

\* Wherever they stand, the rows delivered are a prefix of the result.
LEMMA StandingIs ==
    ASSUME NEW r, query[sqlOf[r]] \in Queries, Standing(r)
    PROVE  out[r] \in Seq(RowSet) /\ IsPrefix(out[r], Full(query[sqlOf[r]]))
<1> DEFINE s == sqlOf[r]
           q == query[s]
<1>1. Kind[q] \in {"scan", "fast", "sorted", "temp"} /\ Len(Pages[q]) \in Nat
    BY QueryFacts
<1>2. CASE Kind[q] = "scan"
    <2>1. AtPosition(s) /\ out[r] = Seen(q, page[s], row[s]) /\ Full(q) = AllRows(q)
        BY <1>2 DEF Standing, Full
    <2>2. CASE page[s] = 0
        <3>1. out[r] = <<>> /\ <<>> \in Seq(RowSet)
            BY <2>1, <2>2 DEF Seen
        <3> QED  BY <3>1, FullIs, EmptyPrefix
    <2>3. CASE page[s] # 0
        <3>1. page[s] \in 1..Len(Pages[q]) /\ row[s] \in 0..Pages[q][page[s]]
            BY <1>1, <2>1, <2>3, QueryFacts DEF AtPosition
        <3> QED  BY <2>1, <3>1, SeenIs
    <2> QED  BY <2>2, <2>3
<1>3. CASE Kind[q] = "fast"
    <2> DEFINE b == batches[s]
    <2>1. /\ page[s] \in 0..Len(Pages[q])
          /\ producer[s] = "take" => page[s] > 0
          /\ out[r] \in Seq(RowSet) /\ b \in Seq(RowSet)
          /\ out[r] \o b = Upto(q, Taken(s))
        BY <1>3 DEF Standing
    <2>2. Full(q) = AllRows(q) /\ Taken(s) \in 0..Len(Pages[q])
        BY <1>1, <1>3, <2>1 DEF Full, Taken
    <2>3. IsPrefix(out[r], out[r] \o b) /\ out[r] \o b \in Seq(RowSet)
        BY <2>1, PrefixOfWhole
    <2>4. IsPrefix(Upto(q, Taken(s)), AllRows(q)) /\ AllRows(q) \in Seq(RowSet)
        BY <2>2, UptoPrefix
    <2> QED  BY <2>1, <2>2, <2>3, <2>4, PrefixTransitive
<1>4. CASE Kind[q] \in {"sorted", "temp"}
    BY <1>4 DEF Standing
<1> QED  BY <1>1, <1>2, <1>3, <1>4

\* Reporting the end, and delivering a row.
LEMMA EndFresh ==
    ASSUME FInv, NEW r \in OpenRows, sqlOf[r] \notin disturbed, NEW o \in Opens, Calls(o),
           UNCHANGED <<sqlOf, query, snapshot, state, producer>>, ReportEnd(o),
           out[r] \in Seq(RowSet), IsPrefix(out[r], Full(query[sqlOf[r]])),
           out[r] = Full(query[sqlOf[r]]) \/ LimitReached(sqlOf[r])
    PROVE  AsFresh(r)'
<1> DEFINE s == sqlOf[r]
           q == query[s]
<1>1. r \in Opens /\ q \in Queries
    BY RunsAlone
<1>2. /\ o = r /\ state[r] = "open" /\ count[s] = Len(out[r])
      /\ Limit[q] >= 0 => count[s] <= Limit[q]
      /\ Kind[q] # "fast" => producer[s] = "off"
      /\ Kind[q] \in {"sorted", "temp"} => snapshot[s] = Full(q)
    BY GoesOn
<1>3. ended' = [ended EXCEPT ![r] = TRUE] /\ out' = out
    BY <1>2 DEF ReportEnd
<1>4. out[r] = Full(q) \/ (Limit[q] >= 0 /\ Len(out[r]) + 1 > Limit[q])
    BY <1>2 DEF LimitReached
<1>5. Limit[q] >= 0 => Len(out[r]) <= Limit[q]
    BY <1>2
<1> HIDE DEF s, q
<1>6. out[r] = Expected(q)
    BY <1>1, <1>4, <1>5, ExpectedIs DEF q, s
<1>7. ended'[r] = TRUE
    BY <1>1, <1>3, Zenon DEF FInv, Tables
<1>8. sqlOf'[r] = s /\ query'[s] = q /\ state'[r] = "open" /\ snapshot'[s] = snapshot[s]
      /\ producer'[s] = producer[s]
    BY <1>2 DEF s, q
<1> QED  BY <1>2, <1>3, <1>6, <1>7, <1>8, Zenon DEF AsFresh, Full, Expected

\* Rows that get one more row within their LIMIT stay as fresh, if they stand where they should.
LEMMA DeliverFresh ==
    ASSUME FInv, NEW r \in OpenRows, sqlOf[r] \notin disturbed, NEW o \in Opens, Calls(o),
           UNCHANGED <<sqlOf, query, snapshot, state, producer>>,
           NEW x, Deliver(o, x), ~LimitReached(sqlOf[r]),
           out[r] \in Seq(RowSet), x \in RowSet, Standing(r)'
    PROVE  AsFresh(r)'
<1> DEFINE s == sqlOf[r]
           q == query[s]
<1>1. r \in Opens /\ s \in Opens /\ q \in Queries
    BY RunsAlone
<1>2. /\ o = r /\ state[r] = "open" /\ ~ended[r] /\ count[s] = Len(out[r])
      /\ Kind[q] # "fast" => producer[s] = "off"
      /\ Kind[q] \in {"sorted", "temp"} => snapshot[s] = Full(q)
    BY GoesOn
<1>3. /\ out' = [out EXCEPT ![r] = Append(@, x)]
      /\ count' = [count EXCEPT ![s] = @ + 1] /\ ended' = ended
    BY <1>2 DEF Deliver
<1>4. out'[r] = Append(out[r], x) /\ count'[s] = count[s] + 1
    BY <1>1, <1>3 DEF FInv, Tables
<1>5. count'[s] = Len(out'[r]) /\ count[s] \in Nat
    BY <1>2, <1>4
<1>6. Limit[q] >= 0 => count'[s] <= Limit[q]
    BY <1>1, <1>4, <1>5, QueryFacts DEF LimitReached
<1>7. ~ended'[r]
    BY <1>2, <1>3, Zenon
<1> HIDE DEF s, q
<1>8. sqlOf'[r] = s /\ query'[s] = q /\ state'[r] = "open" /\ snapshot'[s] = snapshot[s]
      /\ producer'[s] = producer[s]
    BY <1>2 DEF s, q
<1> QED  BY <1>2, <1>5, <1>6, <1>7, <1>8, Zenon DEF AsFresh, Full, Expected

\* Next of a table scan.
LEMMA ScannedFresh ==
    ASSUME FInv, NEW r \in OpenRows, sqlOf[r] \notin disturbed, NEW o \in Opens, NextScanned(o)
    PROVE  AsFresh(r)'
<1> DEFINE s == sqlOf[r]
           q == query[s]
<1>1. r \in Opens /\ s \in Opens /\ q \in Queries /\ Alone(s)
    BY RunsAlone
<1>2. Calls(o)
    BY DEF NextScanned
<1>3. /\ o = r /\ Standing(r) /\ Kind[q] = "scan"
    BY <1>2, GoesOn DEF NextScanned
<1>4. AtPosition(s) /\ out[r] = Seen(q, page[s], row[s])
    BY <1>3 DEF Standing
<1>5. UNCHANGED <<sqlOf, query, snapshot, state, producer>>
    BY DEF NextScanned, scanVars
<1>6. PICK f \in Fetches(s) :
        /\ Fetched(s, f)
        /\ IF f.got = <<>> \/ LimitReached(s) THEN ReportEnd(o) ELSE Deliver(o, f.got)
    BY <1>3 DEF NextScanned
<1>7. Ends(s, f) \/ Moves(s, f)
    BY <1>1, <1>4, FetchesAre
<1>8. Full(q) = AllRows(q)
    BY <1>3 DEF Full
<1>9. out[r] \in Seq(RowSet) /\ IsPrefix(out[r], Full(q))
    BY <1>1, <1>3, StandingIs
<1>10. CASE f.got = <<>> \/ LimitReached(s)
    <2>1. ReportEnd(o)
        BY <1>6, <1>10
    <2>2. f.got = <<>> => out[r] = Full(q)
        BY <1>4, <1>7, <1>8 DEF Ends, Moves
    <2> HIDE DEF s, q
    <2> QED  BY <1>2, <1>5, <1>9, <1>10, <2>1, <2>2, EndFresh DEF s, q
<1>11. CASE ~(f.got = <<>> \/ LimitReached(s))
    <2>1. Deliver(o, f.got)
        BY <1>6, <1>11
    <2>2. Moves(s, f)
        BY <1>7, <1>11 DEF Ends
    <2>3. page'[s] = f.page /\ row'[s] = f.row /\ buf' = f.buf
        <3>1. /\ page' = [page EXCEPT ![s] = f.page] /\ row' = [row EXCEPT ![s] = f.row]
              /\ buf' = f.buf
            BY <1>6 DEF Fetched
        <3>2. page = [x \in Opens |-> page[x]] /\ row = [x \in Opens |-> row[x]]
            BY DEF FInv, Tables
        <3> HIDE DEF s, q
        <3> QED  BY <1>1, <3>1, <3>2, TableUpdate
    <2>4. out'[r] = Append(out[r], f.got)
        <3>1. out' = [out EXCEPT ![r] = Append(out[r], f.got)]
            BY <1>3, <2>1 DEF Deliver
        <3>2. out = [x \in Opens |-> out[x]]
            BY DEF FInv, Tables
        <3> QED  BY <1>1, <3>1, <3>2, TableUpdate
    <2>5. AtPosition(s)' /\ sqlOf'[r] = s /\ query'[s] = q
        BY <1>5, <2>2, <2>3 DEF AtPosition, Moves
    <2>6. out'[r] = Seen(q, page'[s], row'[s])
        BY <1>4, <2>2, <2>3, <2>4 DEF Moves
    <2>7. Standing(r)'
        BY <1>3, <1>5, <2>5, <2>6 DEF Standing
    <2>8. f.got \in RowSet
        BY <2>2 DEF Moves
    <2> QED  BY <1>2, <1>5, <1>9, <1>11, <2>1, <2>7, <2>8, DeliverFresh
<1> QED  BY <1>10, <1>11

\* Next of a materialized result.
LEMMA MaterializedFresh ==
    ASSUME FInv, NEW r \in OpenRows, sqlOf[r] \notin disturbed, NEW o \in Opens,
           NextMaterialized(o)
    PROVE  AsFresh(r)'
<1> DEFINE s == sqlOf[r]
           q == query[s]
<1>1. r \in Opens /\ s \in Opens /\ q \in Queries
    BY RunsAlone
<1>2. Calls(o)
    BY DEF NextMaterialized
<1>3. /\ o = r /\ Standing(r) /\ Kind[q] \in {"sorted", "temp"} /\ count[s] = Len(out[r])
      /\ snapshot[s] = Full(q)
    BY <1>2, GoesOn DEF NextMaterialized
<1>4. UNCHANGED <<sqlOf, query, snapshot, state, producer>>
    BY DEF NextMaterialized, scanVars
<1>5. out[r] \in Seq(RowSet) /\ IsPrefix(out[r], Full(q)) /\ Full(q) \in Seq(RowSet)
    BY <1>1, <1>3, FullIs DEF Standing
<1>6. IF LimitReached(s) \/ count[s] >= Len(snapshot[s])
      THEN ReportEnd(o) /\ UNCHANGED buf
      ELSE Deliver(o, snapshot[s][count[s] + 1]) /\ buf' = Stray
    BY <1>3 DEF NextMaterialized
<1>7. CASE LimitReached(s) \/ count[s] >= Len(snapshot[s])
    <2>1. ReportEnd(o)
        BY <1>6, <1>7
    <2>2. count[s] >= Len(snapshot[s]) => out[r] = Full(q)
        BY <1>3, <1>5, PrefixGrows
    <2> HIDE DEF s, q
    <2> QED  BY <1>2, <1>4, <1>5, <1>7, <2>1, <2>2, EndFresh DEF s, q
<1>8. CASE ~(LimitReached(s) \/ count[s] >= Len(snapshot[s]))
    <2> DEFINE x == Full(q)[Len(out[r]) + 1]
    <2>1. Deliver(o, x)
        BY <1>3, <1>6, <1>8
    <2>2. Len(out[r]) < Len(Full(q)) /\ x \in RowSet
        <3>1. Len(out[r]) \in Nat /\ Len(Full(q)) \in Nat
            BY <1>5
        <3>2. Len(out[r]) < Len(Full(q))
            BY <1>3, <1>8, <3>1
        <3> QED  BY <1>5, <3>1, <3>2
    <2> HIDE DEF x
    <2>3. out'[r] = Append(out[r], x)
        <3>1. out' = [out EXCEPT ![r] = Append(out[r], x)]
            BY <1>3, <2>1 DEF Deliver
        <3>2. out = [y \in Opens |-> out[y]]
            BY DEF FInv, Tables
        <3> QED  BY <1>1, <3>1, <3>2, TableUpdate
    <2>4. IsPrefix(out'[r], Full(q)) /\ out'[r] \in Seq(RowSet)
        BY <1>5, <2>2, <2>3, PrefixGrows DEF x
    <2>5. Standing(r)'
        BY <1>3, <1>4, <2>4 DEF Standing, Full
    <2> QED  BY <1>2, <1>4, <1>5, <1>8, <2>1, <2>2, <2>5, DeliverFresh
<1> QED  BY <1>7, <1>8

\* Next of a fast scan.
LEMMA FastFresh ==
    ASSUME FInv, NEW r \in OpenRows, sqlOf[r] \notin disturbed, NEW o \in Opens, NextFast(o)
    PROVE  AsFresh(r)'
<1> DEFINE s == sqlOf[r]
           q == query[s]
           b == batches[s]
<1>1. r \in Opens /\ s \in Opens /\ q \in Queries
    BY RunsAlone
<1>2. Calls(o)
    BY DEF NextFast
<1>3. o = r /\ Standing(r) /\ Kind[q] = "fast"
    BY <1>2, GoesOn DEF NextFast
<1>4. /\ producer[s] # "off" /\ page[s] \in 0..Len(Pages[q])
      /\ producer[s] = "take" => page[s] > 0 /\ buf = <<q, page[s]>>
      /\ producer[s] = "done" => page[s] = Len(Pages[q])
      /\ out[r] \in Seq(RowSet) /\ b \in Seq(RowSet)
      /\ out[r] \o b = Upto(q, Taken(s))
    BY <1>3 DEF Standing
<1>5. /\ UNCHANGED <<sqlOf, query, snapshot, state, buf, page, producer>>
      /\ b # <<>> \/ producer[s] = "done"
      /\ IF b = <<>> \/ LimitReached(s) THEN ReportEnd(o) ELSE Deliver(o, Head(b))
      /\ batches' = [batches EXCEPT ![s] = IF b = <<>> THEN b ELSE Tail(b)]
    BY <1>3 DEF NextFast
<1>6. Full(q) = AllRows(q) /\ Taken(s) \in 0..Len(Pages[q]) /\ Len(Pages[q]) \in Nat
    BY <1>1, <1>3, <1>4, QueryFacts DEF Full, Taken
<1>7. IsPrefix(out[r], Full(q))
    BY <1>1, <1>3, StandingIs
<1>8. CASE b = <<>> \/ LimitReached(s)
    <2>1. ReportEnd(o)
        BY <1>5, <1>8
    <2>2. b = <<>> => out[r] = Full(q)
        <3> SUFFICES ASSUME b = <<>> PROVE out[r] = Full(q)
            OBVIOUS
        <3>1. producer[s] = "done" /\ Taken(s) = Len(Pages[q])
            BY <1>4, <1>5 DEF Taken
        <3>2. out[r] \o b = out[r]
            BY <1>4
        <3>3. Upto(q, Len(Pages[q])) = AllRows(q)
            BY <1>1, UptoIs
        <3> QED  BY <1>4, <1>6, <3>1, <3>2, <3>3
    <2> HIDE DEF s, q, b
    <2>3. UNCHANGED <<sqlOf, query, snapshot, state, producer>>
        BY <1>5
    <2> QED  BY <1>2, <1>4, <1>7, <1>8, <2>1, <2>2, <2>3, EndFresh DEF s, q
<1>9. CASE ~(b = <<>> \/ LimitReached(s))
    <2>1. Deliver(o, Head(b))
        BY <1>5, <1>9
    <2>2. b # <<>> /\ Head(b) \in RowSet /\ Tail(b) \in Seq(RowSet)
        BY <1>4, <1>9
    <2>3. out'[r] = Append(out[r], Head(b)) /\ batches'[s] = Tail(b)
        <3>1. out' = [out EXCEPT ![r] = Append(out[r], Head(b))]
            BY <1>3, <2>1 DEF Deliver
        <3>2. batches' = [batches EXCEPT ![s] = Tail(b)]
            BY <1>5, <2>2
        <3>3. out = [y \in Opens |-> out[y]] /\ batches = [y \in Opens |-> batches[y]]
            BY DEF FInv, Tables
        <3> HIDE DEF s, b
        <3> QED  BY <1>1, <3>1, <3>2, <3>3, TableUpdate
    <2>4. Append(out[r], Head(b)) \o Tail(b) = out[r] \o b
          /\ Append(out[r], Head(b)) \in Seq(RowSet)
        <3> HIDE DEF b
        <3> QED  BY <1>4, <2>2, HeadMoves
    <2>5. sqlOf'[r] = s /\ query'[s] = q /\ Taken(s)' = Taken(s)
        BY <1>5 DEF Taken
    <2>6. Standing(r)'
        BY <1>3, <1>4, <1>5, <2>2, <2>3, <2>4, <2>5 DEF Standing
    <2> QED  BY <1>2, <1>4, <1>5, <1>9, <2>1, <2>2, <2>6, DeliverFresh
<1> QED  BY <1>8, <1>9

\* What is known when a producer runs.
LEMMA ProducesAlone ==
    ASSUME FInv, NEW r \in OpenRows, sqlOf[r] \notin disturbed, NEW t \in Opens,
           producer[t] # "off"
    PROVE  /\ t = sqlOf[r] /\ Kind[query[t]] = "fast" /\ state[r] = "open"
           /\ ended[r] => out[r] = Expected(query[t])
           /\ ~ended[r] => /\ count[t] = Len(out[r])
                           /\ Limit[query[t]] >= 0 => count[t] <= Limit[query[t]]
                           /\ Standing(r)
<1>1. AsFresh(r) /\ Alone(sqlOf[r])
    BY RunsAlone
<1>2. t = sqlOf[r]
    BY <1>1 DEF Alone
<1>3. state[r] = "open" \/ state[r] = "opening"
    BY DEF OpenRows
<1> QED  BY <1>1, <1>2, <1>3 DEF AsFresh

\* The producer reads on.
LEMMA ReadFresh ==
    ASSUME FInv, NEW r \in OpenRows, sqlOf[r] \notin disturbed, NEW t \in Opens,
           ProducerRead(t)
    PROVE  AsFresh(r)'
<1> DEFINE q == query[t]
<1>1. r \in Opens /\ q \in Queries
    <2>1. producer[t] # "off"
        BY DEF ProducerRead
    <2> QED  BY <2>1, RunsAlone, ProducesAlone
<1>2. /\ t = sqlOf[r] /\ Kind[q] = "fast" /\ state[r] = "open"
      /\ ended[r] => out[r] = Expected(q)
      /\ ~ended[r] => /\ count[t] = Len(out[r])
                      /\ Limit[q] >= 0 => count[t] <= Limit[q]
                      /\ Standing(r)
    <2>1. producer[t] # "off"
        BY DEF ProducerRead
    <2> QED  BY <2>1, ProducesAlone
<1>3. UNCHANGED <<sqlOf, query, snapshot, state, count, out, ended, batches>>
    BY DEF ProducerRead, rowsVars
<1>4. CASE ended[r]
    BY <1>2, <1>3, <1>4, Zenon DEF AsFresh, Full, Expected
<1>5. CASE ~ended[r]
    <2>1. /\ producer[t] = "read" /\ page[t] \in 0..Len(Pages[q])
          /\ out[r] \in Seq(RowSet) /\ batches[t] \in Seq(RowSet)
          /\ out[r] \o batches[t] = Upto(q, page[t])
        BY <1>2, <1>5 DEF Standing, Taken, ProducerRead
    <2>2. Len(Pages[q]) \in Nat
        BY <1>1, QueryFacts
    <2>t. /\ producer \in [Opens -> {"off", "read", "take", "done"}]
          /\ page = [x \in Opens |-> page[x]]
        BY DEF FInv, IInv, Types, Tables
    <2>3. CASE page[t] = Len(Pages[q])
        <3>1. producer'[t] = "done" /\ page'[t] = page[t]
            BY <2>3, <2>t DEF ProducerRead, LastPage
        <3>2. Taken(t)' = Taken(t)
            BY <2>1, <3>1 DEF Taken
        <3>3. Standing(r)'
            BY <1>2, <1>3, <2>1, <2>3, <3>1, <3>2 DEF Standing, Taken
        <3> QED  BY <1>2, <1>3, <1>5, <3>3 DEF AsFresh
    <2>4. CASE page[t] # Len(Pages[q])
        <3>1. /\ producer'[t] = "take" /\ page'[t] = page[t] + 1
              /\ buf' = <<q, page'[t]>>
            BY <2>4, <2>t DEF ProducerRead, LastPage
        <3>2. page'[t] \in 1..Len(Pages[q]) /\ page'[t] - 1 = page[t]
            BY <2>1, <2>2, <2>4, <3>1
        <3>3. Standing(r)'
            BY <1>2, <1>3, <2>1, <2>4, <3>1, <3>2 DEF Standing, Taken
        <3> QED  BY <1>2, <1>3, <1>5, <3>3 DEF AsFresh
    <2> QED  BY <2>3, <2>4
<1> QED  BY <1>4, <1>5

\* The producer hands a page on.
LEMMA TakeFresh ==
    ASSUME FInv, NEW r \in OpenRows, sqlOf[r] \notin disturbed, NEW t \in Opens,
           ProducerTake(t)
    PROVE  AsFresh(r)'
<1> DEFINE q == query[t]
           p == page[t]
<1>0. producer[t] = "take"
    BY DEF ProducerTake
<1>2. /\ t = sqlOf[r] /\ Kind[q] = "fast" /\ state[r] = "open"
      /\ ended[r] => out[r] = Expected(q)
      /\ ~ended[r] => /\ count[t] = Len(out[r])
                      /\ Limit[q] >= 0 => count[t] <= Limit[q]
                      /\ Standing(r)
    BY <1>0, ProducesAlone
<1>1. r \in Opens /\ q \in Queries /\ Alone(t)
    BY <1>2, RunsAlone
<1>3. UNCHANGED <<sqlOf, query, snapshot, state, count, out, ended, page, buf>>
    BY DEF ProducerTake, rowsVars, cursor
<1>4. CASE ended[r]
    BY <1>2, <1>3, <1>4, Zenon DEF AsFresh, Full, Expected
<1>5. CASE ~ended[r]
    <2>0. /\ p \in 0..Len(Pages[q]) /\ p > 0 /\ buf = <<q, p>>
          /\ out[r] \in Seq(RowSet) /\ batches[t] \in Seq(RowSet)
          /\ out[r] \o batches[t] = Upto(q, p - 1)
        BY <1>0, <1>2, <1>5 DEF Standing, Taken
    <2>1. /\ p \in 1..Len(Pages[q]) /\ buf = <<q, p>>
          /\ out[r] \in Seq(RowSet) /\ batches[t] \in Seq(RowSet)
          /\ out[r] \o batches[t] = Upto(q, p - 1)
        <3>1. Len(Pages[q]) \in Nat
            BY <1>1, QueryFacts
        <3>2. p \in 1..Len(Pages[q])
            BY <2>0, <3>1
        <3> QED  BY <2>0, <3>2
    <2>2. /\ Len(Pages[q]) \in Nat /\ Pages[q][p] \in Nat /\ p \in Nat
          /\ p - 1 \in 0..Len(Pages[q]) - 1 /\ (p - 1) + 1 = p
        BY <1>1, <2>1, QueryFacts
    <2>3. BufferSeen(t, buf) = {<<q, p>>} /\ RowCounts(<<q, p>>) = {Pages[q][p]}
        BY <1>1, <2>1, <2>2, OwnBuffer
    <2>4. batches' = [batches EXCEPT ![t] = batches[t] \o PageRows(q, p, Pages[q][p])]
        <3>1. PICK b \in BufferSeen(t, buf) : \E n \in RowCounts(b) :
                batches' = [batches EXCEPT ![t] = batches[t] \o [k \in 1..n |-> RowAt(t, p, b, k)]]
            BY DEF ProducerTake
        <3>2. b = <<q, p>>
            BY <2>3
        <3>3. batches' = [batches EXCEPT ![t] =
                             batches[t] \o [k \in 1..Pages[q][p] |-> RowAt(t, p, b, k)]]
            BY <2>3, <3>1, <3>2
        <3>4. [k \in 1..Pages[q][p] |-> RowAt(t, p, b, k)] = PageRows(q, p, Pages[q][p])
            BY <3>2 DEF RowAt, PageRows
        <3> QED  BY <3>3, <3>4
    <2>5. PageRows(q, p, Pages[q][p]) \in Seq(RowSet)
        BY <1>1, <2>2, PageRowsAre
    <2>6. Upto(q, p) = Upto(q, p - 1) \o PageRows(q, p, Pages[q][p])
        BY <1>1, <2>2, UptoIs
    <2>7. /\ batches'[t] = batches[t] \o PageRows(q, p, Pages[q][p])
          /\ producer'[t] = "read"
        <3>1. batches = [x \in Opens |-> batches[x]]
              /\ producer \in [Opens -> {"off", "read", "take", "done"}]
            BY DEF FInv, IInv, Types, Tables
        <3>2. producer' = [producer EXCEPT ![t] = "read"]
            BY DEF ProducerTake
        <3> HIDE DEF p, q
        <3> QED  BY <2>4, <3>1, <3>2, TableUpdate
    <2>8. batches'[t] \in Seq(RowSet) /\ out[r] \o batches'[t] = Upto(q, p)
        <3>1. PICK o, b, c : o = out[r] /\ b = batches[t] /\ c = PageRows(q, p, Pages[q][p])
            OBVIOUS
        <3>2. o \in Seq(RowSet) /\ b \in Seq(RowSet) /\ c \in Seq(RowSet)
            BY <2>1, <2>5, <3>1
        <3>3. o \o (b \o c) = (o \o b) \o c /\ b \o c \in Seq(RowSet)
            BY <3>2
        <3> QED  BY <2>1, <2>6, <2>7, <3>1, <3>3
    <2>9. page'[t] = p /\ p \in 0..Len(Pages[q]) /\ Taken(t)' = p
        BY <1>3, <2>1, <2>7 DEF Taken
    <2>10. Standing(r)'
        BY <1>2, <1>3, <2>1, <2>7, <2>8, <2>9 DEF Standing
    <2> QED  BY <1>2, <1>3, <1>5, <2>10 DEF AsFresh
<1> QED  BY <1>4, <1>5

\* A table stays one when entries of it are replaced.
Replaced(t, u) == u = t \/ \E x, v : u = [t EXCEPT ![x] = v]

\* A table with an entry replaced is a table.
LEMMA ReplacedTable ==
    ASSUME NEW t, NEW u, t = [x \in Opens |-> t[x]], Replaced(t, u)
    PROVE  u = [x \in Opens |-> u[x]]
<1>1. CASE u = t
    BY <1>1
<1>2. ASSUME NEW r, NEW v, u = [t EXCEPT ![r] = v] PROVE u = [x \in Opens |-> u[x]]
    BY <1>2
<1> QED  BY <1>1, <1>2 DEF Replaced

\* The tables of the connection stay ones when entries of them are replaced.
LEMMA TablesStay ==
    ASSUME Tables, Replaced(query, query'), Replaced(page, page'), Replaced(row, row'),
           Replaced(count, count'), Replaced(snapshot, snapshot'),
           Replaced(batches, batches'), Replaced(out, out'),
           ended' = ended \/ \E r \in Opens, b \in BOOLEAN : ended' = [ended EXCEPT ![r] = b]
    PROVE  Tables'
<1>1. ended' \in [Opens -> BOOLEAN]
    BY Zenon DEF Tables
<1> QED  BY <1>1, ReplacedTable DEF Tables

\* That is all a step does to them.
LEMMA StepTables == Tables /\ [Next]_vars => Tables'
<1> SUFFICES ASSUME Tables, [Next]_vars PROVE Tables'
    OBVIOUS
<1> DEFINE Rest == Replaced(query, query') /\ Replaced(page, page') /\ Replaced(row, row')
                   /\ Replaced(count, count') /\ Replaced(snapshot, snapshot')
                   /\ Replaced(batches, batches') /\ Replaced(out, out')
<1>1. ASSUME NEW r \in Opens, NEW q \in Queries, QueryContext(r, q) PROVE Tables'
    <2>1. Rest
        <3>1. CASE Execute(r, q)
            BY <3>1 DEF Execute, Rewind, StartScan, Replaced
        <3>2. CASE OpenAfresh(r, q)
            BY <3>2 DEF OpenAfresh, Rewind, StartScan, Replaced
        <3>3. CASE OpenFails(r, q)
            BY <3>3 DEF OpenFails, Replaced, sqlVars, cursor, scanVars
        <3> QED  BY <1>1, <3>1, <3>2, <3>3 DEF QueryContext
    <2>2. ended' = ended
        BY <1>1 DEF QueryContext, Execute, OpenAfresh, OpenFails
    <2> QED  BY <2>1, <2>2, TablesStay
<1>2. ASSUME NEW r \in Opens, Materialize(r) PROVE Tables'
    <2>1. Rest /\ ended' = ended
        BY <1>2 DEF Materialize, Fetched, Replaced, scanVars
    <2> QED  BY <2>1, TablesStay
<1>3. ASSUME NEW r \in Opens, NextRow(r) PROVE Tables'
    <2>1. Rest
        BY <1>3 DEF NextRow, NextScanned, NextMaterialized, NextFast, Fetched, ReportEnd, Deliver,
                    Replaced, scanVars
    <2>2. ended' = ended \/ ended' = [ended EXCEPT ![r] = TRUE]
        BY <1>3, Zenon DEF NextRow, NextScanned, NextMaterialized, NextFast, ReportEnd, Deliver
    <2> QED  BY <2>1, <2>2, TablesStay
<1>4. ASSUME NEW r \in Opens, Close(r) PROVE Tables'
    <2>1. Rest /\ ended' = [ended EXCEPT ![r] = FALSE]
        BY <1>4 DEF Close, StopScan, Replaced, cursor
    <2> QED  BY <2>1, TablesStay
<1>5. ASSUME NEW r \in Opens, Produce(r) PROVE Tables'
    <2>1. Rest /\ ended' = ended
        BY <1>5 DEF Produce, ProducerRead, ProducerTake, Replaced, rowsVars, cursor
    <2> QED  BY <2>1, TablesStay
<1>6. CASE Ping \/ CloseConn \/ UNCHANGED vars
    <2>1. UNCHANGED <<query, page, row, count, snapshot, batches, out, ended>>
        BY <1>6 DEF Ping, CloseConn, vars, rowsVars, sqlVars, cursor, scanVars
    <2> QED  BY <2>1 DEF Tables
<1> QED  BY <1>1, <1>2, <1>3, <1>4, <1>5, <1>6 DEF Next

\* The steps of open Rows, and those that concern no Rows.
LEMMA StaysFresh ==
    ASSUME FInv, \/ \E o \in Opens : Materialize(o) \/ NextRow(o) \/ Produce(o)
                 \/ Ping \/ UNCHANGED vars
    PROVE  FreshInv'
<1> USE DEF FInv
<1>1. ASSUME NEW o \in Opens, Materialize(o) PROVE FreshInv'
    <2>1. UNCHANGED <<handle, plans, sqlOf, disturbed, query, out, ended>> /\ state[o] = "opening"
        BY <1>1 DEF Materialize, connVars
    <2>2. OpenRows' = OpenRows /\ \A r \in Opens : state'[r] = "none" => state[r] = "none"
        BY <1>1, <2>1 DEF Materialize, OpenRows, IInv, Types
    <2>3. \A q \in DOMAIN plans : snapshot'[plans[q]] = snapshot[plans[q]]
        <3>1. \A q \in DOMAIN plans : plans[q] \in Opens \ {o}
            BY <2>1 DEF IInv, Types, Ownership
        <3>2. \A x \in Opens \ {o} : snapshot'[x] = snapshot[x]
            BY <1>1 DEF Materialize, Tables
        <3> QED  BY <3>1, <3>2
    <2>4. \A r \in OpenRows : sqlOf[r] \notin disturbed => AsFresh(r)'
        BY <1>1, MaterializeFresh
    <2> QED  BY <2>1, <2>2, <2>3, <2>4, RowsStay
<1>2. ASSUME NEW o \in Opens, NextRow(o) PROVE FreshInv'
    <2>1. /\ UNCHANGED <<handle, plans, sqlOf, disturbed, query, snapshot, state>>
          /\ state[o] = "open"
        BY <1>2 DEF NextRow, NextScanned, NextMaterialized, NextFast, Calls, connVars
    <2>2. OpenRows' = OpenRows
        BY <2>1 DEF OpenRows
    <2>3. \A r \in Opens \ {o} : out'[r] = out[r]
        BY <1>2 DEF NextRow, NextScanned, NextMaterialized, NextFast, ReportEnd, Deliver, Tables
    <2>4. \A r \in Opens \ {o} : ended'[r] = ended[r]
        <3>1. ended' = ended \/ ended' = [ended EXCEPT ![o] = TRUE]
            BY <1>2, Zenon DEF NextRow, NextScanned, NextMaterialized, NextFast, ReportEnd, Deliver
        <3> QED  BY <3>1, Zenon DEF Tables
    <2>5. \A r \in Opens : state'[r] = "none" =>
                state[r] = "none" /\ out'[r] = out[r] /\ (ended'[r] <=> ended[r])
        BY <2>1, <2>3, <2>4
    <2>6. \A r \in OpenRows : sqlOf[r] \notin disturbed => AsFresh(r)'
        BY <1>2, ScannedFresh, MaterializedFresh, FastFresh DEF NextRow
    <2> QED  BY <2>1, <2>2, <2>5, <2>6, RowsStay
<1>3. ASSUME NEW o \in Opens, Produce(o) PROVE FreshInv'
    <2>1. UNCHANGED <<handle, plans, sqlOf, disturbed, query, snapshot, state, out, ended>>
        BY <1>3 DEF Produce, ProducerRead, ProducerTake, connVars, rowsVars
    <2>2. OpenRows' = OpenRows
        BY <2>1 DEF OpenRows
    <2>3. \A r \in OpenRows : sqlOf[r] \notin disturbed => AsFresh(r)'
        BY <1>3, ReadFresh, TakeFresh DEF Produce
    <2> QED  BY <2>1, <2>2, <2>3, RowsStay
<1>4. CASE Ping \/ UNCHANGED vars
    <2>1. /\ UNCHANGED <<plans, state, sqlOf, out, ended, query, page, row, count, snapshot,
                         producer, batches, disturbed>>
          /\ handle' \in {handle, "open"}
          /\ handle = "open" => buf' = buf
        BY <1>4 DEF Ping, vars, connVars, rowsVars, sqlVars, cursor, scanVars
    <2>2. OpenRows' = OpenRows
        BY <2>1 DEF OpenRows
    <2>3. ASSUME NEW r \in OpenRows, sqlOf[r] \notin disturbed PROVE AsFresh(r)'
        <3>1. AsFresh(r) /\ buf' = buf
            BY <2>1, <2>3, RunsAlone
        <3> QED  BY <2>1, <3>1 DEF AsFresh, Standing, AtPosition, Taken, Full
    <2> QED  BY <2>1, <2>2, <2>3, RowsStay
<1> QED  BY <1>1, <1>2, <1>3, <1>4

\* Rows at their start are as fresh.
LEMMA StartFresh ==
    ASSUME NEW q \in Queries, NEW r, NEW s, sqlOf'[r] = s, query'[s] = q,
           page'[s] = 0, row'[s] = 0, count'[s] = 0, out'[r] = <<>>, ~ended'[r],
           batches'[s] = <<>>, producer'[s] = IF Kind[q] = "fast" THEN "read" ELSE "off",
           \/ state'[r] = "open" /\ (Kind[q] \in {"sorted", "temp"} => snapshot'[s] = Full(q))
           \/ state'[r] = "opening" /\ s = r /\ Kind[q] = "sorted" /\ snapshot'[s] = <<>>
    PROVE  AsFresh(r)'
<1>1. Len(Pages[q]) \in Nat \ {0} /\ Limit[q] \in Nat \cup {-1}
    BY QueryFacts
<1>2. Full(q) \in Seq(RowSet) /\ IsPrefix(<<>>, Full(q)) /\ Upto(q, 0) = <<>>
    BY FullIs, EmptyPrefix, UptoIs
<1>3. AtPosition(s)' /\ Seen(q, 0, 0) = <<>>
    BY <1>1 DEF AtPosition, Seen
<1>4. <<>> \in Seq(RowSet) /\ Len(<<>>) = 0 /\ <<>> \o <<>> = <<>>
    OBVIOUS
<1>5. Kind[q] = "fast" => Taken(s)' = 0
    BY DEF Taken
<1>6. Standing(r)'
    BY <1>1, <1>2, <1>3, <1>4, <1>5 DEF Standing
<1> QED  BY <1>1, <1>3, <1>4, <1>6 DEF AsFresh

\* Who opens beside others disturbs them.
LEMMA OpensFresh ==
    ASSUME FInv, NEW r \in Opens, r \notin OpenRows, NEW s, sqlOf'[r] = s,
           OpenRows' = OpenRows \cup {r},
           \A x \in OpenRows : sqlOf'[x] = sqlOf[x] /\ query'[sqlOf[x]] = query[sqlOf[x]],
           query'[s] \in Queries, DisturbedBy(s),
           OpenRows = {} /\ s \notin disturbed => AsFresh(r)',
           handle' = "open", PlansKept',
           \A x \in Opens \ {r} : state'[x] = state[x],
           state'[r] # "none", UNCHANGED <<out, ended>>
    PROVE  FreshInv'
<1>1. \A x \in Opens : state'[x] = "none" => out'[x] = <<>> /\ ~ended'[x]
    BY DEF FInv, FreshInv
<1>2. \A x \in OpenRows' : query'[sqlOf'[x]] \in Queries
    BY DEF FInv, FreshInv
<1>3. ASSUME NEW x \in OpenRows', sqlOf'[x] \notin disturbed'
      PROVE  OpenRows' = {x} /\ AsFresh(x)'
    <2>1. OpenRows = {}
        BY <1>3 DEF DisturbedBy
    <2>2. x = r /\ s \notin disturbed
        BY <1>3, <2>1 DEF DisturbedBy
    <2> QED  BY <2>1, <2>2
<1> QED  BY <1>1, <1>2, <1>3 DEF FreshInv

\* The execution of a plan starts at the first row.
LEMMA ExecuteFresh ==
    ASSUME FInv, NEW r \in Opens, NEW q \in Queries, Execute(r, q)
    PROVE  FreshInv'
<1> DEFINE s == plans[q]
<1>1. /\ q \in DOMAIN plans /\ s \in Opens /\ state[r] = "none"
      /\ query[s] = q /\ Kind[q] # "temp"
      /\ Kind[q] = "sorted" /\ s \notin disturbed => snapshot[s] = Full(q)
      /\ handle = "open"
    BY DEF Execute, PlanReady, NewRows, FInv, IInv, Types, FreshInv, PlansKept
<1>2. /\ UNCHANGED <<handle, plans, query, snapshot, out, ended>>
      /\ DisturbedBy(s)
      /\ state' = [state EXCEPT ![r] = "open"] /\ sqlOf' = [sqlOf EXCEPT ![r] = s]
      /\ page' = [page EXCEPT ![s] = 0] /\ row' = [row EXCEPT ![s] = 0]
      /\ count' = [count EXCEPT ![s] = 0] /\ batches' = [batches EXCEPT ![s] = <<>>]
      /\ producer' = [producer EXCEPT ![s] = IF Kind[q] = "fast" THEN "read" ELSE "off"]
    BY DEF Execute, Rewind, StartScan, connVars
<1> HIDE DEF s
<1>3. /\ state'[r] = "open" /\ sqlOf'[r] = s
      /\ \A x \in Opens \ {r} : state'[x] = state[x] /\ sqlOf'[x] = sqlOf[x]
    BY <1>1, <1>2 DEF FInv, IInv, Types
<1>4. r \notin OpenRows /\ OpenRows' = OpenRows \cup {r}
    BY <1>1, <1>3 DEF OpenRows
<1>5. disturbed \subseteq disturbed'
    BY <1>2 DEF DisturbedBy
<1>6. PlansKept'
    BY <1>2, <1>5 DEF FInv, FreshInv, PlansKept, Full
<1>7. ASSUME s \notin disturbed PROVE AsFresh(r)'
    <2>1. page'[s] = 0 /\ row'[s] = 0 /\ count'[s] = 0 /\ batches'[s] = <<>>
        BY <1>1, <1>2 DEF FInv, Tables
    <2>2. producer'[s] = IF Kind[q] = "fast" THEN "read" ELSE "off"
        BY <1>1, <1>2 DEF FInv, IInv, Types
    <2>3. out'[r] = <<>> /\ ~ended'[r] /\ query'[s] = q
        BY <1>1, <1>2 DEF FInv, FreshInv
    <2>4. Kind[q] \in {"sorted", "temp"} => snapshot'[s] = Full(q)
        BY <1>1, <1>2, <1>7
    <2> QED  BY <1>3, <2>1, <2>2, <2>3, <2>4, StartFresh
<1>8. \A x \in OpenRows : x \in Opens \ {r}
    BY <1>4 DEF OpenRows
<1>9. query'[s] \in Queries /\ handle' = "open" /\ state'[r] # "none"
    BY <1>1, <1>2, <1>3
<1> QED  BY <1>2, <1>3, <1>4, <1>6, <1>7, <1>8, <1>9, OpensFresh

\* So does an execution afresh, with an SQL object that no plan and no Rows have.
LEMMA OpenAfreshFresh ==
    ASSUME FInv, NEW r \in Opens, NEW q \in Queries, OpenAfresh(r, q)
    PROVE  FreshInv'
<1>1. state[r] = "none" /\ r \notin OpenRows
    BY DEF OpenAfresh, NewRows, OpenRows
<1>2. /\ handle' = "open" /\ plans' = Forget(q) /\ UNCHANGED <<out, ended>>
      /\ DisturbedBy(r)
      /\ state' = [state EXCEPT ![r] = IF Kind[q] = "sorted" THEN "opening" ELSE "open"]
      /\ sqlOf' = [sqlOf EXCEPT ![r] = r] /\ query' = [query EXCEPT ![r] = q]
      /\ page' = [page EXCEPT ![r] = 0] /\ row' = [row EXCEPT ![r] = 0]
      /\ count' = [count EXCEPT ![r] = 0] /\ batches' = [batches EXCEPT ![r] = <<>>]
      /\ producer' = [producer EXCEPT ![r] = IF Kind[q] = "fast" THEN "read" ELSE "off"]
      /\ snapshot' = [snapshot EXCEPT ![r] = IF Kind[q] = "temp" THEN AllRows(q) ELSE <<>>]
    BY DEF OpenAfresh, Rewind, StartScan
<1>3. /\ state'[r] = IF Kind[q] = "sorted" THEN "opening" ELSE "open"
      /\ sqlOf'[r] = r
      /\ producer'[r] = IF Kind[q] = "fast" THEN "read" ELSE "off"
      /\ \A x \in Opens \ {r} : state'[x] = state[x] /\ sqlOf'[x] = sqlOf[x]
    BY <1>2 DEF FInv, IInv, Types
<1>4. /\ page'[r] = 0 /\ row'[r] = 0 /\ count'[r] = 0 /\ batches'[r] = <<>>
      /\ query'[r] = q
      /\ snapshot'[r] = IF Kind[q] = "temp" THEN AllRows(q) ELSE <<>>
      /\ \A x \in Opens \ {r} : query'[x] = query[x] /\ snapshot'[x] = snapshot[x]
    BY <1>2 DEF FInv, Tables
<1>5. OpenRows' = OpenRows \cup {r} /\ state'[r] # "none"
    BY <1>3 DEF OpenRows
<1>6. PlansKept'
    <2>1. \A x \in DOMAIN plans' : x \in DOMAIN plans /\ plans'[x] = plans[x]
        BY <1>2 DEF Forget
    <2>2. \A x \in DOMAIN plans : plans[x] \in Opens \ {r}
        BY <1>1 DEF FInv, IInv, Types, Ownership
    <2>3. disturbed \subseteq disturbed'
        BY <1>2 DEF DisturbedBy
    <2> QED  BY <1>4, <2>1, <2>2, <2>3 DEF FInv, FreshInv, PlansKept, Full
<1>7. AsFresh(r)'
    <2>1. out'[r] = <<>> /\ ~ended'[r]
        BY <1>1, <1>2 DEF FInv, FreshInv
    <2>2. Kind[q] = "temp" => snapshot'[r] = Full(q)
        BY <1>4 DEF Full
    <2>3. \/ state'[r] = "open" /\ (Kind[q] \in {"sorted", "temp"} => snapshot'[r] = Full(q))
          \/ state'[r] = "opening" /\ Kind[q] = "sorted" /\ snapshot'[r] = <<>>
        BY <1>3, <1>4, <2>2
    <2> QED  BY <1>3, <1>4, <2>1, <2>3, StartFresh
<1>8. \A x \in OpenRows : sqlOf'[x] = sqlOf[x] /\ query'[sqlOf[x]] = query[sqlOf[x]]
    <2>1. ASSUME NEW x \in OpenRows PROVE x \in Opens \ {r} /\ sqlOf[x] \in Opens \ {r}
        <3>1. x \in Opens \ {r} /\ sqlOf[x] \in Opens
            BY <1>1 DEF OpenRows, FInv, IInv, Types
        <3>2. sqlOf[x] = x \/ state[sqlOf[x]] = "closed"
            BY Zenon DEF FInv, IInv, Ownership
        <3> QED  BY <1>1, <3>1, <3>2
    <2> QED  BY <1>3, <1>4, <2>1
<1> QED  BY <1>1, <1>2, <1>3, <1>4, <1>5, <1>6, <1>7, <1>8, OpensFresh

\* A call that fails leaves no open Rows undisturbed.
LEMMA OpenFailsFresh ==
    ASSUME FInv, NEW r \in Opens, NEW q \in Queries, OpenFails(r, q)
    PROVE  FreshInv'
<1>1. /\ state[r] = "none" /\ handle' = "open" /\ plans' = Forget(q)
      /\ state' = [state EXCEPT ![r] = "closed"]
      /\ disturbed' = disturbed \cup {sqlOf[o] : o \in OpenRows}
      /\ UNCHANGED <<sqlOf, out, ended, query, snapshot>>
    BY DEF OpenFails, NewRows, sqlVars
<1>2. OpenRows' = OpenRows /\ \A x \in Opens : state'[x] = "none" => state[x] = "none"
    BY <1>1 DEF OpenRows, FInv, IInv, Types
<1>3. PlansKept'
    <2>1. \A x \in DOMAIN plans' : x \in DOMAIN plans /\ plans'[x] = plans[x]
        BY <1>1 DEF Forget
    <2> QED  BY <1>1, <2>1 DEF FInv, FreshInv, PlansKept, Full
<1>4. \A x \in Opens : state'[x] = "none" => out'[x] = <<>> /\ ~ended'[x]
    BY <1>1, <1>2 DEF FInv, FreshInv
<1>5. \A x \in OpenRows' : query'[sqlOf'[x]] \in Queries /\ sqlOf'[x] \in disturbed'
    BY <1>1, <1>2 DEF FInv, FreshInv
<1> QED  BY <1>1, <1>3, <1>4, <1>5 DEF FreshInv

\* Closed Rows leave a plan as it should be.
LEMMA CloseFresh ==
    ASSUME FInv, NEW r \in Opens, Close(r)
    PROVE  FreshInv'
<1> DEFINE s == sqlOf[r]
<1>1. r \in OpenRows /\ s \in Opens /\ handle = "open" /\ query[s] \in Queries
    BY DEF Close, OpenRows, FInv, FreshInv, IInv, Types
<1>2. /\ state' = [state EXCEPT ![r] = "closed"] /\ sqlOf' = [sqlOf EXCEPT ![r] = r]
      /\ out' = [out EXCEPT ![r] = <<>>] /\ ended' = [ended EXCEPT ![r] = FALSE]
      /\ UNCHANGED <<handle, query, snapshot, disturbed>>
    BY DEF Close
<1>3. /\ OpenRows' = OpenRows \ {r} /\ state'[r] = "closed"
      /\ \A x \in Opens \ {r} : state'[x] = state[x] /\ sqlOf'[x] = sqlOf[x]
    BY <1>2 DEF OpenRows, FInv, IInv, Types
<1>4. \A x \in Opens : state'[x] = "none" => out'[x] = <<>> /\ ~ended'[x]
    <2>1. \A x \in Opens \ {r} : out'[x] = out[x]
        BY <1>2 DEF FInv, Tables
    <2>2. \A x \in Opens \ {r} : ended'[x] = ended[x]
        BY <1>2, Zenon DEF FInv, Tables
    <2> QED  BY <1>3, <2>1, <2>2 DEF FInv, FreshInv
<1>5. PlansKept'
    <2>1. \A x \in DOMAIN plans' : \/ x \in DOMAIN plans /\ plans'[x] = plans[x]
                                   \/ /\ x = query[s] /\ plans'[x] = s
                                      /\ Kind[query[s]] # "temp"
        BY DEF Close, CachePlan
    <2>2. Kind[query[s]] = "sorted" /\ s \notin disturbed => snapshot[s] = Full(query[s])
        <3> SUFFICES ASSUME Kind[query[s]] = "sorted", s \notin disturbed
                     PROVE  snapshot[s] = Full(query[s])
            OBVIOUS
        <3>1. AsFresh(r) /\ state[r] = "open"
            BY <1>1, RunsAlone DEF Close
        <3> QED  BY <3>1 DEF AsFresh
    <2> QED  BY <1>1, <1>2, <2>1, <2>2 DEF FInv, FreshInv, PlansKept, Full
<1>6. ASSUME NEW x \in OpenRows'
      PROVE  /\ query'[sqlOf'[x]] \in Queries
             /\ sqlOf'[x] \notin disturbed' => OpenRows' = {x} /\ AsFresh(x)'
    <2>1. x \in OpenRows /\ x # r /\ x \in Opens /\ sqlOf'[x] = sqlOf[x]
        BY <1>3 DEF OpenRows
    <2>2. sqlOf[x] \notin disturbed => FALSE
        BY <1>1, <2>1, RunsAlone
    <2> QED  BY <1>2, <2>1, <2>2 DEF FInv, FreshInv
<1> QED  BY <1>1, <1>2, <1>4, <1>5, <1>6 DEF FreshInv

\* Conn.Close leaves no Rows and no plan.
LEMMA CloseConnFresh == ASSUME FInv, CloseConn PROVE FreshInv'
<1>1. /\ OpenRows = {} /\ DOMAIN plans' = {}
      /\ UNCHANGED <<state, out, ended>>
    BY DEF CloseConn, rowsVars
<1>2. OpenRows' = {}
    BY <1>1 DEF OpenRows
<1> QED  BY <1>1, <1>2 DEF FInv, FreshInv, PlansKept

\* A new connection has no Rows and no plan.
LEMMA InitFresh == Init => FInv
<1> SUFFICES ASSUME Init PROVE FInv
    OBVIOUS
<1>1. \A r \in Opens : state[r] = "none" /\ out[r] = <<>> /\ ended[r] = FALSE
    BY DEF Init
<1>2. OpenRows = {} /\ DOMAIN plans = {}
    BY <1>1 DEF OpenRows, Init
<1>3. FreshInv
    BY <1>1, <1>2 DEF FreshInv, PlansKept
<1>4. Tables
    BY DEF Init, Tables
<1> QED  BY <1>3, <1>4, InitIInv DEF FInv

\* Every step keeps the invariant.
LEMMA StepFresh == FInv /\ [Next]_vars => FInv'
<1> SUFFICES ASSUME FInv, [Next]_vars PROVE FInv'
    OBVIOUS
<1>1. IInv' /\ Tables'
    BY StepIInv, StepTables DEF FInv
<1>2. FreshInv'
    BY StaysFresh, ExecuteFresh, OpenAfreshFresh, OpenFailsFresh, CloseFresh, CloseConnFresh
       DEF Next, QueryContext
<1> QED  BY <1>1, <1>2 DEF FInv

\* The invariant holds in every state of every run.
LEMMA FreshInvariance == Spec => []FInv
BY InitFresh, StepFresh, PTL DEF Spec

\* What the invariant says of undisturbed Rows is that they return their own rows.
LEMMA OwnRowsFollow == FInv => ReuseAsFresh
<1> SUFFICES ASSUME FInv, NEW r \in OpenRows, sqlOf[r] \notin disturbed
             PROVE  OwnRowsOf(r)
    BY DEF ReuseAsFresh
<1> DEFINE s == sqlOf[r]
           q == query[s]
<1>1. q \in Queries /\ AsFresh(r) /\ state[r] \in {"opening", "open"}
    BY RunsAlone DEF OpenRows
<1> HIDE DEF s, q
<1>2. Full(q) \in Seq(RowSet) /\ AllRows(q) \in Seq(RowSet) /\ <<>> \in Seq(RowSet)
      /\ Limit[q] \in Nat \cup {-1} /\ Len(Pages[q]) \in Nat
    BY <1>1, FullIs, QueryFacts
<1>3. CASE ended[r]
    <2>1. out[r] = Expected(q)
        BY <1>1, <1>3 DEF AsFresh, OpenRows, s, q
    <2>2. Expected(q) \in Seq(RowSet)
        <3>1. IsPrefix(<<>>, Full(q)) /\ (Limit[q] >= 0 => Len(<<>>) <= Limit[q])
            BY <1>2, EmptyPrefix
        <3> QED  BY <1>1, <1>2, <3>1, ExpectedIs
    <2>3. IsPrefix(Expected(q), Expected(q))
        <3>1. Expected(q) \o <<>> = Expected(q)
            BY <2>2
        <3> QED  BY <1>2, <2>2, <3>1, PrefixOfWhole
    <2> QED  BY <2>1, <2>3, Zenon DEF OwnRowsOf, s, q
<1>4. CASE ~ended[r]
    <2>1. /\ out[r] \in Seq(RowSet) /\ IsPrefix(out[r], Full(q))
          /\ Limit[q] >= 0 => Len(out[r]) <= Limit[q]
        <3>1. CASE state[r] = "opening"
            <4>1. out[r] = <<>> /\ Len(<<>>) = 0
                BY <1>1, <3>1 DEF AsFresh
            <4> QED  BY <1>2, <4>1, EmptyPrefix
        <3>2. CASE state[r] = "open"
            <4>1. Standing(r) /\ (Limit[q] >= 0 => Len(out[r]) <= Limit[q])
                BY <1>1, <1>4, <3>2 DEF AsFresh, s, q
            <4> QED  BY <1>1, <4>1, StandingIs DEF s, q
        <3> QED  BY <1>1, <3>1, <3>2
    <2>2. IsPrefix(out[r], Expected(q))
        BY <1>1, <2>1, ExpectedIs
    <2> QED  BY <1>4, <2>2, Zenon DEF OwnRowsOf, s, q
<1> QED  BY <1>3, <1>4

\* A plan that is executed again returns what a fresh execution returns, in every state of
\* every run.
THEOREM PlansAsFresh == Spec => []ReuseAsFresh
BY FreshInvariance, OwnRowsFollow, PTL
=============================================================================
