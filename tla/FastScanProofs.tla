-------------------------- MODULE FastScanProofs ------------------------
(***************************************************************************)
(* Proofs about FastScan for every value of its constants: the types of    *)
(* all variables, the order in which batches are delivered, that a batch   *)
(* has one owner, that the slots bound how many are in flight, that a      *)
(* batch is delivered only when all its tasks have been processed, and     *)
(* that the pipeline implements OrderedScan.                               *)
(***************************************************************************)
EXTENDS FastScan, SequenceTheorems, FiniteSetTheorems, TLAPS


\* Where the producer stands in the table: it has a page when it dispatches
\* rows, and rows are left when it sends a task or starts another batch.
ProducerInv ==
    /\ pgNo <= Len(table)
    /\ pgNo = 0 => /\ fill = 0
                   /\ ppc \in {"slot", "take", "remake", "page", "eof", "exit",
                               "done"}
    /\ (ppc \in {"slot", "take", "remake", "send", "put"} /\ pgNo > 0)
            => rowNo < Len(table[pgNo])

\* A worker that is past the receive holds a task.
WorkerInv == \A w \in Workers : wpc[w] \notin {"recv", "exit"} => wtask[w] \in Task

\* Goroutine k has passed its first wait only after goroutine k - 1 was done, so
\* those that have handed over are an initial segment; it is as long as what
\* the consumer received and what waits in the channel together.
Sent(k) == epc[k] \in {"sent", "done"}
ChainInv ==
    /\ Len(enq) = Len(epc)
    /\ \A k \in 1..Len(epc) :
          (k > 1 /\ (Sent(k) \/ epc[k] \in {"ready", "send"})) => epc[k - 1] = "done"
    /\ cpc = "closed" =>
          /\ ppc = "done"
          /\ \A k \in 1..Len(epc) : epc[k] \in {"done", "dead"}
    /\ cpc # "closed" =>
          \A k \in 1..Len(epc) : Sent(k) <=> k <= taken + Len(queue)
    /\ taken + Len(queue) <= Len(epc)

\* The consumer holds a batch when it reads or returns one, and the batch of
\* enqueueEOF only when it has reported the end.
ConsumerInv ==
    /\ cpc \in {"recycle", "free", "scan", "recv"} => ~done
    /\ cpc \in {"recycle", "free", "scan"} => cur # 0
    /\ (cur # 0 /\ enq[cur] = EOF) => done

IInv == TypeOK /\ ProducerInv /\ WorkerInv /\ ChainInv /\ DeliveryOrder /\ ConsumerInv

------------------------------------------------------------------------------
(* Types *)

\* Each update the code makes of a batch yields a batch.
LEMMA BatchUpdates ==
    ASSUME NEW o \in BatchFields
    PROVE  /\ Recycled(o) \in BatchFields
           /\ [o EXCEPT !.closed = FALSE] \in BatchFields
           /\ [o EXCEPT !.remaining = @ + 1] \in BatchFields
           /\ [o EXCEPT !.remaining = @ - 1] \in BatchFields
           /\ [o EXCEPT !.readyClosed = TRUE, !.closed = TRUE] \in BatchFields
<1> USE DEF BatchFields
<1>1. Recycled(o) \in BatchFields
  BY DEF Recycled
<1>2. [o EXCEPT !.closed = FALSE] \in BatchFields
  OBVIOUS
<1>3. [o EXCEPT !.remaining = @ + 1] \in BatchFields
  OBVIOUS
<1>4. [o EXCEPT !.remaining = @ - 1] \in BatchFields
  OBVIOUS
<1>5. [o EXCEPT !.readyClosed = TRUE, !.closed = TRUE] \in BatchFields
  OBVIOUS
<1> QED
  BY <1>1, <1>2, <1>3, <1>4, <1>5

LEMMA RowsUpdate ==
    ASSUME NEW o \in BatchFields, NEW r \in [1..BatchRows -> Nat \X Nat]
    PROVE  [o EXCEPT !.rows = r] \in BatchFields
  BY DEF BatchFields

LEMMA FinishUpdate ==
    ASSUME NEW o \in BatchFields, NEW n \in Nat
    PROVE  [o EXCEPT !.n = n, !.doneSending = TRUE] \in BatchFields
  BY DEF BatchFields

LEMMA NewBatchType == \A g \in Nat : NewBatch(g) \in BatchFields
  BY DEF BatchFields, NewBatch, Leftover

\* Storing a batch keeps the type of the objects.
LEMMA SetBatchType ==
    ASSUME obj \in [Batches -> BatchFields], NEW b \in Batches,
           NEW f \in BatchFields, SetBatch(b, f)
    PROVE  obj' \in [Batches -> BatchFields]
  BY DEF SetBatch

LEMMA MarkReadyType ==
    ASSUME obj \in [Batches -> BatchFields], NEW b \in Batches,
           panicked \in BOOLEAN, MarkReady(b)
    PROVE  obj' \in [Batches -> BatchFields] /\ panicked' \in BOOLEAN
<1>1. obj[b] \in BatchFields
  OBVIOUS
<1>2. obj[b].closed \in BOOLEAN
  BY <1>1 DEF BatchFields
<1>3. CASE obj[b].readyClosed
  BY <1>3 DEF MarkReady
<1>4. CASE ~obj[b].readyClosed
  <2>1. [obj[b] EXCEPT !.readyClosed = TRUE, !.closed = TRUE] \in BatchFields
    BY <1>1 DEF BatchFields
  <2> QED
    BY <1>2, <1>4, <2>1, SetBatchType DEF MarkReady
<1> QED
  BY <1>3, <1>4

LEMMA TaskSizeType ==
    ASSUME TypeOK, ProducerInv, ppc \in {"send", "put"}
    PROVE  TaskSize(pgNo, rowNo) \in Nat \ {0}
<1>1. pgNo \in 1..Len(table) /\ rowNo < Len(table[pgNo])
  BY DEF TypeOK, ProducerInv
<1>2. Len(table[pgNo]) \in Nat
  BY <1>1, FastScanAssumption DEF TypeOK
<1> QED
  BY <1>1, <1>2, FastScanAssumption DEF TypeOK, TaskSize, SmallerOf

LEMMA RowsAfterType ==
    ASSUME NEW t \in Task, obj[t.batch] \in BatchFields
    PROVE  RowsAfter(t) \in [1..BatchRows -> Nat \X Nat]
<1>1. obj[t.batch].rows \in [1..BatchRows -> Nat \X Nat]
  BY DEF BatchFields
<1>2. t.slot \in Nat /\ t.page \in Nat /\ t.first \in Nat /\ t.n \in Nat
  BY DEF Task
<1>3. ASSUME NEW i \in 1..BatchRows, i \in (t.slot + 1)..(t.slot + t.n)
      PROVE  Decoded(t.page, t.first + i - t.slot) \in Nat \X Nat
  BY <1>2, <1>3 DEF Decoded, NoRow
<1> QED
  BY <1>1, <1>3 DEF RowsAfter

\* Every step preserves the types.
LEMMA TypeStep == IInv /\ [Next]_vars => TypeOK'
<1> SUFFICES ASSUME TypeOK, ProducerInv, WorkerInv, ChainInv, DeliveryOrder,
                    ConsumerInv, [Next]_vars
             PROVE  TypeOK'
  BY DEF IInv
<1>1. QED
  <2> USE FastScanAssumption DEF TypeOK, query, prodVars, enqVars, workVars,
          consVars, histVars
  <2>1. ASSUME AcquireSlot PROVE TypeOK'
    BY <2>1 DEF AcquireSlot, SlotAvailable
  <2>2. ASSUME TakePooled PROVE TypeOK'
    <3>1. Head(pool) \in Batches /\ Tail(pool) \in Seq(Batches)
      BY <2>2 DEF TakePooled
    <3>2. obj' \in [Batches -> BatchFields]
      BY <2>2, <3>1, BatchUpdates, SetBatchType DEF TakePooled
    <3> QED
      BY <2>2, <3>1, <3>2 DEF TakePooled
  <2>3. ASSUME RemakeReady PROVE TypeOK'
    <3>1. obj' \in [Batches -> BatchFields]
      BY <2>3, BatchUpdates, SetBatchType DEF RemakeReady
    <3> QED
      BY <2>3, <3>1 DEF RemakeReady, StartFilling
  <2>4. ASSUME AllocateBatch PROVE TypeOK'
    <3>1. Unused \in Batches
      BY <2>4 DEF AllocateBatch, Unused
    <3>2. obj' \in [Batches -> BatchFields]
      BY <2>4, <3>1, NewBatchType, SetBatchType DEF AllocateBatch
    <3> QED
      BY <2>4, <3>1, <3>2 DEF AllocateBatch, StartFilling
  <2>5. ASSUME ReadPage PROVE TypeOK'
    <3>1. ppc' \in {"page", "flush", "send", "eof"}
      BY <2>5 DEF ReadPage, AfterLastPage, Dispatch
    <3>2. pgNo' \in Nat /\ rowNo' \in Nat
      BY <2>5 DEF ReadPage
    <3> QED
      BY <2>5, <3>1, <3>2 DEF ReadPage
  <2>6. ASSUME CountTask PROVE TypeOK'
    <3>1. obj' \in [Batches -> BatchFields]
      BY <2>6, BatchUpdates, SetBatchType DEF CountTask
    <3> QED
      BY <2>6, <3>1 DEF CountTask
  <2>7. ASSUME PutTask PROVE TypeOK'
    <3>1. TaskSize(pgNo, rowNo) \in Nat
      BY <2>7, TaskSizeType DEF PutTask
    <3>2. CASE cancelled /\ SetBatch(pb, [obj[pb] EXCEPT !.remaining = @ - 1])
               /\ ppc' = "exit" /\ UNCHANGED <<tasks, fill, rowNo>>
      <4>1. obj' \in [Batches -> BatchFields]
        BY <3>2, BatchUpdates, SetBatchType
      <4> QED
        BY <2>7, <3>2, <4>1 DEF PutTask
    <3> DEFINE n == TaskSize(pgNo, rowNo)
               t == [batch |-> pb, gen |-> obj[pb].gen, slot |-> fill,
                     page |-> pgNo, first |-> rowNo, n |-> n]
    <3>3. CASE /\ tasks' = Append(tasks, t)
               /\ fill' = fill + n /\ rowNo' = rowNo + n
               /\ ppc' = Dispatch(pgNo, rowNo + n, fill + n)
               /\ UNCHANGED obj
      <4>1. obj[pb].gen \in Nat
        BY DEF BatchFields
      <4>2. t \in Task
        BY <3>1, <4>1 DEF Task
      <4>3. tasks' \in Seq(Task)
        BY <3>3, <4>2
      <4>4. fill' \in Nat /\ rowNo' \in Nat
        BY <3>3, <3>1
      <4>5. ppc' \in {"page", "flush", "send", "exit"}
        BY <3>3 DEF Dispatch
      <4> QED
        BY <2>7, <3>3, <4>3, <4>4, <4>5 DEF PutTask
    <3> QED
      BY <2>7, <3>2, <3>3 DEF PutTask
  <2>8. ASSUME FinishBatch PROVE TypeOK'
    <3>1. obj' \in [Batches -> BatchFields]
      BY <2>8, FinishUpdate, SetBatchType DEF FinishBatch
    <3> QED
      BY <2>8, <3>1 DEF FinishBatch
  <2>9. ASSUME SpawnEnqueuer PROVE TypeOK'
    <3>1. obj' \in [Batches -> BatchFields] /\ panicked' \in BOOLEAN
      BY <2>9, MarkReadyType DEF SpawnEnqueuer, SignalIfDone
    <3> QED
      BY <2>9, <3>1 DEF SpawnEnqueuer
  <2>10. ASSUME EnqueueEOF PROVE TypeOK'
    BY <2>10 DEF EnqueueEOF
  <2>11. ASSUME ProducerExit PROVE TypeOK'
    BY <2>11 DEF ProducerExit
  <2>12. ASSUME NEW k \in 1..Len(epc), AwaitPrev(k) PROVE TypeOK'
    BY <2>12 DEF AwaitPrev
  <2>13. ASSUME NEW k \in 1..Len(epc), AwaitReady(k) PROVE TypeOK'
    BY <2>13 DEF AwaitReady
  <2>14. ASSUME NEW k \in 1..Len(epc), HandOver(k) PROVE TypeOK'
    <3>1. k \in Nat
      OBVIOUS
    <3>2. queue' \in Seq(Nat)
      BY <2>14, <3>1 DEF HandOver
    <3> QED
      BY <2>14, <3>2 DEF HandOver
  <2>15. ASSUME NEW k \in 1..Len(epc), ReleaseNext(k) PROVE TypeOK'
    BY <2>15 DEF ReleaseNext
  <2>16. ASSUME NEW k \in 1..Len(epc), GiveUp(k) PROVE TypeOK'
    BY <2>16 DEF GiveUp, Cancellable
  <2>17. ASSUME NEW w \in Workers, ReceiveTask(w) PROVE TypeOK'
    BY <2>17 DEF ReceiveTask, Goto
  <2>18. ASSUME NEW w \in Workers, WorkerExit(w) PROVE TypeOK'
    BY <2>18 DEF WorkerExit, Goto
  <2>19. ASSUME NEW w \in Workers, ProcessTask(w) PROVE TypeOK'
    <3>1. wtask[w] \in Task
      BY <2>19 DEF ProcessTask, WorkerInv
    <3>2. wtask[w].batch \in Batches /\ obj[wtask[w].batch] \in BatchFields
      BY <3>1 DEF Task
    <3>3. RowsAfter(wtask[w]) \in [1..BatchRows -> Nat \X Nat]
      BY <3>1, <3>2, RowsAfterType
    <3>4. obj' \in [Batches -> BatchFields]
      BY <2>19, <3>2, <3>3, RowsUpdate, SetBatchType DEF ProcessTask
    <3> QED
      BY <2>19, <3>4 DEF ProcessTask, Goto
  <2>20. ASSUME NEW w \in Workers, CountDone(w) PROVE TypeOK'
    <3>1. wtask[w].batch \in Batches
      BY <2>20 DEF CountDone, WorkerInv, Task
    <3>2. obj' \in [Batches -> BatchFields]
      BY <2>20, <3>1, BatchUpdates, SetBatchType DEF CountDone
    <3> QED
      BY <2>20, <3>2 DEF CountDone, Goto
  <2>21. ASSUME NEW w \in Workers, LoadSending(w) PROVE TypeOK'
    BY <2>21 DEF LoadSending, Goto
  <2>22. ASSUME NEW w \in Workers, LoadRemaining(w) PROVE TypeOK'
    BY <2>22 DEF LoadRemaining, Goto
  <2>23. ASSUME NEW w \in Workers, SignalReady(w) PROVE TypeOK'
    <3>1. wtask[w].batch \in Batches
      BY <2>23 DEF SignalReady, WorkerInv, Task
    <3>2. obj' \in [Batches -> BatchFields] /\ panicked' \in BOOLEAN
      BY <2>23, <3>1, MarkReadyType DEF SignalReady
    <3>3. stale' \in BOOLEAN
      BY <2>23 DEF SignalReady
    <3> QED
      BY <2>23, <3>2, <3>3 DEF SignalReady, Goto
  <2>24. ASSUME CallNext PROVE TypeOK'
    BY <2>24 DEF CallNext
  <2>25. ASSUME ReleaseBatch PROVE TypeOK'
    <3>1. cur \in 1..Len(enq) /\ enq[cur] \in Batches
      BY <2>25 DEF ReleaseBatch, ConsumerInv, ChainInv, DeliveryOrder
    <3>2. pool' \in Seq(Batches)
      BY <2>25, <3>1 DEF ReleaseBatch
    <3> QED
      BY <2>25, <3>2 DEF ReleaseBatch
  <2>26. ASSUME ReleaseSlot PROVE TypeOK'
    BY <2>26 DEF ReleaseSlot
  <2>27. ASSUME ReceiveBatch PROVE TypeOK'
    BY <2>27 DEF ReceiveBatch, ChainInv, DeliveryOrder
  <2>28. ASSUME ScanRow PROVE TypeOK'
    BY <2>28 DEF ScanRow
  <2>29. ASSUME CallClose PROVE TypeOK'
    BY <2>29 DEF CallClose
  <2>30. ASSUME FinishClose PROVE TypeOK'
    BY <2>30 DEF FinishClose
  <2>31. CASE UNCHANGED vars
    BY <2>31 DEF vars
  <2> QED
    BY <2>1, <2>2, <2>3, <2>4, <2>5, <2>6, <2>7, <2>8, <2>9, <2>10, <2>11, <2>12, <2>13, <2>14, <2>15, <2>16, <2>17, <2>18, <2>19, <2>20, <2>21, <2>22, <2>23, <2>24, <2>25, <2>26, <2>27, <2>28, <2>29, <2>30, <2>31
    DEF Next, Producer, Enqueuer, Worker, Consumer, NextRow
------------------------------------------------------------------------------
(* Where the producer, the workers and the consumer stand *)

LEMMA ProducerStep == IInv /\ [Next]_vars => ProducerInv'
<1> SUFFICES ASSUME TypeOK, ProducerInv, [Next]_vars
             PROVE  ProducerInv'
  BY DEF IInv
<1>a. table \in Seq(Seq(BOOLEAN)) /\ pgNo \in Nat /\ rowNo \in Nat /\ fill \in Nat
  BY FastScanAssumption DEF TypeOK
<1>b. ASSUME UNCHANGED <<query, prodVars>> PROVE ProducerInv'
  BY <1>b DEF ProducerInv, query, prodVars
<1>1. ASSUME AcquireSlot PROVE ProducerInv'
  BY <1>1, <1>a DEF AcquireSlot, ProducerInv, query
<1>2. ASSUME TakePooled PROVE ProducerInv'
  BY <1>2, <1>a DEF TakePooled, ProducerInv, query
<1>3. ASSUME RemakeReady PROVE ProducerInv'
  BY <1>3, <1>a DEF RemakeReady, StartFilling, ProducerInv, query
<1>4. ASSUME AllocateBatch PROVE ProducerInv'
  BY <1>4, <1>a DEF AllocateBatch, StartFilling, ProducerInv, query
<1>5. ASSUME ReadPage PROVE ProducerInv'
  BY <1>5, <1>a DEF ReadPage, AfterLastPage, Dispatch, ProducerInv, query
<1>6. ASSUME CountTask PROVE ProducerInv'
  BY <1>6, <1>a DEF CountTask, ProducerInv, query
<1>7. ASSUME PutTask PROVE ProducerInv'
  <2>1. TaskSize(pgNo, rowNo) \in Nat
    BY <1>7, TaskSizeType DEF PutTask
  <2> QED
    BY <1>7, <1>a, <2>1 DEF PutTask, Dispatch, ProducerInv, query
<1>8. ASSUME FinishBatch PROVE ProducerInv'
  BY <1>8, <1>a DEF FinishBatch, ProducerInv, query
<1>9. ASSUME SpawnEnqueuer PROVE ProducerInv'
  BY <1>9, <1>a DEF SpawnEnqueuer, ProducerInv, query
<1>10. ASSUME EnqueueEOF PROVE ProducerInv'
  BY <1>10, <1>a DEF EnqueueEOF, ProducerInv, query
<1>11. ASSUME ProducerExit PROVE ProducerInv'
  BY <1>11, <1>a DEF ProducerExit, ProducerInv, query
<1>12. ASSUME NEW k \in 1..Len(epc), Enqueuer(k) PROVE ProducerInv'
  BY <1>12, <1>b DEF Enqueuer, AwaitPrev, AwaitReady, HandOver, ReleaseNext, GiveUp
<1>13. ASSUME NEW w \in Workers, Worker(w) PROVE ProducerInv'
  BY <1>13, <1>b DEF Worker, ReceiveTask, WorkerExit, ProcessTask, CountDone,
                     LoadSending, LoadRemaining, SignalReady
<1>14. ASSUME Consumer PROVE ProducerInv'
  BY <1>14, <1>b DEF Consumer, NextRow, CallNext, ReleaseBatch, ReleaseSlot,
                     ReceiveBatch, ScanRow, CallClose, FinishClose
<1>15. CASE UNCHANGED vars
  BY <1>15, <1>b DEF vars
<1> QED
  BY <1>1, <1>2, <1>3, <1>4, <1>5, <1>6, <1>7, <1>8, <1>9, <1>10, <1>11, <1>12,
     <1>13, <1>14, <1>15 DEF Next, Producer

LEMMA WorkerStep == IInv /\ [Next]_vars => WorkerInv'
<1> SUFFICES ASSUME TypeOK, WorkerInv, [Next]_vars
             PROVE  WorkerInv'
  BY DEF IInv
<1>a. ASSUME UNCHANGED workVars PROVE WorkerInv'
  BY <1>a DEF WorkerInv, workVars
<1>1. ASSUME Producer PROVE WorkerInv'
  BY <1>1, <1>a DEF Producer, AcquireSlot, TakePooled, RemakeReady, AllocateBatch,
                    ReadPage, CountTask, PutTask, FinishBatch, SpawnEnqueuer,
                    EnqueueEOF, ProducerExit
<1>2. ASSUME NEW k \in 1..Len(epc), Enqueuer(k) PROVE WorkerInv'
  BY <1>2, <1>a DEF Enqueuer, AwaitPrev, AwaitReady, HandOver, ReleaseNext, GiveUp
<1>3. ASSUME Consumer PROVE WorkerInv'
  BY <1>3, <1>a DEF Consumer, NextRow, CallNext, ReleaseBatch, ReleaseSlot,
                    ReceiveBatch, ScanRow, CallClose, FinishClose
<1>4. ASSUME NEW w \in Workers, ReceiveTask(w) PROVE WorkerInv'
  <2>1. Head(tasks) \in Task
    BY <1>4 DEF ReceiveTask, TypeOK
  <2> QED
    BY <1>4, <2>1 DEF ReceiveTask, Goto, WorkerInv, TypeOK
<1>5. ASSUME NEW w \in Workers, WorkerExit(w) PROVE WorkerInv'
  BY <1>5 DEF WorkerExit, Goto, WorkerInv, TypeOK
<1>6. ASSUME NEW w \in Workers, ProcessTask(w) PROVE WorkerInv'
  BY <1>6 DEF ProcessTask, Goto, WorkerInv, TypeOK
<1>7. ASSUME NEW w \in Workers, CountDone(w) PROVE WorkerInv'
  BY <1>7 DEF CountDone, Goto, WorkerInv, TypeOK
<1>8. ASSUME NEW w \in Workers, LoadSending(w) PROVE WorkerInv'
  BY <1>8 DEF LoadSending, Goto, WorkerInv, TypeOK
<1>9. ASSUME NEW w \in Workers, LoadRemaining(w) PROVE WorkerInv'
  BY <1>9 DEF LoadRemaining, Goto, WorkerInv, TypeOK
<1>10. ASSUME NEW w \in Workers, SignalReady(w) PROVE WorkerInv'
  BY <1>10 DEF SignalReady, Goto, WorkerInv, TypeOK
<1>11. CASE UNCHANGED vars
  BY <1>11, <1>a DEF vars
<1> QED
  BY <1>1, <1>2, <1>3, <1>4, <1>5, <1>6, <1>7, <1>8, <1>9, <1>10, <1>11
  DEF Next, Worker

LEMMA ConsumerStep == IInv /\ [Next]_vars => ConsumerInv'
<1> SUFFICES ASSUME TypeOK, ChainInv, DeliveryOrder, ConsumerInv, [Next]_vars
             PROVE  ConsumerInv'
  BY DEF IInv
<1>a. ASSUME UNCHANGED <<enq, consVars>> PROVE ConsumerInv'
  BY <1>a DEF ConsumerInv, consVars
<1>b. /\ enq \in Seq(Batches \cup {EOF}) /\ cur \in 0..Len(enq)
      /\ queue \in Seq(Nat) /\ taken \in Nat /\ done \in BOOLEAN
  BY DEF TypeOK, ChainInv, DeliveryOrder
<1>c. ASSUME NEW b \in Batches \cup {EOF}, enq' = Append(enq, b),
             UNCHANGED consVars
      PROVE  ConsumerInv'
  BY <1>b, <1>c DEF ConsumerInv, consVars
<1>1. ASSUME Producer PROVE ConsumerInv'
  <2>1. CASE SpawnEnqueuer
    BY <2>1, <1>c DEF SpawnEnqueuer, TypeOK
  <2>2. CASE EnqueueEOF
    BY <2>2, <1>c DEF EnqueueEOF
  <2> QED
    BY <1>1, <2>1, <2>2, <1>a DEF Producer, AcquireSlot, TakePooled, RemakeReady,
       AllocateBatch, ReadPage, CountTask, PutTask, FinishBatch, ProducerExit, enqVars
<1>2. ASSUME NEW k \in 1..Len(epc), Enqueuer(k) PROVE ConsumerInv'
  BY <1>2, <1>a DEF Enqueuer, AwaitPrev, AwaitReady, HandOver, ReleaseNext, GiveUp
<1>3. ASSUME NEW w \in Workers, Worker(w) PROVE ConsumerInv'
  BY <1>3, <1>a DEF Worker, ReceiveTask, WorkerExit, ProcessTask, CountDone,
                    LoadSending, LoadRemaining, SignalReady, enqVars
<1>4. ASSUME CallNext PROVE ConsumerInv'
  BY <1>4, <1>b DEF CallNext, ConsumerInv, enqVars
<1>5. ASSUME ReleaseBatch PROVE ConsumerInv'
  BY <1>5, <1>b DEF ReleaseBatch, ConsumerInv, enqVars
<1>6. ASSUME ReleaseSlot PROVE ConsumerInv'
  BY <1>6, <1>b DEF ReleaseSlot, ConsumerInv, enqVars
<1>7. ASSUME ReceiveBatch PROVE ConsumerInv'
  <2>1. cur' = taken + 1 /\ cur' # 0
    BY <1>7, <1>b DEF ReceiveBatch, DeliveryOrder
  <2>2. done' = (enq[cur'] = EOF) /\ enq' = enq
    BY <1>7 DEF ReceiveBatch, enqVars
  <2>3. cpc' \in {"idle", "scan"} /\ (cpc' = "scan" => enq[cur'] # EOF)
    BY <1>7 DEF ReceiveBatch
  <2> QED
    BY <2>1, <2>2, <2>3 DEF ConsumerInv
<1>8. ASSUME ScanRow PROVE ConsumerInv'
  BY <1>8, <1>b DEF ScanRow, ConsumerInv, enqVars
<1>9. ASSUME CallClose PROVE ConsumerInv'
  BY <1>9, <1>b DEF CallClose, ConsumerInv, enqVars
<1>10. ASSUME FinishClose PROVE ConsumerInv'
  BY <1>10, <1>b DEF FinishClose, ConsumerInv, enqVars
<1>11. CASE UNCHANGED vars
  BY <1>11, <1>a DEF vars, enqVars
<1> QED
  BY <1>1, <1>2, <1>3, <1>4, <1>5, <1>6, <1>7, <1>8, <1>9, <1>10, <1>11
  DEF Next, Consumer, NextRow
------------------------------------------------------------------------------
(* The chain of goroutines and the order of delivery *)

\* A batch received or waiting was handed over by a goroutine that exists.
LEMMA ChainTypes ==
    ASSUME TypeOK, ChainInv
    PROVE  /\ enq \in Seq(Batches \cup {EOF}) /\ Len(enq) = Len(epc)
           /\ epc \in Seq({"prev", "ready", "send", "sent", "done", "dead"})
           /\ queue \in Seq(Nat) /\ taken \in Nat
           /\ Len(queue) \in Nat /\ Len(epc) \in Nat
  BY DEF TypeOK, ChainInv

\* A step that leaves the goroutines and the channel alone.
LEMMA ChainUnchanged ==
    ASSUME ChainInv, DeliveryOrder, UNCHANGED <<enqVars, queue, taken>>,
           ppc = "done" => ppc' = "done",
           cpc' = "closed" => cpc = "closed", cpc = "closed" => cpc' = "closed",
           cur' \in {cur, 0}
    PROVE  ChainInv' /\ DeliveryOrder'
  BY DEF ChainInv, DeliveryOrder, Sent, enqVars

\* Starting one more goroutine.
LEMMA ChainAppend ==
    ASSUME TypeOK, ChainInv, DeliveryOrder, NEW b \in Batches \cup {EOF},
           enq' = Append(enq, b), epc' = Append(epc, "prev"), ppc # "done",
           UNCHANGED <<queue, taken, cpc, cur>>
    PROVE  ChainInv' /\ DeliveryOrder'
<1>1. DeliveryOrder'
  BY DEF DeliveryOrder
<1>2. cpc # "closed" /\ cpc' # "closed"
  BY DEF ChainInv
<1>3. Len(epc') = Len(epc) + 1 /\ Len(enq') = Len(enq) + 1
  BY DEF TypeOK
<1>4. \A k \in 1..Len(epc) : epc'[k] = epc[k]
  BY DEF TypeOK
<1>5. epc'[Len(epc) + 1] = "prev"
  BY DEF TypeOK
<1>6. taken + Len(queue) <= Len(epc) /\ taken + Len(queue) \in Nat
  BY ChainTypes DEF ChainInv
<1>7. ASSUME NEW k \in 1..Len(epc'), k > 1, Sent(k)' \/ epc'[k] \in {"ready", "send"}
      PROVE  epc'[k - 1] = "done"
  <2>1. k \in 1..Len(epc) /\ k - 1 \in 1..Len(epc)
    BY <1>3, <1>5, <1>7, ChainTypes DEF Sent
  <2> QED
    BY <1>4, <1>7, <2>1 DEF ChainInv, Sent
<1>8. ASSUME NEW k \in 1..Len(epc')
      PROVE  Sent(k)' <=> k <= taken + Len(queue)
  <2>1. CASE k \in 1..Len(epc)
    BY <1>2, <1>4, <2>1 DEF ChainInv, Sent
  <2>2. CASE k = Len(epc) + 1
    BY <1>5, <1>6, <2>2, ChainTypes DEF Sent
  <2> QED
    BY <1>3, <2>1, <2>2, ChainTypes
<1> QED
  BY <1>1, <1>2, <1>3, <1>6, <1>7, <1>8, ChainTypes DEF ChainInv

\* Goroutine k goes on without handing its batch over.
LEMMA ChainWait ==
    ASSUME TypeOK, ChainInv, DeliveryOrder, NEW k \in 1..Len(epc),
           NEW s \in {"ready", "send", "dead"},
           epc[k] \in {"prev", "ready", "send"},
           (s # "dead" /\ k > 1) => epc[k - 1] = "done",
           epc' = [epc EXCEPT ![k] = s],
           UNCHANGED <<enq, queue, taken, ppc, cpc, cur>>
    PROVE  ChainInv' /\ DeliveryOrder'
<1>1. DeliveryOrder'
  BY DEF DeliveryOrder
<1>2. Len(epc') = Len(epc) /\ epc'[k] = s
      /\ \A i \in 1..Len(epc) : i # k => epc'[i] = epc[i]
  BY DEF TypeOK
<1>3. cpc # "closed" /\ cpc' # "closed"
  BY DEF ChainInv
<1>4. ~Sent(k) /\ ~Sent(k)'
  BY <1>2 DEF Sent
<1>5. \A i \in 1..Len(epc) : Sent(i)' <=> Sent(i)
  BY <1>2, <1>4 DEF Sent
<1>6. ASSUME NEW i \in 1..Len(epc), i > 1, Sent(i)' \/ epc'[i] \in {"ready", "send"}
      PROVE  epc'[i - 1] = "done"
  <2>1. i - 1 \in 1..Len(epc) /\ i - 1 # i
    BY <1>6, ChainTypes
  <2>2. epc[i - 1] = "done"
    BY <1>2, <1>6, <1>5, <2>1 DEF ChainInv
  <2> QED
    BY <1>2, <2>1, <2>2
<1> QED
  BY <1>1, <1>2, <1>3, <1>5, <1>6 DEF ChainInv

\* Goroutine k hands its batch over: all before it have, and none after it, so
\* k is the next number due.
LEMMA ChainHandOver ==
    ASSUME TypeOK, ChainInv, DeliveryOrder, NEW k \in 1..Len(epc), HandOver(k)
    PROVE  ChainInv' /\ DeliveryOrder'
<1> DEFINE m == taken + Len(queue)
<1>0. m \in Nat /\ k \in Nat /\ Len(epc) \in Nat /\ m <= Len(epc)
  BY ChainTypes DEF ChainInv
<1>1. cpc # "closed" /\ ~Sent(k) /\ epc[k] = "send"
  BY DEF HandOver, ChainInv, Sent
<1>2. \A i \in 1..Len(epc) : Sent(i) <=> i <= m
  BY <1>1 DEF ChainInv
<1>3. k > 1 => epc[k - 1] = "done"
  BY <1>1 DEF ChainInv
<1>4. k = m + 1
  <2>1. k > m
    BY <1>0, <1>1, <1>2
  <2>2. k > 1 => k - 1 <= m
    <3>1. SUFFICES ASSUME k > 1 PROVE k - 1 <= m
      OBVIOUS
    <3>2. k - 1 \in 1..Len(epc) /\ Sent(k - 1)
      BY <1>0, <1>3, <3>1 DEF Sent
    <3> QED
      BY <1>2, <3>2
  <2> QED
    BY <1>0, <2>1, <2>2
<1>5. queue' = Append(queue, k) /\ UNCHANGED <<enq, taken, ppc, cpc, cur>>
  BY DEF HandOver, prodVars, consVars
<1>6. Len(queue') = Len(queue) + 1 /\ taken' + Len(queue') = m + 1
  BY <1>5, ChainTypes
<1>7. Len(epc') = Len(epc) /\ epc'[k] = "sent"
      /\ \A i \in 1..Len(epc) : i # k => epc'[i] = epc[i]
  BY DEF HandOver, TypeOK
<1>8. \A i \in 1..Len(epc) : Sent(i)' <=> i <= m + 1
  <2>1. Sent(k)'
    BY <1>7 DEF Sent
  <2>2. \A i \in 1..Len(epc) : i # k => (Sent(i)' <=> Sent(i))
    BY <1>7 DEF Sent
  <2> QED
    BY <1>0, <1>2, <1>4, <2>1, <2>2
<1>9. ASSUME NEW i \in 1..Len(epc), i > 1, Sent(i)' \/ epc'[i] \in {"ready", "send"}
      PROVE  epc'[i - 1] = "done"
  <2>1. i - 1 \in 1..Len(epc)
    BY <1>9, ChainTypes
  <2>2. i = k \/ Sent(i) \/ epc[i] \in {"ready", "send"}
    BY <1>7, <1>9 DEF Sent
  <2>3. epc[i - 1] = "done"
    BY <1>1, <1>9, <2>2 DEF ChainInv
  <2> QED
    BY <1>1, <1>7, <2>1, <2>3
<1>10. DeliveryOrder'
  <2>1. ASSUME NEW i \in 1..Len(queue') PROVE queue'[i] = taken + i
    <3>1. CASE i \in 1..Len(queue)
      BY <1>5, <3>1, ChainTypes DEF DeliveryOrder
    <3>2. CASE i = Len(queue) + 1
      BY <1>4, <1>5, <3>2, ChainTypes
    <3> QED
      BY <1>6, <3>1, <3>2, ChainTypes
  <2> QED
    BY <1>5, <2>1 DEF DeliveryOrder
<1>11. m + 1 <= Len(epc)
  BY <1>0, <1>4
<1> QED
  BY <1>1, <1>5, <1>6, <1>7, <1>8, <1>9, <1>10, <1>11 DEF ChainInv

\* Goroutine k closes the channel the next one waits for.
LEMMA ChainRelease ==
    ASSUME TypeOK, ChainInv, DeliveryOrder, NEW k \in 1..Len(epc), ReleaseNext(k)
    PROVE  ChainInv' /\ DeliveryOrder'
<1>1. UNCHANGED <<enq, queue, taken, ppc, cpc, cur>> /\ epc[k] = "sent"
  BY DEF ReleaseNext, prodVars, consVars
<1>2. Len(epc') = Len(epc) /\ epc'[k] = "done"
      /\ \A i \in 1..Len(epc) : i # k => epc'[i] = epc[i]
  BY DEF ReleaseNext, TypeOK
<1>3. \A i \in 1..Len(epc) : Sent(i)' <=> Sent(i)
  BY <1>1, <1>2 DEF Sent
<1>4. ASSUME NEW i \in 1..Len(epc), i > 1, Sent(i)' \/ epc'[i] \in {"ready", "send"}
      PROVE  epc'[i - 1] = "done"
  <2>1. i - 1 \in 1..Len(epc)
    BY <1>4, ChainTypes
  <2>2. epc[i - 1] = "done"
    BY <1>2, <1>3, <1>4, <1>1 DEF ChainInv, Sent
  <2> QED
    BY <1>2, <2>1, <2>2
<1>5. cpc # "closed"
  BY <1>1 DEF ChainInv
<1> QED
  BY <1>1, <1>2, <1>3, <1>4, <1>5 DEF ChainInv, DeliveryOrder

\* The consumer receives: what waits moves up by one place.
LEMMA ChainReceive ==
    ASSUME TypeOK, ChainInv, DeliveryOrder, ReceiveBatch
    PROVE  ChainInv' /\ DeliveryOrder'
<1>1. UNCHANGED <<enq, epc, ppc>> /\ cpc # "closed" /\ cpc' # "closed"
  BY DEF ReceiveBatch, enqVars, prodVars
<1>2. queue \in Seq(Nat) /\ queue # <<>> /\ queue' = Tail(queue)
      /\ taken' = taken + 1 /\ cur' = Head(queue)
  BY ChainTypes DEF ReceiveBatch
<1>3. Len(queue') = Len(queue) - 1 /\ Len(queue) \in Nat \ {0}
      /\ \A i \in 1..Len(queue') : queue'[i] = queue[i + 1]
  BY <1>2
<1>4. taken' + Len(queue') = taken + Len(queue)
  BY <1>2, <1>3, ChainTypes
<1>5. cur' = taken'
  BY <1>2, <1>3, ChainTypes DEF DeliveryOrder
<1>6. ASSUME NEW i \in 1..Len(queue') PROVE queue'[i] = taken' + i
  <2>1. i + 1 \in 1..Len(queue)
    BY <1>3, <1>6
  <2>2. queue[i + 1] = taken + (i + 1)
    BY <2>1 DEF DeliveryOrder
  <2> QED
    BY <1>2, <1>3, <2>2, ChainTypes
<1>7. DeliveryOrder'
  BY <1>5, <1>6 DEF DeliveryOrder
<1>8. \A i : Sent(i)' <=> Sent(i)
  BY <1>1 DEF Sent
<1> QED
  BY <1>1, <1>4, <1>7, <1>8 DEF ChainInv

\* The consumer closes: every goroutine has ended.
LEMMA ChainClose ==
    ASSUME TypeOK, ChainInv, DeliveryOrder, FinishClose
    PROVE  ChainInv' /\ DeliveryOrder'
<1>1. UNCHANGED <<enq, epc, ppc, taken, cur>> /\ queue' = <<>> /\ cpc' = "closed"
      /\ ppc = "done" /\ \A k \in 1..Len(epc) : epc[k] \in {"done", "dead"}
  BY DEF FinishClose, enqVars, prodVars
<1>2. Len(queue') = 0 /\ taken \in Nat /\ taken <= Len(epc)
  BY <1>1, ChainTypes DEF ChainInv
<1>3. DeliveryOrder'
  BY <1>1, <1>2 DEF DeliveryOrder
<1> QED
  BY <1>1, <1>2, <1>3 DEF ChainInv, Sent

LEMMA ChainStep == IInv /\ [Next]_vars => ChainInv' /\ DeliveryOrder'
<1> SUFFICES ASSUME TypeOK, ChainInv, DeliveryOrder, [Next]_vars
             PROVE  ChainInv' /\ DeliveryOrder'
  BY DEF IInv
<1>1. ASSUME Producer PROVE ChainInv' /\ DeliveryOrder'
  <2>1. CASE SpawnEnqueuer
    BY <2>1, ChainAppend DEF SpawnEnqueuer, TypeOK, consVars
  <2>2. CASE EnqueueEOF
    BY <2>2, ChainAppend DEF EnqueueEOF, consVars
  <2>3. CASE ~SpawnEnqueuer /\ ~EnqueueEOF
    <3>1. UNCHANGED <<enqVars, queue, consVars>> /\ ppc # "done"
      BY <1>1, <2>3 DEF Producer, AcquireSlot, TakePooled, RemakeReady,
         AllocateBatch, ReadPage, CountTask, PutTask, FinishBatch, ProducerExit
    <3> QED
      BY <3>1, ChainUnchanged DEF consVars
  <2> QED
    BY <2>1, <2>2, <2>3
<1>2. ASSUME NEW k \in 1..Len(epc), Enqueuer(k) PROVE ChainInv' /\ DeliveryOrder'
  <2>1. CASE AwaitPrev(k)
    BY <2>1, ChainWait DEF AwaitPrev, PrevHandedOver, prodVars, consVars
  <2>2. CASE AwaitReady(k)
    <3>1. k > 1 => epc[k - 1] = "done"
      BY <2>2 DEF AwaitReady, ChainInv
    <3> QED
      BY <2>2, <3>1, ChainWait DEF AwaitReady, prodVars, consVars
  <2>3. CASE HandOver(k)
    BY <2>3, ChainHandOver
  <2>4. CASE ReleaseNext(k)
    BY <2>4, ChainRelease
  <2>5. CASE GiveUp(k)
    BY <2>5, ChainWait DEF GiveUp, Cancellable, prodVars, consVars
  <2> QED
    BY <1>2, <2>1, <2>2, <2>3, <2>4, <2>5 DEF Enqueuer
<1>3. ASSUME NEW w \in Workers, Worker(w) PROVE ChainInv' /\ DeliveryOrder'
  <2>1. UNCHANGED <<enqVars, queue, consVars, prodVars>>
    BY <1>3 DEF Worker, ReceiveTask, WorkerExit, ProcessTask, CountDone,
                LoadSending, LoadRemaining, SignalReady
  <2> QED
    BY <2>1, ChainUnchanged DEF consVars, prodVars
<1>4. ASSUME Consumer PROVE ChainInv' /\ DeliveryOrder'
  <2>1. CASE ReceiveBatch
    BY <2>1, ChainReceive
  <2>2. CASE FinishClose
    BY <2>2, ChainClose
  <2>3. CASE ~ReceiveBatch /\ ~FinishClose
    <3>1. /\ UNCHANGED <<enqVars, queue, taken, prodVars>> /\ cur' \in {cur, 0}
          /\ cpc # "closed" /\ cpc' # "closed"
      BY <1>4, <2>3 DEF Consumer, NextRow, CallNext, ReleaseBatch, ReleaseSlot,
                        ScanRow, CallClose
    <3> QED
      BY <3>1, ChainUnchanged DEF prodVars
  <2> QED
    BY <2>1, <2>2, <2>3
<1>5. CASE UNCHANGED vars
  BY <1>5, ChainUnchanged DEF vars, consVars, prodVars
<1> QED
  BY <1>1, <1>2, <1>3, <1>4, <1>5 DEF Next
------------------------------------------------------------------------------
(* The theorems *)

LEMMA InitInv == Init => IInv
<1> SUFFICES ASSUME Init PROVE IInv
  OBVIOUS
<1> USE FastScanAssumption
<1>1. (CHOOSE b \in Batches : TRUE) \in Batches
  OBVIOUS
<1>2. [b \in Batches |-> NewBatch(0)] \in [Batches -> BatchFields]
  BY NewBatchType
<1>3. TypeOK
  <2>1. obj \in [Batches -> BatchFields] /\ pb \in Batches
    BY <1>1, <1>2 DEF Init
  <2>2. slots \in 0..InFlight
    BY DEF Init, InitialTokens
  <2>3. /\ wpc \in [Workers -> {"recv", "work", "count", "sending", "remaining",
                                "mark", "exit"}]
        /\ wtask \in [Workers -> Task \cup {NoTask}]
    BY DEF Init
  <2>4. /\ pool \in Seq(Batches) /\ tasks \in Seq(Task) /\ queue \in Seq(Nat)
        /\ enq \in Seq(Batches \cup {EOF})
        /\ epc \in Seq({"prev", "ready", "send", "sent", "done", "dead"})
    BY DEF Init
  <2> QED
    BY <2>1, <2>2, <2>3, <2>4 DEF Init, TypeOK
<1>4. table \in Seq(Seq(BOOLEAN)) /\ pgNo = 0
  BY DEF Init
<1>5. ProducerInv
  BY <1>4 DEF Init, ProducerInv
<1>6. WorkerInv
  BY DEF Init, WorkerInv
<1>7. ChainInv /\ DeliveryOrder /\ ConsumerInv
  BY DEF Init, ChainInv, DeliveryOrder, ConsumerInv
<1> QED
  BY <1>3, <1>5, <1>6, <1>7 DEF IInv

LEMMA Inductive == IInv /\ [Next]_vars => IInv'
  BY TypeStep, ProducerStep, WorkerStep, ChainStep, ConsumerStep DEF IInv

\* The invariant all of the following rests on.
THEOREM Invariance == Spec => []IInv
  BY InitInv, Inductive, PTL DEF Spec

\* Every variable keeps its type: in particular slots never exceeds the capacity
\* of the slots channel, and no worker touches a batch that does not exist.
THEOREM TypeCorrect == Spec => []TypeOK
<1>1. IInv => TypeOK
  BY DEF IInv
<1> QED
  BY Invariance, <1>1, PTL

\* For any number of workers and batches and any table, the batches reach the
\* consumer in the order in which the producer finished them (DeliveryOrder).
THEOREM InOrderDelivery == Spec => []DeliveryOrder
<1>1. IInv => DeliveryOrder
  BY DEF IInv
<1> QED
  BY Invariance, <1>1, PTL

------------------------------------------------------------------------------

\* What the producer puts into a batch fits, and the consumer that waits for a
\* batch has none.
FillInv ==
    /\ fill <= BatchRows
    /\ ppc \in {"send", "put"} => fill + TaskSize(pgNo, rowNo) <= BatchRows
    /\ cpc = "recv" => cur = 0

------------------------------------------------------------------------------
(* Room in a batch *)

LEMMA FillStep == IInv /\ FillInv /\ [Next]_vars => FillInv'
<1> SUFFICES ASSUME IInv, FillInv, [Next]_vars PROVE FillInv'
  OBVIOUS
<1>0. TypeOK /\ ProducerInv /\ ConsumerInv /\ fill \in Nat
      /\ rowNo \in Nat /\ pgNo \in Nat /\ table \in Seq(Seq(BOOLEAN))
      /\ BatchRows \in Nat /\ TaskRows \in Nat /\ TaskRows <= BatchRows
  BY FastScanAssumption DEF IInv, TypeOK
<1>1. ASSUME UNCHANGED <<table, ppc, pgNo, rowNo, fill>>, cpc' = "recv" => cur' = 0
      PROVE  FillInv'
  BY <1>1 DEF FillInv, TaskSize, SmallerOf
<1>2. ASSUME UNCHANGED consVars, fill' <= BatchRows,
             ppc' \in {"send", "put"} => fill' + TaskSize(pgNo, rowNo)' <= BatchRows
      PROVE  FillInv'
  BY <1>2 DEF FillInv, consVars
<1>3. ASSUME UNCHANGED <<consVars, fill>>, ppc' \notin {"send", "put"} PROVE FillInv'
  BY <1>2, <1>3 DEF FillInv
<1>4. ASSUME AcquireSlot \/ TakePooled \/ FinishBatch \/ SpawnEnqueuer
             \/ EnqueueEOF \/ ProducerExit
      PROVE  FillInv'
  BY <1>3, <1>4 DEF AcquireSlot, TakePooled, FinishBatch, SpawnEnqueuer,
                    EnqueueEOF, ProducerExit
<1>5. ASSUME ppc \in {"take", "remake"}, StartFilling, UNCHANGED <<table, pgNo, rowNo, consVars>>
      PROVE  FillInv'
  <2>1. fill' = 0 /\ (ppc' = "send" => pgNo > 0) /\ ppc' # "put"
    BY <1>0, <1>5 DEF StartFilling
  <2>2. pgNo > 0 => TaskSize(pgNo, rowNo)' \in Nat /\ TaskSize(pgNo, rowNo)' <= TaskRows
    BY <1>0, <1>5 DEF ProducerInv, TaskSize, SmallerOf
  <2> QED
    BY <1>0, <1>2, <1>5, <2>1, <2>2
<1>6. ASSUME RemakeReady \/ AllocateBatch PROVE FillInv'
  BY <1>5, <1>6 DEF RemakeReady, AllocateBatch, query, consVars
<1>7. ASSUME ReadPage PROVE FillInv'
  <2>1. UNCHANGED <<consVars, fill, table>> /\ fill' <= BatchRows
    BY <1>7 DEF ReadPage, query, FillInv
  <2>2. CASE pgNo < Len(table)
    <3>1. ppc' = Dispatch(pgNo', rowNo', fill')
      BY <1>7, <2>1, <2>2 DEF ReadPage
    <3>2. pgNo' \in 1..Len(table) /\ rowNo' = 0
      BY <1>0, <1>7, <2>2 DEF ReadPage
    <3>3. Len(table[pgNo']) \in Nat
      BY <1>0, <3>2
    <3>4. ppc' \in {"send", "put"} => fill' + TaskSize(pgNo, rowNo)' <= BatchRows
      BY <1>0, <2>1, <3>1, <3>2, <3>3 DEF Dispatch, TaskSize, SmallerOf
    <3> QED
      BY <1>2, <2>1, <3>4
  <2>3. CASE ~(pgNo < Len(table))
    BY <1>3, <1>7, <2>1, <2>3 DEF ReadPage, AfterLastPage
  <2> QED
    BY <2>2, <2>3
<1>8. ASSUME CountTask PROVE FillInv'
  BY <1>2, <1>8 DEF CountTask, FillInv, query, TaskSize, SmallerOf
<1>9. ASSUME PutTask PROVE FillInv'
  <2>0. UNCHANGED <<consVars, table, pgNo>> /\ ppc = "put"
    BY <1>9 DEF PutTask, query
  <2>1. TaskSize(pgNo, rowNo) \in Nat /\ pgNo \in 1..Len(table)
    BY <1>0, <2>0, TaskSizeType DEF ProducerInv
  <2>2. Len(table[pgNo]) \in Nat
    BY <1>0, <2>1
  <2>3. CASE cancelled /\ ppc' = "exit" /\ UNCHANGED <<tasks, fill, rowNo>>
    BY <1>3, <2>0, <2>3
  <2>4. CASE /\ fill' = fill + TaskSize(pgNo, rowNo)
             /\ rowNo' = rowNo + TaskSize(pgNo, rowNo)
             /\ ppc' = Dispatch(pgNo, rowNo + TaskSize(pgNo, rowNo),
                                fill + TaskSize(pgNo, rowNo))
    <3>1. fill' <= BatchRows
      BY <2>0, <2>4 DEF FillInv
    <3>2. fill' \in Nat /\ rowNo' \in Nat /\ ppc' = Dispatch(pgNo', rowNo', fill')
      BY <1>0, <2>0, <2>1, <2>4
    <3>3. TaskSize(pgNo, rowNo)' = TaskSize(pgNo', rowNo') /\ TaskSize(pgNo', rowNo') \in Int
      BY <1>0, <2>0, <2>1, <2>2, <3>2 DEF TaskSize, SmallerOf
    <3>4. ppc' \in {"send", "put"} => fill' + TaskSize(pgNo', rowNo') <= BatchRows
      BY <1>0, <3>2, <3>3 DEF Dispatch
    <3> QED
      BY <1>2, <2>0, <3>1, <3>3, <3>4
  <2> QED
    BY <1>9, <2>3, <2>4 DEF PutTask
<1>10. ASSUME NEW k \in 1..Len(epc), Enqueuer(k) PROVE FillInv'
  BY <1>1, <1>10 DEF Enqueuer, AwaitPrev, AwaitReady, HandOver, ReleaseNext,
                     GiveUp, query, prodVars, consVars, FillInv
<1>11. ASSUME NEW w \in Workers, Worker(w) PROVE FillInv'
  BY <1>1, <1>11 DEF Worker, ReceiveTask, WorkerExit, ProcessTask, CountDone,
     LoadSending, LoadRemaining, SignalReady, query, prodVars, consVars, FillInv
<1>12. ASSUME Consumer PROVE FillInv'
  BY <1>1, <1>12 DEF Consumer, NextRow, CallNext, ReleaseBatch, ReleaseSlot,
     ReceiveBatch, ScanRow, CallClose, FinishClose, query, prodVars, FillInv
<1>13. CASE UNCHANGED vars
  BY <1>1, <1>13 DEF vars, query, prodVars, consVars, FillInv
<1> QED
  BY <1>4, <1>6, <1>7, <1>8, <1>9, <1>10, <1>11, <1>12, <1>13 DEF Next, Producer
------------------------------------------------------------------------------
(* Which batches are pending *)

LEMMA PendingFinite ==
    IInv => /\ Pending \subseteq 1..Len(enq) /\ IsFiniteSet(Pending)
            /\ Cardinality(Pending) \in Nat
            /\ \A k \in Pending : enq[k] \in Batches
<1> SUFFICES ASSUME IInv PROVE /\ Pending \subseteq 1..Len(enq) /\ IsFiniteSet(Pending)
                               /\ Cardinality(Pending) \in Nat
                               /\ \A k \in Pending : enq[k] \in Batches
  OBVIOUS
<1>1. Pending \subseteq 1..Len(enq) /\ \A k \in Pending : enq[k] # EOF
  BY DEF Pending
<1>2. enq \in Seq(Batches \cup {EOF}) /\ Len(enq) \in Nat
  BY DEF IInv, TypeOK
<1>3. IsFiniteSet(1..Len(enq))
  BY <1>2, FS_Interval
<1>4. IsFiniteSet(Pending) /\ Cardinality(Pending) \in Nat
  BY <1>1, <1>3, FS_Subset, FS_CardinalityType
<1>5. \A k \in Pending : enq[k] \in Batches
  BY <1>1, <1>2
<1> QED
  BY <1>1, <1>4, <1>5

\* The step of SpawnEnqueuer makes one batch pending, the one of ReleaseBatch takes
\* one out, and no other step changes which batches are.
LEMMA PendingStep ==
    ASSUME IInv, FillInv, [Next]_vars
    PROVE  /\ SpawnEnqueuer =>
                 /\ Pending' = Pending \cup {Len(enq) + 1} /\ Len(enq) + 1 \notin Pending
                 /\ enq'[Len(enq) + 1] = pb
           /\ ReleaseBatch => Pending' = Pending \ {cur} /\ cur \in Pending
           /\ (~SpawnEnqueuer /\ ~ReleaseBatch) => Pending' = Pending
           /\ \A k \in Pending : enq'[k] = enq[k]
<1>0. /\ enq \in Seq(Batches \cup {EOF}) /\ Len(enq) \in Nat /\ taken \in Nat
      /\ taken <= Len(enq) /\ cur \in {0, taken} /\ pb \in Batches /\ EOF \notin Batches
      /\ Len(queue) \in Nat
  BY FastScanAssumption DEF IInv, TypeOK, ChainInv, DeliveryOrder
<1>1. ASSUME UNCHANGED <<enq, taken, cur>>, (cpc = "free") = (cpc' = "free")
      PROVE  Pending' = Pending /\ \A k \in Pending : enq'[k] = enq[k]
  BY <1>1 DEF Pending
<1>2. ASSUME NEW b \in Batches \cup {EOF}, enq' = Append(enq, b),
             UNCHANGED <<taken, cur, cpc>>
      PROVE  /\ b = EOF => Pending' = Pending
             /\ b # EOF => Pending' = Pending \cup {Len(enq) + 1}
             /\ Len(enq) + 1 \notin Pending /\ enq'[Len(enq) + 1] = b
             /\ \A k \in Pending : enq'[k] = enq[k]
  <2>1. /\ Len(enq') = Len(enq) + 1 /\ enq'[Len(enq) + 1] = b
        /\ \A k \in 1..Len(enq) : enq'[k] = enq[k]
    BY <1>0, <1>2
  <2>2. \A k : k \in 1..Len(enq') <=> k \in 1..Len(enq) \/ k = Len(enq) + 1
    BY <1>0, <2>1
  <2>3. Len(enq) + 1 > taken /\ Len(enq) + 1 \notin 1..Len(enq)
    BY <1>0
  <2> QED
    BY <1>2, <2>1, <2>2, <2>3 DEF Pending
<1> DEFINE P == /\ SpawnEnqueuer =>
                     /\ Pending' = Pending \cup {Len(enq) + 1} /\ Len(enq) + 1 \notin Pending
                     /\ enq'[Len(enq) + 1] = pb
                /\ ReleaseBatch => Pending' = Pending \ {cur} /\ cur \in Pending
                /\ (~SpawnEnqueuer /\ ~ReleaseBatch) => Pending' = Pending
                /\ \A k \in Pending : enq'[k] = enq[k]
<1>3. CASE SpawnEnqueuer
  <2>1. enq' = Append(enq, pb) /\ UNCHANGED <<taken, cur, cpc>>
    BY <1>3 DEF SpawnEnqueuer, consVars
  <2>2. ~ReleaseBatch
    BY <1>3 DEF SpawnEnqueuer, ReleaseBatch, prodVars
  <2> QED
    BY <1>0, <1>2, <1>3, <2>1, <2>2
<1>4. CASE ReleaseBatch
  <2>1. /\ cpc = "recycle" /\ cpc' = "free" /\ UNCHANGED <<enq, taken, cur, ppc>>
    BY <1>4 DEF ReleaseBatch, enqVars, prodVars
  <2>2. cur # 0 /\ enq[cur] # EOF
    BY <2>1 DEF IInv, ConsumerInv
  <2>3. ~SpawnEnqueuer
    BY <2>1 DEF SpawnEnqueuer, TypeOK, consVars
  <2>4. cur \in Pending
    BY <1>0, <2>1, <2>2 DEF Pending
  <2>5. Pending' = Pending \ {cur}
    <3>1. ASSUME NEW k \in 1..Len(enq), k # cur, k > taken \/ (k = cur /\ cpc # "free")
          PROVE  k > taken
      BY <3>1
    <3>2. ~(cur > taken)
      BY <1>0
    <3> QED
      BY <2>1, <3>1, <3>2 DEF Pending
  <2> QED
    BY <1>4, <2>1, <2>3, <2>4, <2>5
<1>5. CASE ReceiveBatch
  <2>1. /\ cpc = "recv" /\ cpc' # "free" /\ taken' = taken + 1 /\ enq' = enq
        /\ ~SpawnEnqueuer /\ ~ReleaseBatch
    BY <1>5 DEF ReceiveBatch, ReleaseBatch, SpawnEnqueuer, enqVars, consVars
  <2>2. cur = 0 /\ cur' = taken + 1
    BY <1>5, <2>1, <1>0 DEF FillInv, ReceiveBatch, IInv, DeliveryOrder
  <2>3. \A k \in 1..Len(enq) :
           (k > taken' \/ (k = cur' /\ cpc' # "free")) <=> (k > taken \/ (k = cur /\ cpc # "free"))
    BY <1>0, <2>1, <2>2
  <2> QED
    BY <2>1, <2>3 DEF Pending
<1>6. CASE ReleaseSlot
  <2>1. /\ cpc = "free" /\ cpc' = "recv" /\ cur' = 0 /\ UNCHANGED <<enq, taken>>
        /\ ~SpawnEnqueuer /\ ~ReleaseBatch
    BY <1>6 DEF ReleaseSlot, ReleaseBatch, SpawnEnqueuer, enqVars, consVars
  <2>2. \A k \in 1..Len(enq) :
           (k > taken' \/ (k = cur' /\ cpc' # "free")) <=> (k > taken \/ (k = cur /\ cpc # "free"))
    BY <1>0, <2>1
  <2> QED
    BY <2>1, <2>2 DEF Pending
<1>7. CASE EnqueueEOF
  <2>1. enq' = Append(enq, EOF) /\ UNCHANGED <<taken, cur, cpc>>
        /\ ~SpawnEnqueuer /\ ~ReleaseBatch
    BY <1>7 DEF EnqueueEOF, SpawnEnqueuer, ReleaseBatch, consVars
  <2> QED
    BY <1>2, <2>1
<1>8. CASE /\ ~SpawnEnqueuer /\ ~ReleaseBatch /\ ~ReceiveBatch /\ ~ReleaseSlot
           /\ ~EnqueueEOF
  <2>1. ASSUME Producer PROVE UNCHANGED <<enq, taken, cur, cpc>>
    BY <1>8, <2>1 DEF Producer, AcquireSlot, TakePooled, RemakeReady, AllocateBatch,
       ReadPage, CountTask, PutTask, FinishBatch, ProducerExit, enqVars, consVars
  <2>2. ASSUME NEW k \in 1..Len(epc), Enqueuer(k) PROVE UNCHANGED <<enq, taken, cur, cpc>>
    BY <2>2 DEF Enqueuer, AwaitPrev, AwaitReady, HandOver, ReleaseNext, GiveUp, consVars
  <2>3. ASSUME NEW w \in Workers, Worker(w) PROVE UNCHANGED <<enq, taken, cur, cpc>>
    BY <2>3 DEF Worker, ReceiveTask, WorkerExit, ProcessTask, CountDone,
       LoadSending, LoadRemaining, SignalReady, enqVars, consVars
  <2>4. ASSUME Consumer PROVE UNCHANGED <<enq, taken, cur>> /\ cpc # "free" /\ cpc' # "free"
    BY <1>8, <2>4 DEF Consumer, NextRow, CallNext, ScanRow, CallClose, FinishClose, enqVars
  <2>5. CASE UNCHANGED vars
    BY <1>1, <1>8, <2>5 DEF vars, enqVars, consVars
  <2> QED
    BY <1>1, <1>8, <2>1, <2>2, <2>3, <2>4, <2>5 DEF Next
<1> HIDE DEF P
<1>9. P
  BY <1>3, <1>4, <1>5, <1>6, <1>7, <1>8 DEF P
<1> QED
  BY <1>9 DEF P
------------------------------------------------------------------------------
(* Owners *)

\* Pending batches differ from each other, from those in the pool, which differ as
\* well, and from the one being filled; all of them have been allocated.
OwnerInv ==
    /\ \A k, j \in Pending : enq[k] = enq[j] => k = j
    /\ \A i, j \in 1..Len(pool) : pool[i] = pool[j] => i = j
    /\ \A k \in Pending : enq[k] \in live /\ \A i \in 1..Len(pool) : pool[i] # enq[k]
    /\ \A i \in 1..Len(pool) : pool[i] \in live
    /\ Filling => /\ pb \in live
                  /\ \A i \in 1..Len(pool) : pool[i] # pb
                  /\ \A k \in Pending : enq[k] # pb

LEMMA OwnerKept ==
    ASSUME OwnerInv, UNCHANGED <<pool, pb, live>>, Pending' = Pending,
           \A k \in Pending : enq'[k] = enq[k], Filling' => Filling
    PROVE  OwnerInv'
  BY DEF OwnerInv

LEMMA OwnerStep == IInv /\ FillInv /\ OwnerInv /\ [Next]_vars => OwnerInv'
<1> SUFFICES ASSUME IInv, FillInv, OwnerInv, [Next]_vars PROVE OwnerInv'
  OBVIOUS
<1>0. /\ pool \in Seq(Batches) /\ live \subseteq Batches /\ pb \in Batches
      /\ \A k \in Pending : enq'[k] = enq[k]
  BY PendingStep DEF IInv, TypeOK
<1>1. CASE TakePooled
  <2>1. /\ pool # <<>> /\ pb' = pool[1] /\ pool' = Tail(pool) /\ live' = live
        /\ Pending' = Pending
    BY <1>1, PendingStep DEF TakePooled, SpawnEnqueuer, ReleaseBatch, consVars, enqVars, prodVars
  <2>2. /\ Len(pool') = Len(pool) - 1 /\ Len(pool) \in Nat \ {0}
        /\ \A i \in 1..Len(pool') : pool'[i] = pool[i + 1] /\ i + 1 \in 1..Len(pool)
    BY <1>0, <2>1
  <2>3. 1 \in 1..Len(pool)
    BY <2>2
  <2>4. \A i, j \in 1..Len(pool') : pool'[i] = pool'[j] => i = j
    BY <2>2 DEF OwnerInv
  <2>5. \A i \in 1..Len(pool') : pool'[i] # pb' /\ pool'[i] \in live
    BY <2>1, <2>2, <2>3 DEF OwnerInv
  <2>6. pb' \in live /\ \A k \in Pending : enq[k] # pb'
    BY <2>1, <2>3 DEF OwnerInv
  <2>7. \A k \in Pending : \A i \in 1..Len(pool') : pool'[i] # enq[k]
    BY <2>2 DEF OwnerInv
  <2> QED
    BY <1>0, <2>1, <2>4, <2>5, <2>6, <2>7 DEF OwnerInv
<1>2. CASE AllocateBatch
  <2>1. /\ pool = <<>> /\ pool' = pool /\ pb' = Unused /\ live' = live \cup {Unused}
        /\ Pending' = Pending /\ Unused \notin live
    BY <1>0, <1>2, PendingStep DEF AllocateBatch, SpawnEnqueuer, ReleaseBatch, consVars,
       enqVars, prodVars, Unused
  <2> QED
    BY <1>0, <2>1 DEF OwnerInv
<1>3. CASE SpawnEnqueuer
  <2>1. /\ UNCHANGED <<pool, pb, live>> /\ Pending' = Pending \cup {Len(enq) + 1}
        /\ enq'[Len(enq) + 1] = pb /\ ~Filling' /\ Filling
    BY <1>3, PendingStep DEF SpawnEnqueuer, Filling
  <2> QED
    BY <1>0, <2>1 DEF OwnerInv
<1>4. CASE ReleaseBatch
  <2>1. /\ UNCHANGED <<pb, live, enq>> /\ Pending' = Pending \ {cur} /\ cur \in Pending
        /\ pool' = Append(pool, enq[cur]) /\ (Filling' <=> Filling)
    BY <1>4, PendingStep DEF ReleaseBatch, Filling, enqVars, prodVars
  <2>2. enq[cur] \in Batches /\ Len(pool) \in Nat
    BY <1>0, <2>1 DEF OwnerInv
  <2>3. /\ Len(pool') = Len(pool) + 1 /\ pool'[Len(pool) + 1] = enq[cur]
        /\ \A i \in 1..Len(pool) : pool'[i] = pool[i]
    BY <1>0, <2>1, <2>2
  <2>4. \A i \in 1..Len(pool') : i \in 1..Len(pool) \/ i = Len(pool) + 1
    BY <2>2, <2>3
  <2>5. \A i \in 1..Len(pool) : pool'[i] # enq[cur]
    BY <2>1, <2>3 DEF OwnerInv
  <2>6. \A i, j \in 1..Len(pool') : pool'[i] = pool'[j] => i = j
    BY <2>3, <2>4, <2>5 DEF OwnerInv
  <2>7. \A k \in Pending' : \A i \in 1..Len(pool') : pool'[i] # enq[k]
    BY <2>1, <2>3, <2>4 DEF OwnerInv
  <2>8. \A i \in 1..Len(pool') : pool'[i] \in live
    BY <2>1, <2>3, <2>4 DEF OwnerInv
  <2>9. Filling => \A i \in 1..Len(pool') : pool'[i] # pb
    BY <2>1, <2>3, <2>4 DEF OwnerInv
  <2> QED
    BY <2>1, <2>6, <2>7, <2>8, <2>9 DEF OwnerInv
<1>5. CASE FinishClose
  <2>1. /\ UNCHANGED <<pb, live, enq>> /\ Pending' = Pending /\ pool' = <<>>
        /\ (Filling' <=> Filling)
    BY <1>5, PendingStep DEF FinishClose, ReleaseBatch, SpawnEnqueuer, Filling, enqVars,
       prodVars, consVars
  <2>2. 1..Len(pool') = {}
    BY <2>1
  <2> QED
    BY <2>1, <2>2 DEF OwnerInv
<1>6. CASE ~TakePooled /\ ~AllocateBatch /\ ~SpawnEnqueuer /\ ~ReleaseBatch /\ ~FinishClose
  <2>0. Pending' = Pending
    BY <1>6, PendingStep
  <2>1. ASSUME Producer PROVE UNCHANGED <<pool, pb, live>> /\ (Filling' => Filling)
    BY <1>6, <2>1 DEF Producer, AcquireSlot, RemakeReady, ReadPage, CountTask, PutTask,
       FinishBatch, EnqueueEOF, ProducerExit, Filling
  <2>2. ASSUME NEW k \in 1..Len(epc), Enqueuer(k) PROVE UNCHANGED <<pool, pb, live, ppc>>
    BY <2>2 DEF Enqueuer, AwaitPrev, AwaitReady, HandOver, ReleaseNext, GiveUp, prodVars
  <2>3. ASSUME NEW w \in Workers, Worker(w) PROVE UNCHANGED <<pool, pb, live, ppc>>
    BY <2>3 DEF Worker, ReceiveTask, WorkerExit, ProcessTask, CountDone,
       LoadSending, LoadRemaining, SignalReady, prodVars
  <2>4. ASSUME Consumer PROVE UNCHANGED <<pool, pb, live, ppc>>
    BY <1>6, <2>4 DEF Consumer, NextRow, CallNext, ReleaseSlot, ReceiveBatch, ScanRow,
       CallClose, prodVars
  <2>5. ASSUME UNCHANGED vars PROVE UNCHANGED <<pool, pb, live, ppc>>
    BY <2>5 DEF vars, prodVars
  <2>6. UNCHANGED <<pool, pb, live>> /\ (Filling' => Filling)
    BY <2>1, <2>2, <2>3, <2>4, <2>5 DEF Next, Filling
  <2> QED
    BY <1>0, <2>0, <2>6, OwnerKept
<1> QED
  BY <1>1, <1>2, <1>3, <1>4, <1>5, <1>6

\* Sequences without repetition have as many elements as places.
LEMMA ElementsOfInjective ==
    ASSUME NEW S, NEW s \in Seq(S), \A i, j \in 1..Len(s) : s[i] = s[j] => i = j
    PROVE  Cardinality(Elements(s)) = Len(s)
<1>1. s \in Bijection(1..Len(s), Elements(s))
  BY DEF Bijection, Injection, Surjection, IsInjective, Elements
<1>2. Len(s) \in Nat /\ IsFiniteSet(1..Len(s)) /\ Cardinality(1..Len(s)) = Len(s)
  BY FS_Interval
<1> QED
  BY <1>1, <1>2, FS_Bijection DEF ExistsBijection

LEMMA OwnersAreSole == TypeOK /\ OwnerInv => SoleOwner
<1> SUFFICES ASSUME TypeOK, OwnerInv PROVE SoleOwner
  OBVIOUS
<1>1. Cardinality(Elements(pool)) = Len(pool)
  BY ElementsOfInjective DEF TypeOK, OwnerInv
<1> QED
  BY <1>1 DEF SoleOwner, OwnerInv, Elements
------------------------------------------------------------------------------
(* Slots *)

\* The token of the producer, the batch it fills, the token that is on its way back.
Token     == IF ppc = "take" \/ Filling THEN 1 ELSE 0
Fills     == IF Filling THEN 1 ELSE 0
Returning == IF cpc = "free" THEN 1 ELSE 0

\* A token out of the channel and a batch that exists stand for each other.  The
\* producer that returns may keep one token, and lose the batch it was filling.
SlotsBalance(lost) ==
    /\ lost = 1 => ppc \in {"eof", "exit", "done"}
    /\ slots + Token + Cardinality(Pending) + Returning + lost = InFlight
    /\ Cardinality(live) = Len(pool) + Cardinality(Pending) + Fills + lost

SlotsInv ==
    /\ IsFiniteSet(live) /\ Cardinality(live) <= InFlight /\ Len(pool) <= InFlight
    /\ cpc # "closed" => \E lost \in {0, 1} : SlotsBalance(lost)

SlotsCounts ==
    /\ Cardinality(Pending) \in Nat /\ slots \in Nat /\ InFlight \in Nat /\ Len(pool) \in Nat
    /\ Token \in {0, 1} /\ Fills \in {0, 1} /\ Returning \in {0, 1}

LEMMA SlotsTypes == IInv => SlotsCounts
  BY PendingFinite, FastScanAssumption
  DEF IInv, TypeOK, Token, Fills, Returning, SlotsCounts

LEMMA SlotsTypesNext == IInv' => SlotsCounts'
  BY SlotsTypes, PTL

\* A batch more is allocated only by AllocateBatch.
LEMMA LiveStep ==
    ASSUME IInv, SlotsInv, [Next]_vars
    PROVE  /\ AllocateBatch => /\ live' = live \cup {Unused}
                               /\ Unused \notin live
                               /\ Cardinality(live') = Cardinality(live) + 1
           /\ ~AllocateBatch => live' = live
           /\ IsFiniteSet(live') /\ Cardinality(live') \in Nat
<1>1. CASE AllocateBatch
  <2>1. live' = live \cup {Unused} /\ Unused \notin live
    BY <1>1 DEF AllocateBatch, Unused, IInv, TypeOK
  <2> QED
    BY <1>1, <2>1, FS_AddElement, FS_CardinalityType DEF SlotsInv
<1>2. CASE ~AllocateBatch
  <2>1. live' = live
    BY <1>2 DEF Next, vars, Producer, AcquireSlot, TakePooled, RemakeReady, ReadPage,
       CountTask, PutTask, FinishBatch, SpawnEnqueuer, EnqueueEOF, ProducerExit, Enqueuer,
       AwaitPrev, AwaitReady, HandOver, ReleaseNext, GiveUp, Worker, ReceiveTask,
       WorkerExit, ProcessTask, CountDone, LoadSending, LoadRemaining, SignalReady,
       Consumer, NextRow, CallNext, ReleaseBatch, ReleaseSlot, ReceiveBatch, ScanRow,
       CallClose, FinishClose
  <2> QED
    BY <1>2, <2>1, FS_CardinalityType DEF SlotsInv
<1> QED
  BY <1>1, <1>2

\* The producer takes a token, then a batch; the consumer gives both back.
LEMMA SlotsStep == IInv /\ FillInv /\ SlotsInv /\ IInv' /\ [Next]_vars => SlotsInv'
<1> SUFFICES ASSUME IInv, FillInv, SlotsInv, IInv', [Next]_vars PROVE SlotsInv'
  OBVIOUS
<1>1. IsFiniteSet(live') /\ Cardinality(live') \in Nat /\ Cardinality(live) \in Nat
  BY LiveStep, FS_CardinalityType DEF SlotsInv
<1>2. CASE cpc = "closed"
  <2>1. UNCHANGED <<live, pool, cpc>>
    <3>1. ppc = "done" /\ \A k \in 1..Len(epc) : epc[k] \in {"done", "dead"}
      BY <1>2 DEF IInv, ChainInv
    <3>2. ~Producer
      BY <3>1 DEF Producer, AcquireSlot, TakePooled, RemakeReady, AllocateBatch, ReadPage,
         CountTask, PutTask, FinishBatch, SpawnEnqueuer, EnqueueEOF, ProducerExit
    <3>3. ~Consumer
      BY <1>2 DEF Consumer, NextRow, CallNext, ReleaseBatch, ReleaseSlot, ReceiveBatch,
         ScanRow, CallClose, FinishClose
    <3>4. \A k \in 1..Len(epc) : Enqueuer(k) => UNCHANGED <<live, pool, cpc>>
      BY DEF Enqueuer, AwaitPrev, AwaitReady, HandOver, ReleaseNext, GiveUp, consVars
    <3>5. \A w \in Workers : Worker(w) => UNCHANGED <<live, pool, cpc>>
      BY DEF Worker, ReceiveTask, WorkerExit, ProcessTask, CountDone, LoadSending,
         LoadRemaining, SignalReady, consVars
    <3> QED
      BY <3>2, <3>3, <3>4, <3>5 DEF Next, vars, consVars
  <2> QED
    BY <1>2, <2>1 DEF SlotsInv
<1>3. CASE cpc # "closed"
  <2>0. PICK lost \in {0, 1} : SlotsBalance(lost)
    BY <1>3 DEF SlotsInv
  <2>1. SlotsCounts /\ SlotsCounts'
    BY SlotsTypes, SlotsTypesNext
  <2>2. PICK n \in Nat, s \in Nat, s1 \in Nat, c \in Nat, c1 \in Nat, q \in Nat, q1 \in Nat,
             l \in Nat, l1 \in Nat :
           /\ n = InFlight /\ s = slots /\ s1 = slots' /\ c = Cardinality(Pending)
           /\ c1 = Cardinality(Pending)' /\ q = Len(pool) /\ q1 = Len(pool')
           /\ l = Cardinality(live) /\ l1 = Cardinality(live')
    BY <1>1, <2>1 DEF SlotsCounts
  <2>3. PICK t \in {0, 1}, t1 \in {0, 1}, f \in {0, 1}, f1 \in {0, 1}, r \in {0, 1},
             r1 \in {0, 1} :
           /\ t = Token /\ t1 = Token' /\ f = Fills /\ f1 = Fills'
           /\ r = Returning /\ r1 = Returning'
    BY <2>1 DEF SlotsCounts
  <2>4. /\ s + t + c + r + lost = n /\ l = q + c + f + lost /\ l <= n
        /\ lost = 1 => ppc \in {"eof", "exit", "done"}
    BY <2>0, <2>2, <2>3 DEF SlotsBalance, SlotsInv
  <2>5. ASSUME NEW lost1 \in {0, 1}, lost1 = 1 => ppc' \in {"eof", "exit", "done"},
               s1 + t1 + c1 + r1 + lost1 = n, l1 = q1 + c1 + f1 + lost1, l1 <= n
        PROVE  SlotsInv'
    <3>1. SlotsBalance(lost1)'
      BY <2>2, <2>3, <2>5 DEF SlotsBalance
    <3>2. q1 <= n
      BY <2>5
    <3> QED
      BY <1>1, <2>2, <2>5, <3>1, <3>2 DEF SlotsInv
  <2>6. CASE AcquireSlot
    <3>1. t = 0 /\ f = 0 /\ f1 = 0 /\ r1 = r /\ c1 = c /\ q1 = q /\ l1 = l
          /\ lost = 0 /\ ppc = "slot"
      BY <2>2, <2>3, <2>4, <2>6, PendingStep DEF AcquireSlot, Token, Fills, Returning, Filling,
         SpawnEnqueuer, ReleaseBatch, consVars, enqVars
    <3>2. (s1 = s - 1 /\ t1 = 1) \/ (s1 = s /\ t1 = 0)
      BY <2>2, <2>3, <2>6 DEF AcquireSlot, Token, Filling
    <3> QED
      BY <2>4, <2>5, <3>1, <3>2
  <2>7. CASE TakePooled
    <3>1. t = 1 /\ t1 = 1 /\ f = 0 /\ f1 = 1 /\ r1 = r /\ c1 = c /\ l1 = l /\ s1 = s
          /\ lost = 0
      BY <2>2, <2>3, <2>4, <2>7, PendingStep DEF TakePooled, Token, Fills, Returning, Filling,
         SpawnEnqueuer, ReleaseBatch, consVars, enqVars
    <3>2. q1 = q - 1
      BY <2>2, <2>7 DEF TakePooled, IInv, TypeOK
    <3> QED
      BY <2>4, <2>5, <3>1, <3>2
  <2>8. CASE AllocateBatch
    <3>1. t = 1 /\ t1 = 1 /\ f = 0 /\ f1 = 1 /\ r1 = r /\ c1 = c /\ l1 = l + 1 /\ s1 = s
          /\ q = 0 /\ q1 = 0 /\ lost = 0
      BY <2>2, <2>3, <2>4, <2>8, PendingStep, LiveStep DEF AllocateBatch, StartFilling, Token,
         Fills, Returning, Filling, SpawnEnqueuer, ReleaseBatch, consVars, enqVars
    <3> QED
      BY <2>4, <2>5, <3>1
  <2>9. CASE ReadPage \/ PutTask
    <3>1. t = 1 /\ f = 1 /\ t1 = f1 /\ r1 = r /\ c1 = c /\ l1 = l /\ s1 = s /\ q1 = q /\ lost = 0
          /\ (f1 = 0 => ppc' \in {"eof", "exit"})
      <4>1. UNCHANGED <<slots, pool, live, cpc, enq, epc>> /\ ppc \in {"page", "put"}
            /\ ppc' \in {"page", "flush", "send", "eof", "exit"}
        BY <2>9 DEF ReadPage, PutTask, Dispatch, AfterLastPage, consVars, enqVars
      <4>2. Pending' = Pending
        BY <2>9, PendingStep DEF ReadPage, PutTask, SpawnEnqueuer, ReleaseBatch, prodVars
      <4> QED
        BY <2>2, <2>3, <2>4, <4>1, <4>2 DEF Token, Fills, Returning, Filling
    <3>2. CASE f1 = 1
      BY <2>4, <2>5, <3>1, <3>2
    <3>3. CASE f1 = 0
      BY <2>4, <2>5, <3>1, <3>3
    <3> QED
      BY <3>2, <3>3
  <2>10. CASE SpawnEnqueuer
    <3>1. t = 1 /\ t1 = 0 /\ f = 1 /\ f1 = 0 /\ r1 = r /\ l1 = l /\ s1 = s /\ q1 = q /\ lost = 0
      BY <2>2, <2>3, <2>4, <2>10 DEF SpawnEnqueuer, Token, Fills, Returning, Filling, consVars
    <3>2. c1 = c + 1
      BY <2>2, <2>10, PendingStep, PendingFinite, FS_AddElement
    <3> QED
      BY <2>4, <2>5, <3>1, <3>2
  <2>11. CASE ReleaseBatch
    <3>1. t1 = t /\ f1 = f /\ r = 0 /\ r1 = 1 /\ l1 = l /\ s1 = s /\ ppc' = ppc
      BY <2>2, <2>3, <2>11 DEF ReleaseBatch, Token, Fills, Returning, Filling, prodVars
    <3>2. c1 = c - 1
      BY <2>2, <2>11, PendingStep, PendingFinite, FS_RemoveElement
    <3>3. q1 = q + 1
      <4>1. enq[cur] \in Batches
        BY <2>11, PendingStep, PendingFinite
      <4> QED
        BY <2>2, <2>11, <4>1 DEF ReleaseBatch, IInv, TypeOK
    <3> QED
      BY <2>4, <2>5, <3>1, <3>2, <3>3
  <2>12. CASE ReleaseSlot
    <3>1. t1 = t /\ f1 = f /\ r = 1 /\ r1 = 0 /\ l1 = l /\ s1 = s + 1 /\ q1 = q /\ c1 = c
          /\ ppc' = ppc
      BY <2>2, <2>3, <2>12, PendingStep DEF ReleaseSlot, Token, Fills, Returning, Filling,
         prodVars, SpawnEnqueuer, ReleaseBatch, enqVars, consVars
    <3> QED
      BY <2>4, <2>5, <3>1
  <2>13. CASE FinishClose
    BY <1>1, <2>2, <2>13, LiveStep DEF FinishClose, SlotsInv, AllocateBatch, consVars
  <2>14. CASE /\ ~AcquireSlot /\ ~TakePooled /\ ~AllocateBatch /\ ~ReadPage /\ ~PutTask
              /\ ~SpawnEnqueuer /\ ~ReleaseBatch /\ ~ReleaseSlot /\ ~FinishClose
    <3>1. ASSUME Producer
          PROVE  /\ UNCHANGED <<slots, pool, cpc>> /\ (Filling' <=> Filling)
                 /\ (ppc' = "take" <=> ppc = "take")
                 /\ (ppc \in {"eof", "exit", "done"} => ppc' \in {"eof", "exit", "done"})
      <4>1. CASE RemakeReady
        BY <4>1 DEF RemakeReady, StartFilling, Filling, consVars
      <4> QED
        BY <2>14, <3>1, <4>1 DEF Producer, CountTask, FinishBatch, EnqueueEOF, ProducerExit,
           Filling, consVars
    <3>2. ASSUME NEW k \in 1..Len(epc), Enqueuer(k) PROVE UNCHANGED <<slots, pool, ppc, cpc>>
      BY <3>2 DEF Enqueuer, AwaitPrev, AwaitReady, HandOver, ReleaseNext, GiveUp, prodVars,
         consVars
    <3>3. ASSUME NEW w \in Workers, Worker(w) PROVE UNCHANGED <<slots, pool, ppc, cpc>>
      BY <3>3 DEF Worker, ReceiveTask, WorkerExit, ProcessTask, CountDone, LoadSending,
         LoadRemaining, SignalReady, prodVars, consVars
    <3>4. ASSUME Consumer
          PROVE  UNCHANGED <<slots, pool, ppc>> /\ cpc # "free" /\ cpc' # "free"
      BY <2>14, <3>4 DEF Consumer, NextRow, CallNext, ReceiveBatch, ScanRow, CallClose, prodVars
    <3>5. ASSUME UNCHANGED vars PROVE UNCHANGED <<slots, pool, ppc, cpc>>
      BY <3>5 DEF vars, prodVars, consVars
    <3>6. /\ UNCHANGED <<slots, pool>> /\ (Filling' <=> Filling)
          /\ (ppc' = "take" <=> ppc = "take") /\ (cpc' = "free" <=> cpc = "free")
          /\ (ppc \in {"eof", "exit", "done"} => ppc' \in {"eof", "exit", "done"})
      BY <3>1, <3>2, <3>3, <3>4, <3>5 DEF Next, Filling
    <3>7. t1 = t /\ f1 = f /\ r1 = r /\ l1 = l /\ s1 = s /\ q1 = q /\ c1 = c
      BY <2>2, <2>3, <2>14, <3>6, PendingStep, LiveStep DEF Token, Fills, Returning
    <3> QED
      BY <2>4, <2>5, <3>6, <3>7
  <2> QED
    BY <2>6, <2>7, <2>8, <2>9, <2>10, <2>11, <2>12, <2>13, <2>14
<1> QED
  BY <1>2, <1>3

LEMMA SlotsAreAccounted == IInv /\ SlotsInv => SlotsAccounted
<1> SUFFICES ASSUME IInv, SlotsInv PROVE SlotsAccounted
  OBVIOUS
<1>1. SlotsCounts
  BY SlotsTypes
<1>2. ASSUME cpc # "closed"
      PROVE  LET held == Token + Cardinality(Pending) + Returning
             IN  IF ppc \in {"eof", "exit", "done"} THEN slots + held \in {InFlight - 1, InFlight}
                 ELSE slots + held = InFlight
  <2>1. PICK lost \in {0, 1} : SlotsBalance(lost)
    BY <1>2 DEF SlotsInv
  <2>2. PICK n \in Nat, s \in Nat, c \in Nat, t \in {0, 1}, r \in {0, 1} :
           /\ n = InFlight /\ s = slots /\ c = Cardinality(Pending) /\ t = Token /\ r = Returning
    BY <1>1 DEF SlotsCounts
  <2>3. s + t + c + r + lost = n /\ (lost = 1 => ppc \in {"eof", "exit", "done"})
    BY <2>1, <2>2 DEF SlotsBalance
  <2>4. IF ppc \in {"eof", "exit", "done"} THEN s + (t + c + r) \in {n - 1, n}
        ELSE s + (t + c + r) = n
    BY <2>3
  <2> QED
    BY <2>2, <2>4
<1> QED
  BY <1>2 DEF SlotsAccounted, SlotsInv, Token, Returning
------------------------------------------------------------------------------
(* What each step does to a batch *)

\* The part of the invariant about what exists.
Base == IInv /\ FillInv /\ OwnerInv

LEMMA Stored ==
    ASSUME IInv, NEW b \in Batches, NEW f, SetBatch(b, f)
    PROVE  obj'[b] = f /\ \A c \in Batches : c # b => obj'[c] = obj[c]
  BY DEF SetBatch, IInv, TypeOK

\* The fields other than those named are the same.
SameButRemaining(o, p) ==
    /\ p.doneSending = o.doneSending /\ p.readyClosed = o.readyClosed
    /\ p.closed = o.closed /\ p.n = o.n /\ p.gen = o.gen /\ p.rows = o.rows

LEMMA RecycledBatch ==
    ASSUME Base, TakePooled
    PROVE  /\ pb' = pool[1] /\ pb' \in live /\ 1 \in 1..Len(pool)
           /\ obj'[pb'].remaining = 0 /\ ~obj'[pb'].doneSending /\ ~obj'[pb'].readyClosed
           /\ obj[pb'].gen \in Nat /\ obj'[pb'].gen = obj[pb'].gen + 1
           /\ \A c \in Batches : c # pb' => obj'[c] = obj[c]
<1>1. pool \in Seq(Batches) /\ pool # <<>> /\ pb' = pool[1]
  BY DEF TakePooled, Base, IInv, TypeOK
<1>2. 1 \in 1..Len(pool) /\ pb' \in Batches /\ pb' \in live
  BY <1>1 DEF Base, OwnerInv
<1>3. obj'[pb'] = Recycled(obj[pb']) /\ \A c \in Batches : c # pb' => obj'[c] = obj[c]
  BY <1>1, <1>2, Stored DEF TakePooled, Base
<1>4. obj[pb'] \in BatchFields
  BY <1>2 DEF Base, IInv, TypeOK
<1> QED
  BY <1>1, <1>2, <1>3, <1>4 DEF Recycled, BatchFields

LEMMA RemadeBatch ==
    ASSUME Base, RemakeReady
    PROVE  /\ pb \in live /\ ~obj'[pb].closed
           /\ obj'[pb].remaining = obj[pb].remaining
           /\ obj'[pb].doneSending = obj[pb].doneSending
           /\ obj'[pb].readyClosed = obj[pb].readyClosed /\ obj'[pb].gen = obj[pb].gen
           /\ obj'[pb].n = obj[pb].n /\ obj'[pb].rows = obj[pb].rows
           /\ \A c \in Batches : c # pb => obj'[c] = obj[c]
<1>1. pb \in Batches /\ pb \in live /\ obj[pb] \in BatchFields
  BY DEF RemakeReady, Base, IInv, TypeOK, OwnerInv, Filling
<1>2. /\ obj'[pb] = [obj[pb] EXCEPT !.closed = FALSE]
      /\ \A c \in Batches : c # pb => obj'[c] = obj[c]
  BY <1>1, Stored DEF RemakeReady, Base
<1> QED
  BY <1>1, <1>2 DEF BatchFields

LEMMA NewBatchFields ==
    ASSUME Base, AllocateBatch
    PROVE  /\ Unused \in Batches /\ Unused \notin live /\ pb' = Unused
           /\ live' = live \cup {Unused}
           /\ obj'[Unused].remaining = 0 /\ ~obj'[Unused].doneSending
           /\ ~obj'[Unused].readyClosed /\ ~obj'[Unused].closed
           /\ \A c \in Batches : c # Unused => obj'[c] = obj[c]
<1>1. Unused \in Batches /\ Unused \notin live
  BY DEF AllocateBatch, Unused, Base, IInv, TypeOK
<1>2. obj'[Unused] = NewBatch(1) /\ \A c \in Batches : c # Unused => obj'[c] = obj[c]
  BY <1>1, Stored DEF AllocateBatch, Base
<1> QED
  BY <1>1, <1>2 DEF AllocateBatch, NewBatch

LEMMA CountedBatch ==
    ASSUME Base, CountTask
    PROVE  /\ pb \in live /\ obj[pb].remaining \in Int
           /\ obj'[pb].remaining = obj[pb].remaining + 1
           /\ SameButRemaining(obj[pb], obj'[pb])
           /\ \A c \in Batches : c # pb => obj'[c] = obj[c]
<1>1. pb \in Batches /\ pb \in live /\ obj[pb] \in BatchFields
  BY DEF CountTask, Base, IInv, TypeOK, OwnerInv, Filling
<1>2. /\ obj'[pb] = [obj[pb] EXCEPT !.remaining = @ + 1]
      /\ \A c \in Batches : c # pb => obj'[c] = obj[c]
  BY <1>1, Stored DEF CountTask, Base
<1> QED
  BY <1>1, <1>2 DEF BatchFields, SameButRemaining

LEMMA CancelledBatch ==
    ASSUME Base, ppc = "put", SetBatch(pb, [obj[pb] EXCEPT !.remaining = @ - 1])
    PROVE  /\ pb \in live /\ obj[pb].remaining \in Int
           /\ obj'[pb].remaining = obj[pb].remaining - 1
           /\ SameButRemaining(obj[pb], obj'[pb])
           /\ \A c \in Batches : c # pb => obj'[c] = obj[c]
<1>1. pb \in Batches /\ pb \in live /\ obj[pb] \in BatchFields
  BY DEF Base, IInv, TypeOK, OwnerInv, Filling
<1>2. /\ obj'[pb] = [obj[pb] EXCEPT !.remaining = @ - 1]
      /\ \A c \in Batches : c # pb => obj'[c] = obj[c]
  BY <1>1, Stored DEF Base
<1> QED
  BY <1>1, <1>2 DEF BatchFields, SameButRemaining

LEMMA FinishedBatch ==
    ASSUME Base, FinishBatch
    PROVE  /\ pb \in live /\ obj'[pb].n = fill /\ obj'[pb].doneSending
           /\ obj'[pb].remaining = obj[pb].remaining /\ obj'[pb].closed = obj[pb].closed
           /\ obj'[pb].readyClosed = obj[pb].readyClosed /\ obj'[pb].gen = obj[pb].gen
           /\ obj'[pb].rows = obj[pb].rows
           /\ \A c \in Batches : c # pb => obj'[c] = obj[c]
<1>1. pb \in Batches /\ pb \in live /\ obj[pb] \in BatchFields
  BY DEF FinishBatch, Base, IInv, TypeOK, OwnerInv, Filling
<1>2. /\ obj'[pb] = [obj[pb] EXCEPT !.n = fill, !.doneSending = TRUE]
      /\ \A c \in Batches : c # pb => obj'[c] = obj[c]
  BY <1>1, Stored DEF FinishBatch, Base
<1> QED
  BY <1>1, <1>2 DEF BatchFields

LEMMA SignalledBatch ==
    ASSUME IInv, NEW b \in Batches, MarkReady(b)
    PROVE  /\ obj'[b].readyClosed
           /\ obj[b].readyClosed => obj' = obj /\ panicked' = panicked
           /\ ~obj[b].readyClosed => obj'[b].closed /\ panicked' = obj[b].closed
           /\ obj'[b].remaining = obj[b].remaining
           /\ obj'[b].doneSending = obj[b].doneSending
           /\ obj'[b].n = obj[b].n /\ obj'[b].gen = obj[b].gen /\ obj'[b].rows = obj[b].rows
           /\ \A c \in Batches : c # b => obj'[c] = obj[c]
<1>1. obj[b] \in BatchFields
  BY DEF IInv, TypeOK
<1>2. CASE obj[b].readyClosed
  BY <1>2 DEF MarkReady
<1>3. CASE ~obj[b].readyClosed
  <2>1. /\ obj'[b] = [obj[b] EXCEPT !.readyClosed = TRUE, !.closed = TRUE]
        /\ \A c \in Batches : c # b => obj'[c] = obj[c]
        /\ panicked' = obj[b].closed
    BY <1>3, Stored DEF MarkReady
  <2> QED
    BY <1>1, <1>3, <2>1 DEF BatchFields
<1> QED
  BY <1>2, <1>3

\* The task of a worker that is past the receive.
LEMMA TaskOfWorker ==
    ASSUME IInv, NEW w \in Workers, wpc[w] \notin {"recv", "exit"}
    PROVE  /\ wtask[w] \in Task /\ wtask[w].batch \in Batches
           /\ obj[wtask[w].batch] \in BatchFields
  BY DEF IInv, WorkerInv, TypeOK, Task

LEMMA ProcessedBatch ==
    ASSUME IInv, NEW w \in Workers, ProcessTask(w)
    PROVE  LET t == wtask[w]  b == t.batch
           IN  /\ b \in Batches
               /\ \A i \in 1..BatchRows : obj'[b].rows[i] = RowsAfter(t)[i]
               /\ obj'[b].remaining = obj[b].remaining
               /\ obj'[b].doneSending = obj[b].doneSending /\ obj'[b].closed = obj[b].closed
               /\ obj'[b].readyClosed = obj[b].readyClosed /\ obj'[b].n = obj[b].n
               /\ obj'[b].gen = obj[b].gen
               /\ \A c \in Batches : c # b => obj'[c] = obj[c]
<1> DEFINE t == wtask[w]
           b == t.batch
<1>1. t \in Task /\ b \in Batches /\ obj[b] \in BatchFields
  BY TaskOfWorker DEF ProcessTask
<1>2. obj'[b] = [obj[b] EXCEPT !.rows = RowsAfter(t)] /\ \A c \in Batches : c # b => obj'[c] = obj[c]
  BY <1>1, Stored DEF ProcessTask
<1> QED
  BY <1>1, <1>2 DEF BatchFields

LEMMA CountedDownBatch ==
    ASSUME IInv, NEW w \in Workers, CountDone(w)
    PROVE  LET b == wtask[w].batch
           IN  /\ b \in Batches /\ obj[b].remaining \in Int
               /\ obj'[b].remaining = obj[b].remaining - 1
               /\ SameButRemaining(obj[b], obj'[b])
               /\ \A c \in Batches : c # b => obj'[c] = obj[c]
<1> DEFINE b == wtask[w].batch
<1>1. b \in Batches /\ obj[b] \in BatchFields
  BY TaskOfWorker DEF CountDone
<1>2. obj'[b] = [obj[b] EXCEPT !.remaining = @ - 1] /\ \A c \in Batches : c # b => obj'[c] = obj[c]
  BY <1>1, Stored DEF CountDone
<1> QED
  BY <1>1, <1>2 DEF BatchFields, SameButRemaining

\* The steps that touch no batch.
LEMMA BatchesKept ==
    ASSUME [Next]_vars, ~TakePooled, ~RemakeReady, ~AllocateBatch, ~CountTask, ~PutTask,
           ~FinishBatch, ~SpawnEnqueuer,
           \A w \in Workers : ~ProcessTask(w) /\ ~CountDone(w) /\ ~SignalReady(w)
    PROVE  obj' = obj /\ live' = live /\ pb' = pb
  BY DEF Next, vars, prodVars, Producer, AcquireSlot, ReadPage, EnqueueEOF, ProducerExit, Enqueuer,
     AwaitPrev, AwaitReady, HandOver, ReleaseNext, GiveUp, Worker, ReceiveTask,
     WorkerExit, LoadSending, LoadRemaining, Consumer, NextRow, CallNext, ReleaseBatch,
     ReleaseSlot, ReceiveBatch, ScanRow, CallClose, FinishClose

\* The generation of a batch only grows.
LEMMA GenStep ==
    ASSUME Base, [Next]_vars
    PROVE  \A b \in live : b \in live' /\ obj[b].gen \in Nat /\ obj'[b].gen \in Nat
                           /\ obj[b].gen <= obj'[b].gen
<1>0. IInv /\ live \subseteq Batches /\ \A b \in Batches : obj[b].gen \in Nat
  BY DEF Base, IInv, TypeOK, BatchFields
<1>1. CASE TakePooled
  BY <1>0, <1>1, RecycledBatch DEF TakePooled
<1>2. CASE RemakeReady
  BY <1>0, <1>2, RemadeBatch DEF RemakeReady
<1>3. CASE AllocateBatch
  BY <1>0, <1>3, NewBatchFields
<1>4. CASE CountTask
  BY <1>0, <1>4, CountedBatch DEF CountTask, SameButRemaining
<1>5. CASE PutTask
  BY <1>0, <1>5, CancelledBatch DEF PutTask, SameButRemaining
<1>6. CASE FinishBatch
  BY <1>0, <1>6, FinishedBatch DEF FinishBatch
<1>7. CASE SpawnEnqueuer
  <2>1. pb \in Batches
    BY DEF Base, IInv, TypeOK
  <2> QED
    BY <1>0, <1>7, <2>1, SignalledBatch DEF SpawnEnqueuer, SignalIfDone
<1>8. ASSUME NEW w \in Workers, ProcessTask(w) \/ CountDone(w) \/ SignalReady(w)
      PROVE  live' = live /\ \A b \in live : obj'[b].gen = obj[b].gen
  <2>1. CASE ProcessTask(w)
    BY <1>0, <2>1, ProcessedBatch DEF ProcessTask
  <2>2. CASE CountDone(w)
    BY <1>0, <2>2, CountedDownBatch DEF CountDone, SameButRemaining
  <2>3. CASE SignalReady(w)
    BY <1>0, <2>3, TaskOfWorker, SignalledBatch DEF SignalReady
  <2> QED
    BY <1>8, <2>1, <2>2, <2>3
<1> QED
  BY <1>0, <1>1, <1>2, <1>3, <1>4, <1>5, <1>6, <1>7, <1>8, BatchesKept

------------------------------------------------------------------------------
(* Tasks *)

\* A task belongs to a batch that exists, in the generation it has or had.
TaskInv(t) == t.batch \in live /\ t.gen <= obj[t.batch].gen /\ t.page # 0
TasksInv ==
    /\ \A i \in 1..Len(tasks) : TaskInv(tasks[i])
    /\ \A w \in Workers : wpc[w] \notin {"recv", "exit"} => TaskInv(wtask[w])

LEMMA TaskKept ==
    ASSUME Base, [Next]_vars, NEW t \in Task, TaskInv(t) PROVE TaskInv(t)'
<1>1. t.gen \in Nat
  BY DEF Task
<1> QED
  BY <1>1, GenStep DEF TaskInv

LEMMA TasksStep == Base /\ TasksInv /\ [Next]_vars => TasksInv'
<1> SUFFICES ASSUME Base, TasksInv, [Next]_vars PROVE TasksInv'
  OBVIOUS
<1>0. /\ tasks \in Seq(Task) /\ IInv /\ wpc \in [Workers -> {"recv", "work", "count", "sending",
                                                      "remaining", "mark", "exit"}]
      /\ wtask \in [Workers -> Task \cup {NoTask}]
      /\ \A w \in Workers : wpc[w] \notin {"recv", "exit"} => wtask[w] \in Task
  BY DEF Base, IInv, TypeOK, WorkerInv
<1>1. \A t \in Task : TaskInv(t) => TaskInv(t)'
  BY TaskKept
<1>2. ASSUME NEW t, \/ \E i \in 1..Len(tasks) : t = tasks[i]
                    \/ \E w \in Workers : wpc[w] \notin {"recv", "exit"} /\ t = wtask[w]
      PROVE  TaskInv(t)'
  BY <1>0, <1>1, <1>2 DEF TasksInv
<1>3. ASSUME \A i \in 1..Len(tasks') : TaskInv(tasks[i])',
             \A w \in Workers : wpc'[w] \notin {"recv", "exit"} => TaskInv(wtask[w])'
      PROVE  TasksInv'
  BY <1>3 DEF TasksInv
<1>4. ASSUME UNCHANGED tasks PROVE \A i \in 1..Len(tasks') : TaskInv(tasks[i])'
  BY <1>2, <1>4 DEF TaskInv
<1>5. ASSUME NEW w \in Workers, wpc[w] \notin {"recv", "exit"}, wtask'[w] = wtask[w]
      PROVE  TaskInv(wtask[w])'
  BY <1>2, <1>5 DEF TaskInv
<1>6. CASE PutTask
  <2>1. UNCHANGED workVars
    BY <1>6 DEF PutTask
  <2>2. CASE UNCHANGED tasks
    BY <1>3, <1>4, <1>5, <2>1, <2>2 DEF workVars
  <2>3. CASE tasks' # tasks
    <3>1. TaskSize(pgNo, rowNo) \in Nat /\ pb \in live /\ pgNo # 0
      BY <1>0, <1>6, TaskSizeType DEF PutTask, Base, IInv, ProducerInv, OwnerInv, Filling
    <3>2. PICK t \in Task : tasks' = Append(tasks, t) /\ t.batch = pb /\ t.gen = obj[pb].gen
                            /\ t.page = pgNo
      <4>1. pb \in Batches /\ obj[pb].gen \in Nat /\ fill \in Nat /\ pgNo \in Nat /\ rowNo \in Nat
        BY <1>0 DEF IInv, TypeOK, BatchFields
      <4> QED
        BY <1>6, <2>3, <3>1, <4>1 DEF PutTask, Task
    <3>3. TaskInv(t)'
      <4>1. t.gen <= obj[t.batch].gen
        BY <3>2 DEF Task
      <4> QED
        BY <1>1, <3>1, <3>2, <4>1 DEF TaskInv
    <3>4. ASSUME NEW i \in 1..Len(tasks') PROVE TaskInv(tasks[i])'
      <4>1. CASE i \in 1..Len(tasks)
        <5>1. tasks'[i] = tasks[i]
          BY <1>0, <3>2, <4>1
        <5> QED
          BY <1>2, <4>1, <5>1 DEF TaskInv
      <4>2. CASE i = Len(tasks) + 1
        <5>1. tasks'[i] = t
          BY <1>0, <3>2, <4>2
        <5> QED
          BY <3>3, <5>1 DEF TaskInv
      <4> QED
        BY <1>0, <3>2, <4>1, <4>2
    <3> QED
      BY <1>3, <1>5, <2>1, <3>4 DEF workVars
  <2> QED
    BY <2>2, <2>3
<1>7. ASSUME NEW w \in Workers, ReceiveTask(w) PROVE TasksInv'
  <2>1. tasks # <<>> /\ tasks' = Tail(tasks) /\ wtask'[w] = tasks[1] /\ 1 \in 1..Len(tasks)
        /\ \A v \in Workers : v # w => wtask'[v] = wtask[v] /\ wpc'[v] = wpc[v]
    BY <1>0, <1>7 DEF ReceiveTask, Goto
  <2>2. \A i \in 1..Len(tasks') : tasks'[i] = tasks[i + 1] /\ i + 1 \in 1..Len(tasks)
    BY <1>0, <2>1
  <2>3. \A i \in 1..Len(tasks') : TaskInv(tasks[i])'
    BY <1>2, <2>2 DEF TaskInv
  <2>4. TaskInv(wtask[w])'
    BY <1>2, <2>1 DEF TaskInv
  <2> QED
    BY <1>3, <1>5, <2>1, <2>3, <2>4
<1>8. ASSUME NEW w \in Workers, Worker(w), ~ReceiveTask(w) PROVE TasksInv'
  <2>1. /\ UNCHANGED <<tasks, wtask>> /\ (wpc[w] = "recv" => wpc'[w] = "exit") /\ wpc[w] # "exit"
        /\ \A v \in Workers : v # w => wpc'[v] = wpc[v]
    BY <1>0, <1>8 DEF Worker, WorkerExit, ProcessTask, CountDone, LoadSending, LoadRemaining,
       SignalReady, Goto
  <2> QED
    BY <1>3, <1>4, <1>5, <2>1
<1>9. CASE ~PutTask /\ \A w \in Workers : ~Worker(w)
  <2>1. UNCHANGED <<tasks, wtask, wpc>>
    BY <1>9 DEF Next, vars, workVars, Producer, AcquireSlot, TakePooled, RemakeReady, AllocateBatch,
       ReadPage, CountTask, FinishBatch, SpawnEnqueuer, EnqueueEOF, ProducerExit, Enqueuer,
       AwaitPrev, AwaitReady, HandOver, ReleaseNext, GiveUp, Consumer, NextRow, CallNext,
       ReleaseBatch, ReleaseSlot, ReceiveBatch, ScanRow, CallClose, FinishClose
  <2> QED
    BY <1>3, <1>4, <1>5, <2>1
<1> QED
  BY <1>6, <1>7, <1>8, <1>9
------------------------------------------------------------------------------
(* The invariant of the delivery *)

\* remaining counts the tasks of the batch that are in the channel, those a worker
\* has not finished, and the one the producer is about to send.
TasksOf(b)   == {i \in 1..Len(tasks) : tasks[i].batch = b}
WorkersOn(b) == {w \in Workers : wpc[w] \in {"work", "count"} /\ wtask[w].batch = b}
Announced(b) == IF ppc = "put" /\ pb = b THEN 1 ELSE 0
CountInv ==
    \A b \in live : obj[b].remaining =
                      Cardinality(TasksOf(b)) + Cardinality(WorkersOn(b)) + Announced(b)

\* A batch is ready only when the producer is done with it and nothing remains; the
\* channel of a batch that is not ready is open, but for the step between the reset
\* of a pooled batch and its new channel.
ReadyInv ==
    /\ \A b \in live : obj[b].readyClosed => obj[b].doneSending /\ obj[b].remaining = 0
    /\ \A b \in live : obj[b].closed => obj[b].readyClosed \/ (ppc = "remake" /\ pb = b)
    /\ Filling => (obj[pb].doneSending <=> ppc = "spawn")
    /\ \A k \in Pending : /\ obj[enq[k]].doneSending
                          /\ epc[k] \in {"send", "sent", "done"} => obj[enq[k]].closed
    /\ \A i \in 1..Len(pool) : obj[pool[i]].remaining = 0

\* What a worker has read of its batch still holds, unless the batch was recycled.
Current(w) == obj[wtask[w].batch].gen = wtask[w].gen
SignalInv ==
    \A w \in Workers :
        /\ (wpc[w] \in {"remaining", "mark"} /\ Current(w)) => obj[wtask[w].batch].doneSending
        /\ (wpc[w] = "mark" /\ Current(w)) => obj[wtask[w].batch].remaining = 0

\* Each row slot in use was written, or a task that will write it is outstanding.
Covers(t, b, i) == t.batch = b /\ i \in (t.slot + 1)..(t.slot + t.n)
Written(b, i) ==
    \/ obj[b].rows[i] # Leftover
    \/ \E j \in 1..Len(tasks) : Covers(tasks[j], b, i)
    \/ \E w \in Workers : wpc[w] = "work" /\ Covers(wtask[w], b, i)
RowsInv ==
    /\ ppc \in {"page", "send", "put", "flush", "spawn"} => \A i \in 1..fill : Written(pb, i)
    /\ ppc = "spawn" => obj[pb].n = fill
    /\ \A k \in Pending : /\ obj[enq[k]].n <= BatchRows
                          /\ \A i \in 1..obj[enq[k]].n : Written(enq[k], i)

Delivery == ~panicked /\ CountInv /\ ReadyInv /\ SignalInv /\ RowsInv
DeliveryInv == stale \/ Delivery

------------------------------------------------------------------------------
(* Counting the tasks of a batch *)

LEMMA CountsFinite ==
    ASSUME IInv, NEW b
    PROVE  /\ IsFiniteSet(TasksOf(b)) /\ Cardinality(TasksOf(b)) \in Nat
           /\ IsFiniteSet(WorkersOn(b)) /\ Cardinality(WorkersOn(b)) \in Nat
<1>1. Len(tasks) \in Nat
  BY DEF IInv, TypeOK
<1>2. IsFiniteSet(1..Len(tasks)) /\ IsFiniteSet(Workers)
  BY <1>1, FS_Interval, FastScanAssumption
<1>3. TasksOf(b) \in SUBSET (1..Len(tasks)) /\ WorkersOn(b) \in SUBSET Workers
  BY DEF TasksOf, WorkersOn
<1> QED
  BY <1>2, <1>3, FS_Subset, FS_CardinalityType

LEMMA NoneOutstanding ==
    ASSUME IInv, NEW b
    PROVE  /\ Cardinality(TasksOf(b)) = 0 => TasksOf(b) = {}
           /\ Cardinality(WorkersOn(b)) = 0 => WorkersOn(b) = {}
  BY CountsFinite, FS_EmptySet

\* Sending a task, and taking one out of the channel.
LEMMA TaskSent ==
    ASSUME IInv, NEW t \in Task, tasks' = Append(tasks, t), NEW b
    PROVE  /\ t.batch = b => Cardinality(TasksOf(b)') = Cardinality(TasksOf(b)) + 1
           /\ t.batch # b => TasksOf(b)' = TasksOf(b)
<1>0. tasks \in Seq(Task) /\ Len(tasks) \in Nat
  BY DEF IInv, TypeOK
<1>1. Len(tasks') = Len(tasks) + 1 /\ tasks'[Len(tasks) + 1] = t
      /\ \A i \in 1..Len(tasks) : tasks'[i] = tasks[i]
  BY <1>0
<1>2. \A i : i \in 1..Len(tasks') <=> i \in 1..Len(tasks) \/ i = Len(tasks) + 1
  BY <1>0, <1>1
<1>3. ASSUME t.batch = b
      PROVE  TasksOf(b)' = TasksOf(b) \cup {Len(tasks) + 1}
  BY <1>1, <1>2, <1>3 DEF TasksOf
<1>4. Len(tasks) + 1 \notin TasksOf(b)
  BY <1>0 DEF TasksOf
<1>5. t.batch # b => TasksOf(b)' = TasksOf(b)
  BY <1>1, <1>2 DEF TasksOf
<1> QED
  BY <1>3, <1>4, <1>5, CountsFinite, FS_AddElement

LEMMA TaskTaken ==
    ASSUME IInv, tasks # <<>>, tasks' = Tail(tasks), NEW b
    PROVE  /\ tasks[1].batch = b => Cardinality(TasksOf(b)') = Cardinality(TasksOf(b)) - 1
           /\ tasks[1].batch # b => Cardinality(TasksOf(b)') = Cardinality(TasksOf(b))
<1>0. tasks \in Seq(Task) /\ Len(tasks) \in Nat \ {0}
  BY DEF IInv, TypeOK
<1>1. Len(tasks') = Len(tasks) - 1 /\ \A i \in 1..Len(tasks') : tasks'[i] = tasks[i + 1]
  BY <1>0
<1> DEFINE S == TasksOf(b) \ {1}
           f == [i \in S |-> i - 1]
<1>2. \A i \in S : i - 1 \in TasksOf(b)' /\ i \in Nat
  BY <1>0, <1>1 DEF TasksOf
<1>3. \A j \in TasksOf(b)' : j + 1 \in S /\ f[j + 1] = j
  BY <1>0, <1>1 DEF TasksOf
<1>4. \A i, j \in S : f[i] = f[j] => i = j
  BY <1>2
<1>5. f \in Bijection(S, TasksOf(b)')
  BY <1>2, <1>3, <1>4 DEF Bijection, Injection, Surjection, IsInjective
<1>6. /\ IsFiniteSet(S)
      /\ Cardinality(S) = IF 1 \in TasksOf(b) THEN Cardinality(TasksOf(b)) - 1
                          ELSE Cardinality(TasksOf(b))
  BY CountsFinite, FS_RemoveElement
<1>7. Cardinality(TasksOf(b)') = Cardinality(S)
  BY <1>5, <1>6, FS_Bijection DEF ExistsBijection
<1>8. 1 \in TasksOf(b) <=> tasks[1].batch = b
  BY <1>0 DEF TasksOf
<1> QED
  BY <1>6, <1>7, <1>8

\* A worker takes up a task, and finishes it.
LEMMA WorkerStarts ==
    ASSUME IInv, NEW w \in Workers, wpc[w] = "recv", wpc' = [wpc EXCEPT ![w] = "work"],
           NEW t, wtask' = [wtask EXCEPT ![w] = t], NEW b
    PROVE  /\ t.batch = b => Cardinality(WorkersOn(b)') = Cardinality(WorkersOn(b)) + 1
           /\ t.batch # b => WorkersOn(b)' = WorkersOn(b)
<1>1. /\ wpc'[w] = "work" /\ wtask'[w] = t
      /\ \A v \in Workers : v # w => wpc'[v] = wpc[v] /\ wtask'[v] = wtask[v]
  BY DEF IInv, TypeOK
<1>2. w \notin WorkersOn(b) /\ (t.batch = b => WorkersOn(b)' = WorkersOn(b) \cup {w})
  BY <1>1 DEF WorkersOn
<1>3. t.batch # b => WorkersOn(b)' = WorkersOn(b)
  BY <1>1 DEF WorkersOn
<1> QED
  BY <1>2, <1>3, CountsFinite, FS_AddElement

LEMMA WorkerEnds ==
    ASSUME IInv, NEW w \in Workers, wpc[w] = "count", wpc' = [wpc EXCEPT ![w] = "sending"],
           wtask' = wtask, NEW b
    PROVE  /\ wtask[w].batch = b => Cardinality(WorkersOn(b)') = Cardinality(WorkersOn(b)) - 1
           /\ wtask[w].batch # b => WorkersOn(b)' = WorkersOn(b)
<1>1. wpc'[w] = "sending" /\ \A v \in Workers : v # w => wpc'[v] = wpc[v]
  BY DEF IInv, TypeOK
<1>2. wtask[w].batch = b => w \in WorkersOn(b) /\ WorkersOn(b)' = WorkersOn(b) \ {w}
  BY <1>1 DEF WorkersOn
<1>3. wtask[w].batch # b => WorkersOn(b)' = WorkersOn(b)
  BY <1>1 DEF WorkersOn
<1> QED
  BY <1>2, <1>3, CountsFinite, FS_RemoveElement

\* Everything the steps of the delivery start from.
LEMMA DeliveryTypes ==
    ASSUME Base, TasksInv
    PROVE  /\ IInv /\ TypeOK /\ live \subseteq Batches /\ pb \in Batches
           /\ pool \in Seq(Batches) /\ tasks \in Seq(Task) /\ fill \in Nat
           /\ \A b \in Batches : obj[b] \in BatchFields /\ obj[b].remaining \in Int
           /\ Filling => pb \in live
           /\ \A w \in Workers : wpc[w] \notin {"recv", "exit"} =>
                 wtask[w] \in Task /\ wtask[w].batch \in live
  BY DEF Base, IInv, TypeOK, BatchFields, OwnerInv, TasksInv, TaskInv, WorkerInv

\* PutTask sends a task of the batch being filled, or takes its announcement back.
LEMMA PutTaskKinds ==
    ASSUME IInv, PutTask
    PROVE  \/ /\ SetBatch(pb, [obj[pb] EXCEPT !.remaining = @ - 1])
              /\ ppc' = "exit" /\ UNCHANGED <<tasks, fill>>
           \/ \E t \in Task :
                 /\ tasks' = Append(tasks, t) /\ t.batch = pb /\ obj' = obj
                 /\ t.slot = fill /\ fill' = fill + t.n
                 /\ ppc' \in {"page", "flush", "send"}
<1>1. TaskSize(pgNo, rowNo) \in Nat
  BY TaskSizeType DEF PutTask, IInv
<1>2. pb \in Batches /\ obj[pb].gen \in Nat /\ fill \in Nat /\ pgNo \in Nat /\ rowNo \in Nat
  BY DEF IInv, TypeOK, BatchFields
<1> DEFINE n == TaskSize(pgNo, rowNo)
           t == [batch |-> pb, gen |-> obj[pb].gen, slot |-> fill,
                 page |-> pgNo, first |-> rowNo, n |-> n]
<1>3. t \in Task /\ t.batch = pb /\ t.slot = fill /\ t.n = n
  BY <1>1, <1>2 DEF Task
<1> QED
  BY <1>3 DEF PutTask, Dispatch

\* A step that counts no task up or down.
LEMMA CountKept ==
    ASSUME CountInv, UNCHANGED <<tasks, live>>, \A b \in live : obj'[b].remaining = obj[b].remaining,
           \A b \in live : WorkersOn(b)' = WorkersOn(b),
           \A b \in live : Announced(b)' = Announced(b)
    PROVE  CountInv'
<1>1. \A b : TasksOf(b)' = TasksOf(b)
  BY DEF TasksOf
<1> QED
  BY <1>1 DEF CountInv

LEMMA CountStep ==
    ASSUME Base, TasksInv, Delivery, [Next]_vars PROVE CountInv'
<1>0. /\ IInv /\ live \subseteq Batches /\ pb \in Batches /\ CountInv
      /\ \A b \in Batches : obj[b].remaining \in Int
  BY DeliveryTypes DEF Delivery
<1>1. ASSUME UNCHANGED workVars PROVE \A b : WorkersOn(b)' = WorkersOn(b)
  BY <1>1 DEF WorkersOn, workVars
<1>2. ASSUME ppc # "put", ppc' # "put" PROVE \A b : Announced(b)' = Announced(b)
  BY <1>2 DEF Announced
<1>3. ASSUME UNCHANGED <<ppc, pb>> PROVE \A b : Announced(b)' = Announced(b)
  BY <1>3 DEF Announced
\* The terms of the equation for one batch, as numbers.
<1>5. ASSUME NEW b \in live
      PROVE  \E r, x, y, z \in Int :
                  /\ r = obj[b].remaining /\ x = Cardinality(TasksOf(b))
                  /\ y = Cardinality(WorkersOn(b)) /\ z = Announced(b) /\ r = x + y + z
                  /\ x >= 0 /\ y >= 0 /\ z >= 0
  <2>1. Announced(b) \in {0, 1}
    BY DEF Announced
  <2> QED
    BY <1>0, <2>1, CountsFinite DEF CountInv
<1>6. CASE TakePooled
  <2>1. /\ pb' \in live /\ 1 \in 1..Len(pool) /\ pb' = pool[1] /\ obj'[pb'].remaining = 0
        /\ \A c \in Batches : c # pb' => obj'[c] = obj[c]
        /\ UNCHANGED <<tasks, workVars, live>> /\ ppc = "take" /\ ppc' = "remake"
    BY <1>6, RecycledBatch DEF TakePooled
  <2>2. obj[pb'].remaining = 0
    BY <2>1 DEF Delivery, ReadyInv
  <2>3. \A c \in live : obj'[c].remaining = obj[c].remaining
    BY <1>0, <2>1, <2>2
  <2> QED
    BY <1>0, <1>1, <1>2, <2>1, <2>3, CountKept
<1>7. CASE AllocateBatch
  <2>1. PICK u : /\ u \notin live /\ live' = live \cup {u} /\ obj'[u].remaining = 0
                 /\ \A c \in Batches : c # u => obj'[c] = obj[c]
                 /\ UNCHANGED <<tasks, workVars>> /\ ppc = "take" /\ ppc' # "put"
    BY <1>7, NewBatchFields DEF AllocateBatch, StartFilling
  <2>2. TasksOf(u)' = {}
    <3>1. \A i \in 1..Len(tasks) : tasks[i].batch # u
      BY <2>1 DEF TasksInv, TaskInv
    <3> QED
      BY <2>1, <3>1 DEF TasksOf
  <2>6. WorkersOn(u)' = {}
    <3>1. \A w \in Workers : wpc[w] \in {"work", "count"} => wtask[w].batch # u
      BY <2>1 DEF TasksInv, TaskInv
    <3> QED
      BY <2>1, <3>1 DEF WorkersOn, workVars
  <2>3. Cardinality(TasksOf(u)') = 0 /\ Cardinality(WorkersOn(u)') = 0
        /\ Announced(u)' = 0
    BY <2>1, <2>2, <2>6, FS_EmptySet DEF Announced
  <2>4. obj'[u].remaining = Cardinality(TasksOf(u)') + Cardinality(WorkersOn(u)')
                                   + Announced(u)'
    BY <2>1, <2>3
  <2>5. ASSUME NEW c \in live
        PROVE  obj'[c].remaining = Cardinality(TasksOf(c)') + Cardinality(WorkersOn(c)') + Announced(c)'
    <3>1. obj'[c] = obj[c] /\ TasksOf(c)' = TasksOf(c) /\ WorkersOn(c)' = WorkersOn(c)
          /\ Announced(c)' = Announced(c)
      BY <1>0, <1>1, <1>2, <2>1 DEF TasksOf
    <3> QED
      BY <1>0, <3>1 DEF CountInv
  <2>7. ASSUME NEW c \in live'
        PROVE  obj'[c].remaining = Cardinality(TasksOf(c)') + Cardinality(WorkersOn(c)') + Announced(c)'
    <3>1. CASE c \in live
      BY <2>5, <3>1
    <3>2. CASE c = u
      BY <2>4, <3>2
    <3> QED
      BY <2>1, <3>1, <3>2
  <2> QED
    BY <2>7 DEF CountInv
<1>8. CASE CountTask
  <2>1. /\ pb \in live /\ obj'[pb].remaining = obj[pb].remaining + 1
        /\ \A c \in Batches : c # pb => obj'[c] = obj[c]
        /\ UNCHANGED <<tasks, workVars, live, pb>> /\ ppc = "send" /\ ppc' = "put"
    BY <1>8, CountedBatch DEF CountTask
  <2>2. \A b : TasksOf(b)' = TasksOf(b) /\ WorkersOn(b)' = WorkersOn(b)
    BY <1>1, <2>1 DEF TasksOf
  <2>3. ASSUME NEW b \in live
        PROVE  obj'[b].remaining = Cardinality(TasksOf(b)') + Cardinality(WorkersOn(b)') + Announced(b)'
    <3>1. PICK r \in Int, x \in Int, y \in Int, z \in Int :
                  /\ r = obj[b].remaining /\ x = Cardinality(TasksOf(b))
                  /\ y = Cardinality(WorkersOn(b)) /\ z = Announced(b) /\ r = x + y + z
      BY <1>5
    <3>2. CASE b = pb
      <4>1. z = 0 /\ Announced(b)' = 1
        BY <2>1, <3>1, <3>2 DEF Announced
      <4>2. r + 1 = x + y + 1
        BY <3>1, <4>1
      <4> QED
        BY <2>1, <2>2, <3>1, <3>2, <4>1, <4>2
    <3>3. CASE b # pb
      <4>1. z = 0 /\ Announced(b)' = 0
        BY <2>1, <3>1, <3>3 DEF Announced
      <4> QED
        BY <1>0, <2>1, <2>2, <3>1, <3>3, <4>1
    <3> QED
      BY <3>2, <3>3
  <2> QED
    BY <2>1, <2>3 DEF CountInv
<1>9. CASE PutTask
  <2>1. UNCHANGED <<workVars, live, pb>> /\ ppc = "put" /\ ppc' # "put" /\ pb \in live
    BY <1>0, <1>9, DeliveryTypes DEF PutTask, Dispatch, Filling
  <2>2. \A b : WorkersOn(b)' = WorkersOn(b)
    BY <1>1, <2>1
  <2>3. ASSUME SetBatch(pb, [obj[pb] EXCEPT !.remaining = @ - 1]), UNCHANGED tasks
        PROVE  CountInv'
    <3>1. /\ obj'[pb].remaining = obj[pb].remaining - 1
          /\ \A c \in Batches : c # pb => obj'[c] = obj[c]
      BY <2>1, <2>3, CancelledBatch
    <3>2. ASSUME NEW b \in live
          PROVE  obj'[b].remaining = Cardinality(TasksOf(b)') + Cardinality(WorkersOn(b)') + Announced(b)'
      <4>1. PICK r \in Int, x \in Int, y \in Int, z \in Int :
                  /\ r = obj[b].remaining /\ x = Cardinality(TasksOf(b))
                  /\ y = Cardinality(WorkersOn(b)) /\ z = Announced(b) /\ r = x + y + z
        BY <1>5
      <4>2. TasksOf(b)' = TasksOf(b) /\ Announced(b)' = 0
        BY <2>1, <2>3 DEF TasksOf, Announced
      <4>3. CASE b = pb
        <5>1. z = 1
          BY <2>1, <4>1, <4>3 DEF Announced
        <5>2. r - 1 = x + y + 0
          BY <4>1, <5>1
        <5> QED
          BY <2>2, <3>1, <4>1, <4>2, <4>3, <5>2
      <4>4. CASE b # pb
        <5>1. z = 0
          BY <2>1, <4>1, <4>4 DEF Announced
        <5> QED
          BY <1>0, <2>2, <3>1, <4>1, <4>2, <4>4, <5>1
      <4> QED
        BY <4>3, <4>4
    <3> QED
      BY <2>1, <3>2 DEF CountInv
  <2>4. ASSUME NEW t \in Task, tasks' = Append(tasks, t), t.batch = pb, obj' = obj
        PROVE  CountInv'
    <3>1. tasks' = Append(tasks, t) /\ t.batch = pb /\ obj' = obj
      BY <2>4
    <3>2. ASSUME NEW b \in live
          PROVE  obj'[b].remaining = Cardinality(TasksOf(b)') + Cardinality(WorkersOn(b)') + Announced(b)'
      <4>1. PICK r \in Int, x \in Int, y \in Int, z \in Int :
                  /\ r = obj[b].remaining /\ x = Cardinality(TasksOf(b))
                  /\ y = Cardinality(WorkersOn(b)) /\ z = Announced(b) /\ r = x + y + z
        BY <1>5
      <4>2. Announced(b)' = 0
        BY <2>1 DEF Announced
      <4>3. CASE b = pb
        <5>1. z = 1
          BY <2>1, <4>1, <4>3 DEF Announced
        <5>2. Cardinality(TasksOf(b)') = x + 1
          BY <1>0, <3>1, <4>1, <4>3, TaskSent
        <5>3. r = (x + 1) + y + 0
          BY <4>1, <5>1
        <5> QED
          BY <2>2, <3>1, <4>1, <4>2, <5>2, <5>3
      <4>4. CASE b # pb
        <5>1. z = 0 /\ TasksOf(b)' = TasksOf(b)
          BY <1>0, <2>1, <3>1, <4>1, <4>4, TaskSent DEF Announced
        <5> QED
          BY <2>2, <3>1, <4>1, <4>2, <5>1
      <4> QED
        BY <4>3, <4>4
    <3> QED
      BY <2>1, <3>2 DEF CountInv
  <2> QED
    BY <1>0, <1>9, <2>3, <2>4, PutTaskKinds
<1>10. ASSUME NEW w \in Workers, ReceiveTask(w) PROVE CountInv'
  <2>1. /\ UNCHANGED <<obj, live, ppc, pb>> /\ wpc[w] = "recv" /\ tasks # <<>>
        /\ tasks' = Tail(tasks) /\ wpc' = [wpc EXCEPT ![w] = "work"]
        /\ wtask' = [wtask EXCEPT ![w] = tasks[1]]
    BY <1>10 DEF ReceiveTask, Goto, prodVars
  <2>2. ASSUME NEW b \in live
        PROVE  obj'[b].remaining = Cardinality(TasksOf(b)') + Cardinality(WorkersOn(b)') + Announced(b)'
    <3>1. PICK r \in Int, x \in Int, y \in Int, z \in Int :
                  /\ r = obj[b].remaining /\ x = Cardinality(TasksOf(b))
                  /\ y = Cardinality(WorkersOn(b)) /\ z = Announced(b) /\ r = x + y + z
      BY <1>5
    <3>2. Announced(b)' = z
      BY <1>3, <2>1, <3>1
    <3>3. CASE tasks[1].batch = b
      <4>1. Cardinality(TasksOf(b)') = x - 1
        BY <1>0, <2>1, <3>1, <3>3, TaskTaken
      <4>2. Cardinality(WorkersOn(b)') = y + 1
        BY <1>0, <2>1, <3>1, <3>3, WorkerStarts
      <4>3. r = (x - 1) + (y + 1) + z
        BY <3>1
      <4> QED
        BY <2>1, <3>1, <3>2, <4>1, <4>2, <4>3
    <3>4. CASE tasks[1].batch # b
      <4>1. Cardinality(TasksOf(b)') = x
        BY <1>0, <2>1, <3>1, <3>4, TaskTaken
      <4>2. Cardinality(WorkersOn(b)') = y
        BY <1>0, <2>1, <3>1, <3>4, WorkerStarts
      <4> QED
        BY <2>1, <3>1, <3>2, <4>1, <4>2
    <3> QED
      BY <3>3, <3>4
  <2> QED
    BY <2>1, <2>2 DEF CountInv
<1>11. ASSUME NEW w \in Workers, CountDone(w) PROVE CountInv'
  <2>1. /\ UNCHANGED <<tasks, live, ppc, pb, wtask>> /\ wpc[w] = "count"
        /\ wpc' = [wpc EXCEPT ![w] = "sending"]
        /\ obj'[wtask[w].batch].remaining = obj[wtask[w].batch].remaining - 1
        /\ \A c \in Batches : c # wtask[w].batch => obj'[c] = obj[c]
    BY <1>0, <1>11, CountedDownBatch DEF CountDone, Goto, prodVars
  <2>2. ASSUME NEW b \in live
        PROVE  obj'[b].remaining = Cardinality(TasksOf(b)') + Cardinality(WorkersOn(b)') + Announced(b)'
    <3>1. PICK r \in Int, x \in Int, y \in Int, z \in Int :
                  /\ r = obj[b].remaining /\ x = Cardinality(TasksOf(b))
                  /\ y = Cardinality(WorkersOn(b)) /\ z = Announced(b) /\ r = x + y + z
      BY <1>5
    <3>2. Announced(b)' = z /\ TasksOf(b)' = TasksOf(b)
      BY <1>3, <2>1, <3>1 DEF TasksOf
    <3>3. CASE wtask[w].batch = b
      <4>1. Cardinality(WorkersOn(b)') = y - 1
        BY <1>0, <2>1, <3>1, <3>3, WorkerEnds
      <4>2. r - 1 = x + (y - 1) + z
        BY <3>1
      <4> QED
        BY <2>1, <3>1, <3>2, <3>3, <4>1, <4>2
    <3>4. CASE wtask[w].batch # b
      <4>1. WorkersOn(b)' = WorkersOn(b)
        BY <1>0, <2>1, <3>4, WorkerEnds
      <4> QED
        BY <1>0, <2>1, <3>1, <3>2, <3>4, <4>1
    <3> QED
      BY <3>3, <3>4
  <2> QED
    BY <2>1, <2>2 DEF CountInv
<1>12. ASSUME RemakeReady \/ FinishBatch \/ SpawnEnqueuer PROVE CountInv'
  <2>1. UNCHANGED <<tasks, workVars, live>> /\ ppc # "put" /\ ppc' # "put"
    BY <1>12 DEF RemakeReady, StartFilling, FinishBatch, SpawnEnqueuer
  <2>2. \A c \in live : obj'[c].remaining = obj[c].remaining
    BY <1>0, <1>12, RemadeBatch, FinishedBatch, SignalledBatch DEF SpawnEnqueuer, SignalIfDone
  <2> QED
    BY <1>0, <1>1, <1>2, <2>1, <2>2, CountKept
<1>13. ASSUME NEW w \in Workers, Worker(w), ~ReceiveTask(w), ~CountDone(w) PROVE CountInv'
  <2>1. UNCHANGED <<tasks, live, ppc, pb, wtask>>
        /\ (wpc'[w] \in {"work", "count"} <=> wpc[w] \in {"work", "count"})
        /\ \A v \in Workers : v # w => wpc'[v] = wpc[v]
    BY <1>0, <1>13 DEF IInv, TypeOK, Worker, WorkerExit, ProcessTask, LoadSending, LoadRemaining,
       SignalReady, Goto, prodVars
  <2>2. \A b : WorkersOn(b)' = WorkersOn(b)
    BY <2>1 DEF WorkersOn
  <2>3. \A c \in live : obj'[c].remaining = obj[c].remaining
    <3>1. CASE ProcessTask(w)
      BY <1>0, <3>1, ProcessedBatch
    <3>2. CASE SignalReady(w)
      BY <1>0, <3>2, TaskOfWorker, SignalledBatch DEF SignalReady
    <3> QED
      BY <1>13, <3>1, <3>2 DEF Worker, WorkerExit, LoadSending, LoadRemaining
  <2> QED
    BY <1>0, <1>3, <2>1, <2>2, <2>3, CountKept
<1>14. CASE /\ ~TakePooled /\ ~AllocateBatch /\ ~CountTask /\ ~PutTask /\ ~RemakeReady
            /\ ~FinishBatch /\ ~SpawnEnqueuer /\ \A w \in Workers : ~Worker(w)
  <2>1. obj' = obj /\ live' = live /\ pb' = pb
    BY <1>14, BatchesKept DEF Worker
  <2>2. /\ UNCHANGED <<tasks, workVars>>
        /\ ppc' = ppc \/ (ppc # "put" /\ ppc' # "put")
    BY <1>14 DEF Next, vars, prodVars, Producer, AcquireSlot, ReadPage, AfterLastPage, Dispatch,
       EnqueueEOF, ProducerExit, Enqueuer, AwaitPrev, AwaitReady, HandOver, ReleaseNext, GiveUp,
       Consumer, NextRow, CallNext, ReleaseBatch, ReleaseSlot, ReceiveBatch, ScanRow, CallClose,
       FinishClose
  <2> QED
    BY <1>0, <1>1, <1>2, <1>3, <2>1, <2>2, CountKept
<1> QED
  BY <1>6, <1>7, <1>8, <1>9, <1>10, <1>11, <1>12, <1>13, <1>14
------------------------------------------------------------------------------
(* When a batch is ready *)

\* Nothing remains of a batch only when no task of it is outstanding.
LEMMA Outstanding ==
    ASSUME IInv, CountInv, NEW b \in live
    PROVE  /\ obj[b].remaining \in Nat
           /\ obj[b].remaining = 0 => TasksOf(b) = {} /\ WorkersOn(b) = {}
<1>1. PICK x, y, z \in Int : /\ x = Cardinality(TasksOf(b)) /\ y = Cardinality(WorkersOn(b))
                             /\ z = Announced(b) /\ x >= 0 /\ y >= 0 /\ z >= 0
  BY CountsFinite DEF Announced
<1>2. obj[b].remaining = x + y + z
  BY <1>1 DEF CountInv
<1>3. x + y + z \in Nat /\ (x + y + z = 0 => x = 0 /\ y = 0)
  BY <1>1
<1>4. x = 0 => TasksOf(b) = {}
  BY <1>1, NoneOutstanding
<1>5. y = 0 => WorkersOn(b) = {}
  BY <1>1, NoneOutstanding
<1> QED
  BY <1>2, <1>3, <1>4, <1>5

\* A worker that has a task of a batch keeps the batch from being ready or pooled.
LEMMA NotReadyYet ==
    ASSUME Base, TasksInv, Delivery, NEW w \in Workers, wpc[w] \in {"work", "count"}
    PROVE  /\ wtask[w].batch \in live /\ ~obj[wtask[w].batch].readyClosed
           /\ \A i \in 1..Len(pool) : pool[i] # wtask[w].batch
<1>1. wtask[w].batch \in live /\ w \in WorkersOn(wtask[w].batch)
  BY DEF TasksInv, TaskInv, WorkersOn
<1>2. obj[wtask[w].batch].remaining # 0
  BY <1>1, Outstanding DEF Delivery, Base
<1> QED
  BY <1>1, <1>2 DEF Delivery, ReadyInv

LEMMA ReadyKept ==
    ASSUME Base, ReadyInv, UNCHANGED <<pool, pb, live>>, Pending' = Pending,
           \A k \in Pending : enq'[k] = enq[k],
           \A b \in live : /\ obj'[b].doneSending = obj[b].doneSending
                           /\ obj'[b].readyClosed = obj[b].readyClosed
                           /\ obj'[b].closed = obj[b].closed
                           /\ obj[b].readyClosed => obj'[b].remaining = 0,
           \A i \in 1..Len(pool) : obj'[pool[i]].remaining = 0,
           Filling' => Filling /\ (ppc' = "spawn" <=> ppc = "spawn"),
           ppc = "remake" => ppc' = "remake",
           \A k \in Pending : epc'[k] \in {"send", "sent", "done"} =>
              epc[k] \in {"send", "sent", "done"} \/ obj[enq[k]].closed
    PROVE  ReadyInv'
<1>1. \A b \in live' : obj'[b].readyClosed => obj'[b].doneSending /\ obj'[b].remaining = 0
  BY DEF ReadyInv
<1>2. \A b \in live' : obj'[b].closed => obj'[b].readyClosed \/ (ppc' = "remake" /\ pb' = b)
  BY DEF ReadyInv
<1>3. Filling' => (obj'[pb'].doneSending <=> ppc' = "spawn")
  BY DEF ReadyInv, Base, OwnerInv
<1>4. \A k \in Pending' : /\ obj'[enq'[k]].doneSending
                          /\ epc'[k] \in {"send", "sent", "done"} => obj'[enq'[k]].closed
  BY DEF ReadyInv, Base, OwnerInv
<1> QED
  BY <1>1, <1>2, <1>3, <1>4 DEF ReadyInv

\* The signal of a batch that is done and not ready yet closes an open channel.
LEMMA SignalledOpen ==
    ASSUME Base, Delivery, NEW b \in live, ~obj[b].readyClosed, obj[b].doneSending
    PROVE  ~obj[b].closed
<1>1. Filling /\ ppc = "remake" => ~obj[pb].doneSending
  BY DEF Delivery, ReadyInv
<1> QED
  BY <1>1 DEF Delivery, ReadyInv, Filling

\* The worker that signals a batch with a stale reading records it.
LEMMA SignalledTimely ==
    ASSUME Base, TasksInv, Delivery, NEW w \in Workers, SignalReady(w), ~stale'
    PROVE  LET b == wtask[w].batch
           IN  /\ b \in live
               /\ ~obj[b].readyClosed =>
                     obj[b].doneSending /\ obj[b].remaining = 0 /\ ~obj[b].closed
<1>1. wtask[w].batch \in live /\ wpc[w] = "mark"
  BY DEF SignalReady, TasksInv, TaskInv
<1>2. ~obj[wtask[w].batch].readyClosed => Current(w)
  BY DEF SignalReady, Current
<1>3. Current(w) => obj[wtask[w].batch].doneSending /\ obj[wtask[w].batch].remaining = 0
  BY <1>1 DEF Delivery, SignalInv
<1> QED
  BY <1>1, <1>2, <1>3, SignalledOpen

\* The batch the consumer gives back is ready.
LEMMA ReleasedReady ==
    ASSUME Base, Delivery, cur \in Pending, cpc # "closed"
    PROVE  obj[enq[cur]].remaining = 0
<1>1. cur <= taken /\ cur \in 1..Len(epc) /\ Len(queue) \in Nat
  BY DEF Pending, Base, IInv, DeliveryOrder, TypeOK, ChainInv
<1>2. Sent(cur)
  BY <1>1 DEF Base, IInv, ChainInv, TypeOK
<1>3. enq[cur] \in live /\ obj[enq[cur]].closed
  BY <1>2 DEF Sent, Delivery, ReadyInv, Base, OwnerInv
<1>4. ~(ppc = "remake" /\ pb = enq[cur])
  BY DEF Base, OwnerInv, Filling
<1> QED
  BY <1>3, <1>4 DEF Delivery, ReadyInv

LEMMA ReadyStep ==
    ASSUME Base, TasksInv, Delivery, ~stale', [Next]_vars PROVE ReadyInv'
<1>0. /\ IInv /\ live \subseteq Batches /\ pb \in Batches /\ ReadyInv /\ pool \in Seq(Batches)
      /\ \A k \in Pending : enq'[k] = enq[k] /\ enq[k] \in live
      /\ \A i \in 1..Len(pool) : pool[i] \in live
  BY DeliveryTypes, PendingStep DEF Delivery, Base, OwnerInv
<1>1. CASE TakePooled
  <2>1. /\ pb' = pool[1] /\ pb' \in live /\ 1 \in 1..Len(pool) /\ obj'[pb'].remaining = 0
        /\ ~obj'[pb'].doneSending /\ ~obj'[pb'].readyClosed
        /\ \A c \in Batches : c # pb' => obj'[c] = obj[c]
    BY <1>1, RecycledBatch
  <2>2. /\ pool # <<>> /\ pool' = Tail(pool) /\ live' = live /\ epc' = epc /\ ppc = "take"
        /\ ppc' = "remake"
    BY <1>1 DEF TakePooled, enqVars
  <2>3. Pending' = Pending
    BY <1>0, <1>1, <2>2, PendingStep DEF TakePooled, SpawnEnqueuer, ReleaseBatch, consVars, Base
  <2>4. \A k \in Pending : enq[k] # pb'
    BY <2>1 DEF Base, OwnerInv
  <2>5. \A i \in 1..Len(pool') : pool'[i] = pool[i + 1] /\ i + 1 \in 1..Len(pool) /\ i + 1 # 1
    BY <1>0, <2>2
  <2>6. \A i \in 1..Len(pool') : obj'[pool'[i]].remaining = 0
    BY <1>0, <2>1, <2>5 DEF ReadyInv
  <2>7. \A b \in live' : obj'[b].readyClosed => obj'[b].doneSending /\ obj'[b].remaining = 0
    BY <1>0, <2>1, <2>2 DEF ReadyInv
  <2>8. \A b \in live' : obj'[b].closed => obj'[b].readyClosed \/ (ppc' = "remake" /\ pb' = b)
    BY <1>0, <2>1, <2>2 DEF ReadyInv
  <2>9. \A k \in Pending' : /\ obj'[enq'[k]].doneSending
                            /\ epc'[k] \in {"send", "sent", "done"} => obj'[enq'[k]].closed
    BY <1>0, <2>1, <2>2, <2>3, <2>4 DEF ReadyInv
  <2> QED
    BY <2>1, <2>2, <2>6, <2>7, <2>8, <2>9 DEF ReadyInv
<1>2. CASE RemakeReady
  <2>1. /\ pb \in live /\ ~obj'[pb].closed /\ obj'[pb].remaining = obj[pb].remaining
        /\ obj'[pb].doneSending = obj[pb].doneSending
        /\ obj'[pb].readyClosed = obj[pb].readyClosed
        /\ \A c \in Batches : c # pb => obj'[c] = obj[c]
    BY <1>2, RemadeBatch
  <2>2. /\ UNCHANGED <<pb, pool, live, epc>> /\ ppc = "remake" /\ ppc' # "spawn" /\ Filling
        /\ ppc' # "remake"
    BY <1>2 DEF RemakeReady, StartFilling, enqVars, Filling
  <2>3. Pending' = Pending
    BY <1>0, <1>2, <2>2, PendingStep DEF RemakeReady, SpawnEnqueuer, ReleaseBatch, consVars, Base
  <2>4. (\A k \in Pending : enq[k] # pb) /\ ~obj[pb].doneSending
    BY <1>0, <2>2 DEF Base, OwnerInv, ReadyInv
  <2>5. \A b \in live' : obj'[b].readyClosed => obj'[b].doneSending /\ obj'[b].remaining = 0
    BY <1>0, <2>1, <2>2 DEF ReadyInv
  <2>6. \A b \in live' : obj'[b].closed => obj'[b].readyClosed
    BY <1>0, <2>1, <2>2 DEF ReadyInv
  <2>7. \A k \in Pending' : /\ obj'[enq'[k]].doneSending
                            /\ epc'[k] \in {"send", "sent", "done"} => obj'[enq'[k]].closed
    BY <1>0, <2>1, <2>2, <2>3, <2>4 DEF ReadyInv
  <2>8. \A i \in 1..Len(pool') : obj'[pool'[i]].remaining = 0
    BY <1>0, <2>1, <2>2 DEF ReadyInv
  <2> QED
    BY <2>1, <2>2, <2>4, <2>5, <2>6, <2>7, <2>8 DEF ReadyInv
<1>3. CASE AllocateBatch
  <2>1. PICK u : /\ u \notin live /\ live' = live \cup {u} /\ pb' = u /\ ~obj'[u].closed
                 /\ ~obj'[u].doneSending /\ ~obj'[u].readyClosed
                 /\ \A c \in Batches : c # u => obj'[c] = obj[c]
    BY <1>3, NewBatchFields
  <2>2. UNCHANGED <<pool, epc>> /\ ppc = "take" /\ ppc' # "spawn"
    BY <1>3 DEF AllocateBatch, StartFilling, enqVars
  <2>3. Pending' = Pending
    BY <1>0, <1>3, <2>2, PendingStep DEF AllocateBatch, SpawnEnqueuer, ReleaseBatch, consVars, Base
  <2>4. \A b \in live : obj'[b] = obj[b]
    BY <1>0, <2>1
  <2>5. \A k \in Pending' : /\ obj'[enq'[k]].doneSending
                            /\ epc'[k] \in {"send", "sent", "done"} => obj'[enq'[k]].closed
    BY <1>0, <2>2, <2>3, <2>4 DEF ReadyInv
  <2>6. \A b \in live' : obj'[b].readyClosed => obj'[b].doneSending /\ obj'[b].remaining = 0
    BY <1>0, <2>1, <2>4 DEF ReadyInv
  <2>7. \A b \in live' : obj'[b].closed => obj'[b].readyClosed
    BY <1>0, <2>1, <2>2, <2>4 DEF ReadyInv
  <2>8. \A i \in 1..Len(pool') : obj'[pool'[i]].remaining = 0
    BY <1>0, <2>2, <2>4 DEF ReadyInv
  <2> QED
    BY <2>1, <2>2, <2>5, <2>6, <2>7, <2>8 DEF ReadyInv
<1>4. CASE CountTask \/ PutTask
  <2>1. /\ UNCHANGED <<pb, pool, live, enqVars, consVars>> /\ ppc \in {"send", "put"}
        /\ ppc' \in {"put", "page", "send", "flush", "exit"}
    BY <1>4 DEF CountTask, PutTask, Dispatch
  <2>2. Filling /\ ~obj[pb].doneSending /\ (\A i \in 1..Len(pool) : pool[i] # pb) /\ pb \in live
    BY <1>0, <2>1 DEF Base, OwnerInv, Filling, ReadyInv
  <2>3. ~obj[pb].readyClosed
    BY <1>0, <2>2 DEF ReadyInv
  <2>4. SameButRemaining(obj[pb], obj'[pb]) /\ \A c \in Batches : c # pb => obj'[c] = obj[c]
    BY <1>0, <1>4, <2>1, CountedBatch, CancelledBatch, PutTaskKinds DEF SameButRemaining, PutTask
  <2>5. Pending' = Pending
    BY <1>0, <2>1, <1>4, PendingStep DEF SpawnEnqueuer, ReleaseBatch, consVars, Base, CountTask, PutTask
  <2>6. \A b \in live : /\ obj'[b].doneSending = obj[b].doneSending
                        /\ obj'[b].readyClosed = obj[b].readyClosed
                        /\ obj'[b].closed = obj[b].closed
                        /\ obj[b].readyClosed => obj'[b].remaining = 0
    BY <1>0, <2>3, <2>4 DEF SameButRemaining, ReadyInv
  <2>7. \A i \in 1..Len(pool) : obj'[pool[i]].remaining = 0
    BY <1>0, <2>2, <2>4 DEF ReadyInv
  <2> QED
    BY <1>0, <2>1, <2>2, <2>5, <2>6, <2>7, ReadyKept DEF enqVars
<1>5. CASE FinishBatch
  <2>1. /\ UNCHANGED <<pb, pool, live, enqVars, consVars>> /\ ppc = "flush" /\ ppc' = "spawn"
    BY <1>5 DEF FinishBatch
  <2>2. Filling /\ ~obj[pb].doneSending /\ (\A i \in 1..Len(pool) : pool[i] # pb) /\ pb \in live
        /\ \A k \in Pending : enq[k] # pb
    BY <1>0, <2>1 DEF Base, OwnerInv, Filling, ReadyInv
  <2>3. ~obj[pb].readyClosed /\ ~obj[pb].closed
    BY <1>0, <2>1, <2>2 DEF ReadyInv
  <2>4. /\ obj'[pb].doneSending /\ obj'[pb].closed = obj[pb].closed
        /\ obj'[pb].readyClosed = obj[pb].readyClosed
        /\ \A c \in Batches : c # pb => obj'[c] = obj[c]
    BY <1>5, FinishedBatch
  <2>5. Pending' = Pending
    BY <1>0, <2>1, <1>5, PendingStep DEF SpawnEnqueuer, ReleaseBatch, consVars, Base, FinishBatch
  <2>6. \A b \in live' : obj'[b].readyClosed => obj'[b].doneSending /\ obj'[b].remaining = 0
    BY <1>0, <2>1, <2>3, <2>4 DEF ReadyInv
  <2>7. \A b \in live' : obj'[b].closed => obj'[b].readyClosed
    BY <1>0, <2>1, <2>3, <2>4 DEF ReadyInv
  <2>8. \A k \in Pending' : /\ obj'[enq'[k]].doneSending
                            /\ epc'[k] \in {"send", "sent", "done"} => obj'[enq'[k]].closed
    BY <1>0, <2>1, <2>2, <2>4, <2>5 DEF ReadyInv, enqVars
  <2>9. \A i \in 1..Len(pool') : obj'[pool'[i]].remaining = 0
    BY <1>0, <2>1, <2>2, <2>4 DEF ReadyInv
  <2> QED
    BY <2>1, <2>4, <2>6, <2>7, <2>8, <2>9 DEF ReadyInv
<1>6. CASE SpawnEnqueuer
  <2>1. /\ UNCHANGED <<pb, pool, live, consVars>> /\ ppc = "spawn" /\ ~Filling' /\ ppc' # "remake"
        /\ epc' = Append(epc, "prev") /\ (MarkReady(pb) \/ obj' = obj)
        /\ (obj' # obj => obj[pb].remaining = 0)
    BY <1>6 DEF SpawnEnqueuer, Filling, SignalIfDone
  <2>2. Filling /\ obj[pb].doneSending /\ (\A i \in 1..Len(pool) : pool[i] # pb) /\ pb \in live
    BY <1>0, <2>1 DEF Base, OwnerInv, Filling, ReadyInv
  <2>3. /\ \A b \in live : /\ obj'[b].doneSending = obj[b].doneSending
                           /\ obj'[b].remaining = obj[b].remaining
                           /\ obj[b].closed => obj'[b].closed
        /\ \A b \in live : b # pb => obj'[b] = obj[b]
        /\ obj'[pb].readyClosed => obj[pb].readyClosed \/ obj[pb].remaining = 0
        /\ obj'[pb].closed => obj[pb].closed \/ obj'[pb].readyClosed
        /\ obj[pb].readyClosed => obj'[pb].readyClosed
    BY <1>0, <2>1, SignalledBatch
  <2>4. Pending' = Pending \cup {Len(enq) + 1} /\ enq'[Len(enq) + 1] = pb
    BY <1>0, <1>6, PendingStep DEF Base
  <2>5. epc'[Len(enq) + 1] = "prev" /\ \A k \in Pending : epc'[k] = epc[k]
    BY <1>0, <2>1 DEF IInv, TypeOK, ChainInv, Pending
  <2>6. \A b \in live' : obj'[b].readyClosed => obj'[b].doneSending /\ obj'[b].remaining = 0
    BY <1>0, <2>1, <2>2, <2>3 DEF ReadyInv
  <2>7. \A b \in live' : obj'[b].closed => obj'[b].readyClosed
    BY <1>0, <2>1, <2>3 DEF ReadyInv
  <2>8. \A k \in Pending' : /\ obj'[enq'[k]].doneSending
                            /\ epc'[k] \in {"send", "sent", "done"} => obj'[enq'[k]].closed
    BY <1>0, <2>2, <2>3, <2>4, <2>5 DEF ReadyInv
  <2>9. \A i \in 1..Len(pool') : obj'[pool'[i]].remaining = 0
    BY <1>0, <2>1, <2>3 DEF ReadyInv
  <2> QED
    BY <2>1, <2>6, <2>7, <2>8, <2>9 DEF ReadyInv
<1>7. CASE ReleaseBatch
  <2>1. /\ UNCHANGED <<pb, live, obj, ppc, epc>> /\ cpc = "recycle" /\ pool' = Append(pool, enq[cur])
    BY <1>7 DEF ReleaseBatch, prodVars, enqVars
  <2>2. Pending' = Pending \ {cur} /\ cur \in Pending
    BY <1>0, <1>7, PendingStep DEF Base
  <2>3. obj[enq[cur]].remaining = 0 /\ enq[cur] \in Batches
    BY <1>0, <2>1, <2>2, ReleasedReady
  <2>4. \A i \in 1..Len(pool') : pool'[i] = enq[cur] \/ \E j \in 1..Len(pool) : pool'[i] = pool[j]
    BY <1>0, <2>1, <2>3
  <2> QED
    BY <1>0, <2>1, <2>2, <2>3, <2>4 DEF ReadyInv, Filling
<1>8. CASE FinishClose
  <2>1. UNCHANGED <<pb, live, obj, ppc, epc>> /\ pool' = <<>> /\ 1..Len(pool') = {}
    BY <1>8 DEF FinishClose, prodVars, enqVars
  <2>2. Pending' = Pending
    BY <1>0, <1>8, <2>1, PendingStep DEF FinishClose, ReleaseBatch, SpawnEnqueuer, Base
  <2> QED
    BY <1>0, <2>1, <2>2 DEF ReadyInv, Filling
<1>9. ASSUME NEW w \in Workers, Worker(w) PROVE ReadyInv'
  <2>1. UNCHANGED <<pb, pool, live, ppc, enqVars, consVars>>
    BY <1>9 DEF Worker, ReceiveTask, WorkerExit, ProcessTask, CountDone, LoadSending,
       LoadRemaining, SignalReady, prodVars
  <2>2. Pending' = Pending
    BY <2>1 DEF Pending, enqVars, consVars
  <2>3. ASSUME \A b \in live : /\ obj'[b].doneSending = obj[b].doneSending
                               /\ obj'[b].readyClosed = obj[b].readyClosed
                               /\ obj'[b].closed = obj[b].closed
                               /\ obj[b].readyClosed => obj'[b].remaining = 0,
               \A i \in 1..Len(pool) : obj'[pool[i]].remaining = 0
        PROVE  ReadyInv'
    <3>1. /\ pool' = pool /\ pb' = pb /\ live' = live /\ ppc' = ppc /\ epc' = epc
          /\ Filling' = Filling
      BY <2>1 DEF enqVars, Filling
    <3>2. Filling' => Filling /\ (ppc' = "spawn" <=> ppc = "spawn")
      BY <3>1
    <3>3. \A k \in Pending : epc'[k] \in {"send", "sent", "done"} =>
             epc[k] \in {"send", "sent", "done"} \/ obj[enq[k]].closed
      BY <3>1
    <3>4. ppc = "remake" => ppc' = "remake"
      BY <3>1
    <3>5. \A k \in Pending : enq'[k] = enq[k]
      BY <1>0
    <3> QED
      BY <1>0, <2>2, <2>3, <3>1, <3>2, <3>3, <3>4, <3>5, ReadyKept
  <2>4. CASE ProcessTask(w)
    <3>1. \A b \in live : /\ obj'[b].doneSending = obj[b].doneSending
                          /\ obj'[b].readyClosed = obj[b].readyClosed
                          /\ obj'[b].closed = obj[b].closed /\ obj'[b].remaining = obj[b].remaining
      BY <1>0, <2>4, ProcessedBatch
    <3> QED
      BY <1>0, <2>3, <3>1 DEF ReadyInv
  <2>5. CASE CountDone(w)
    <3>1. /\ wtask[w].batch \in live /\ ~obj[wtask[w].batch].readyClosed
          /\ \A i \in 1..Len(pool) : pool[i] # wtask[w].batch
      BY <2>5, NotReadyYet DEF CountDone
    <3>2. /\ SameButRemaining(obj[wtask[w].batch], obj'[wtask[w].batch])
          /\ \A c \in Batches : c # wtask[w].batch => obj'[c] = obj[c]
      BY <1>0, <2>5, CountedDownBatch
    <3> QED
      BY <1>0, <2>3, <3>1, <3>2 DEF ReadyInv, SameButRemaining
  <2>6. CASE SignalReady(w)
    <3>1. PICK b \in live :
             /\ MarkReady(b)
             /\ ~obj[b].readyClosed => obj[b].doneSending /\ obj[b].remaining = 0
      BY <2>6, SignalledTimely DEF SignalReady
    <3>5. b \in Batches /\ IInv /\ MarkReady(b)
      BY <1>0, <3>1
    <3>2. /\ obj'[b].readyClosed /\ (obj[b].readyClosed => obj' = obj)
          /\ obj'[b].remaining = obj[b].remaining /\ obj'[b].doneSending = obj[b].doneSending
          /\ \A c \in Batches : c # b => obj'[c] = obj[c]
          /\ ~obj[b].readyClosed => obj'[b].closed
      BY <3>5, SignalledBatch
    <3>3. CASE obj[b].readyClosed
      BY <1>0, <2>3, <3>2, <3>3 DEF ReadyInv
    <3>4. CASE ~obj[b].readyClosed
      <4>1. \A c \in live' : obj'[c].readyClosed => obj'[c].doneSending /\ obj'[c].remaining = 0
        BY <1>0, <2>1, <3>1, <3>2, <3>4 DEF ReadyInv
      <4>2. \A c \in live' : obj'[c].closed => obj'[c].readyClosed \/ (ppc' = "remake" /\ pb' = c)
        BY <1>0, <2>1, <3>2 DEF ReadyInv
      <4>3. Filling' => (obj'[pb'].doneSending <=> ppc' = "spawn")
        BY <1>0, <2>1, <3>2 DEF ReadyInv, Filling
      <4>4. \A k \in Pending' : /\ obj'[enq'[k]].doneSending
                                /\ epc'[k] \in {"send", "sent", "done"} => obj'[enq'[k]].closed
        BY <1>0, <2>1, <2>2, <3>2, <3>4 DEF ReadyInv, enqVars
      <4>5. \A i \in 1..Len(pool') : obj'[pool'[i]].remaining = 0
        BY <1>0, <2>1, <3>2 DEF ReadyInv
      <4> QED
        BY <1>0, <2>1, <4>1, <4>2, <4>3, <4>4, <4>5 DEF ReadyInv
    <3> QED
      BY <3>3, <3>4
  <2>7. CASE obj' = obj
    BY <1>0, <2>3, <2>7 DEF ReadyInv
  <2> QED
    BY <1>9, <2>4, <2>5, <2>6, <2>7 DEF Worker, ReceiveTask, WorkerExit, LoadSending, LoadRemaining
<1>10. CASE /\ ~TakePooled /\ ~RemakeReady /\ ~AllocateBatch /\ ~CountTask /\ ~PutTask
            /\ ~FinishBatch /\ ~SpawnEnqueuer /\ ~ReleaseBatch /\ ~FinishClose
            /\ \A w \in Workers : ~Worker(w)
  <2>1. obj' = obj /\ live' = live /\ pb' = pb /\ Pending' = Pending
    BY <1>0, <1>10, BatchesKept, PendingStep DEF Worker, Base
  <2>2. /\ pool' = pool
        /\ ppc' = ppc \/ ~Filling' \/ (ppc \in {"page"} /\ ppc' \in {"page", "send", "flush"})
        /\ ppc = "remake" => ppc' = "remake"
    BY <1>10 DEF Next, vars, prodVars, Producer, AcquireSlot, ReadPage, AfterLastPage, Dispatch,
       EnqueueEOF, ProducerExit, Enqueuer, AwaitPrev, AwaitReady, HandOver, ReleaseNext, GiveUp,
       Consumer, NextRow, CallNext, ReleaseSlot, ReceiveBatch, ScanRow, CallClose, Filling
  <2>3. Filling' => Filling /\ (ppc' = "spawn" <=> ppc = "spawn")
    BY <2>2 DEF Filling
  <2>4. ASSUME NEW k \in Pending
        PROVE epc'[k] \in {"send", "sent", "done"} =>
              epc[k] \in {"send", "sent", "done"} \/ obj[enq[k]].closed
    <3>1. k \in 1..Len(epc) /\ enq[k] # EOF /\ epc \in Seq({"prev", "ready", "send", "sent", "done", "dead"})
      BY <1>0 DEF Pending, IInv, ChainInv, TypeOK
    <3>2. ASSUME NEW j \in 1..Len(epc), Enqueuer(j)
          PROVE epc'[k] \in {"send", "sent", "done"} =>
              epc[k] \in {"send", "sent", "done"} \/ obj[enq[k]].closed
      BY <3>1, <3>2 DEF Enqueuer, AwaitPrev, AwaitReady, HandOver, ReleaseNext, GiveUp
    <3>3. ASSUME EnqueueEOF PROVE epc'[k] = epc[k]
      BY <3>1, <3>3 DEF EnqueueEOF
    <3>4. ASSUME ~EnqueueEOF, \A j \in 1..Len(epc) : ~Enqueuer(j) PROVE epc' = epc
      BY <1>10, <3>4 DEF Next, vars, enqVars, Producer, AcquireSlot, ReadPage, ProducerExit,
         Consumer, NextRow, CallNext, ReleaseSlot, ReceiveBatch, ScanRow, CallClose
    <3> QED
      BY <3>2, <3>3, <3>4
  <2>5. \A i \in 1..Len(pool) : obj'[pool[i]].remaining = 0
    BY <1>0, <2>1 DEF ReadyInv
  <2>6. \A b \in live : obj[b].readyClosed => obj'[b].remaining = 0
    BY <1>0, <2>1 DEF ReadyInv
  <2> QED
    BY <1>0, <2>1, <2>2, <2>3, <2>4, <2>5, <2>6, ReadyKept
<1> QED
  BY <1>1, <1>2, <1>3, <1>4, <1>5, <1>6, <1>7, <1>8, <1>9, <1>10
------------------------------------------------------------------------------
(* What a worker has read *)

\* A batch that is done stays so until it is recycled.
LEMMA DoneKept ==
    ASSUME Base, TasksInv, Delivery, [Next]_vars, NEW b \in live, obj[b].doneSending,
           obj'[b].gen = obj[b].gen
    PROVE  obj'[b].doneSending /\ (obj[b].remaining = 0 => obj'[b].remaining = 0)
<1>0. /\ IInv /\ live \subseteq Batches /\ b \in Batches /\ pb \in Batches
      /\ obj[b].gen \in Nat /\ ReadyInv
  BY GenStep, DeliveryTypes DEF Delivery, Base
<1>1. CASE TakePooled
  <2>1. b # pb'
    BY <1>0, <1>1, RecycledBatch
  <2> QED
    BY <1>0, <1>1, <2>1, RecycledBatch
<1>2. CASE RemakeReady
  BY <1>0, <1>2, RemadeBatch
<1>3. CASE AllocateBatch
  BY <1>0, <1>3, NewBatchFields
<1>4. CASE CountTask \/ PutTask
  <2>1. ppc \in {"send", "put"} /\ ~obj[pb].doneSending
    BY <1>0, <1>4 DEF CountTask, PutTask, Filling, ReadyInv
  <2> QED
    BY <1>0, <1>4, <2>1, CountedBatch, CancelledBatch, PutTaskKinds DEF PutTask
<1>5. CASE FinishBatch
  BY <1>0, <1>5, FinishedBatch
<1>6. CASE SpawnEnqueuer
  BY <1>0, <1>6, SignalledBatch DEF SpawnEnqueuer, SignalIfDone
<1>7. ASSUME NEW w \in Workers, ProcessTask(w)
      PROVE  obj'[b].doneSending = obj[b].doneSending /\ obj'[b].remaining = obj[b].remaining
  BY <1>0, <1>7, ProcessedBatch
<1>8. ASSUME NEW w \in Workers, CountDone(w)
      PROVE  obj'[b].doneSending = obj[b].doneSending /\ (obj[b].remaining = 0 => obj'[b].remaining = 0)
  <2>1. wtask[w].batch = b => w \in WorkersOn(b)
    BY <1>8 DEF WorkersOn, CountDone
  <2>2. obj[b].remaining = 0 => wtask[w].batch # b
    BY <1>0, <2>1, Outstanding DEF Delivery
  <2> QED
    BY <1>0, <1>8, <2>2, CountedDownBatch DEF SameButRemaining
<1>9. ASSUME NEW w \in Workers, SignalReady(w)
      PROVE  obj'[b].doneSending = obj[b].doneSending /\ obj'[b].remaining = obj[b].remaining
  <2>1. wtask[w].batch \in Batches /\ MarkReady(wtask[w].batch)
    BY <1>0, <1>9, TaskOfWorker DEF SignalReady
  <2> QED
    BY <1>0, <2>1, SignalledBatch, ZenonT(30)
<1> QED
  BY <1>0, <1>1, <1>2, <1>3, <1>4, <1>5, <1>6, <1>7, <1>8, <1>9, BatchesKept

LEMMA SignalStep ==
    ASSUME Base, TasksInv, Delivery, [Next]_vars PROVE SignalInv'
<1>0. /\ IInv /\ SignalInv
      /\ wpc \in [Workers -> {"recv", "work", "count", "sending", "remaining", "mark", "exit"}]
      /\ wtask \in [Workers -> Task \cup {NoTask}]
  BY DEF Base, Delivery, IInv, TypeOK
<1> DEFINE Good(v, l, t, o) ==
              /\ (l \in {"remaining", "mark"} /\ o[t.batch].gen = t.gen) => o[t.batch].doneSending
              /\ (l = "mark" /\ o[t.batch].gen = t.gen) => o[t.batch].remaining = 0
<1>1. \A v \in Workers : Good(v, wpc[v], wtask[v], obj)
  BY <1>0 DEF SignalInv, Current
\* A worker that does not move.
<1>2. ASSUME NEW v \in Workers, wpc'[v] = wpc[v], wtask'[v] = wtask[v]
      PROVE  Good(v, wpc'[v], wtask'[v], obj')
  <2>1. CASE wpc[v] \in {"remaining", "mark"} /\ obj'[wtask[v].batch].gen = wtask[v].gen
    <3>1. /\ wtask[v].batch \in live /\ wtask[v].gen \in Nat
          /\ wtask[v].gen <= obj[wtask[v].batch].gen
      BY <2>1, TaskOfWorker, <1>0 DEF TasksInv, TaskInv, Task
    <3>2. obj'[wtask[v].batch].gen = obj[wtask[v].batch].gen
      <4>1. /\ obj[wtask[v].batch].gen \in Nat
            /\ obj[wtask[v].batch].gen <= obj'[wtask[v].batch].gen
        BY <3>1, GenStep
      <4> QED
        BY <2>1, <3>1, <4>1
    <3>3. obj[wtask[v].batch].doneSending /\ (wpc[v] = "mark" => obj[wtask[v].batch].remaining = 0)
      BY <1>1, <2>1, <3>2
    <3> QED
      BY <1>2, <3>1, <3>2, <3>3, DoneKept
  <2> QED
    BY <1>2, <2>1
\* The worker that moves.
<1>3. ASSUME NEW w \in Workers, Worker(w) PROVE Good(w, wpc'[w], wtask'[w], obj')
  <2>1. CASE LoadSending(w)
    BY <1>0, <2>1 DEF LoadSending, Goto, SendingDone, workVars
  <2>2. CASE LoadRemaining(w)
    BY <1>0, <1>1, <2>2 DEF LoadRemaining, Goto, workVars
  <2>3. CASE ~LoadSending(w) /\ ~LoadRemaining(w)
    <3>1. wpc'[w] \notin {"remaining", "mark"}
      BY <1>0, <1>3, <2>3 DEF Worker, ReceiveTask, WorkerExit, ProcessTask, CountDone, SignalReady,
         Goto
    <3> QED
      BY <3>1
  <2> QED
    BY <2>1, <2>2, <2>3
<1>4. ASSUME NEW w \in Workers, Worker(w), NEW v \in Workers, v # w
      PROVE  wpc'[v] = wpc[v] /\ wtask'[v] = wtask[v]
  BY <1>0, <1>4 DEF Worker, ReceiveTask, WorkerExit, ProcessTask, CountDone, LoadSending,
     LoadRemaining, SignalReady, Goto
<1>5. ASSUME \A w \in Workers : ~Worker(w) PROVE wpc' = wpc /\ wtask' = wtask
  BY <1>5 DEF Next, vars, workVars, Producer, AcquireSlot, TakePooled, RemakeReady, AllocateBatch,
     ReadPage, CountTask, PutTask, FinishBatch, SpawnEnqueuer, EnqueueEOF, ProducerExit, Enqueuer,
     AwaitPrev, AwaitReady, HandOver, ReleaseNext, GiveUp, Consumer, NextRow, CallNext,
     ReleaseBatch, ReleaseSlot, ReceiveBatch, ScanRow, CallClose, FinishClose
<1> HIDE DEF Good
<1>6. \A v \in Workers : Good(v, wpc'[v], wtask'[v], obj')
  BY <1>2, <1>3, <1>4, <1>5
<1> QED
  BY <1>6 DEF Good, SignalInv, Current

\* No channel is closed twice.
LEMMA NoPanicStep ==
    ASSUME Base, TasksInv, Delivery, ~stale', [Next]_vars PROVE ~panicked'
<1>0. IInv /\ ~panicked /\ pb \in Batches /\ live \subseteq Batches
  BY DeliveryTypes DEF Delivery
<1>1. CASE SpawnEnqueuer
  <2>1. pb \in live /\ obj[pb].doneSending
    BY <1>1 DEF SpawnEnqueuer, Base, OwnerInv, Filling, Delivery, ReadyInv
  <2> QED
    BY <1>0, <1>1, <2>1, SignalledBatch, SignalledOpen DEF SpawnEnqueuer, SignalIfDone
<1>2. ASSUME NEW w \in Workers, SignalReady(w) PROVE ~panicked'
  <2>1. /\ wtask[w].batch \in Batches /\ MarkReady(wtask[w].batch)
        /\ ~obj[wtask[w].batch].readyClosed => ~obj[wtask[w].batch].closed
    BY <1>0, <1>2, SignalledTimely DEF SignalReady
  <2> QED
    BY <1>0, <2>1, SignalledBatch
<1>3. CASE ~SpawnEnqueuer /\ \A w \in Workers : ~SignalReady(w)
  <2>1. panicked' = panicked
    BY <1>3 DEF Next, vars, histVars, Producer, AcquireSlot, TakePooled, RemakeReady, AllocateBatch,
       ReadPage, CountTask, PutTask, FinishBatch, EnqueueEOF, ProducerExit, Enqueuer, AwaitPrev,
       AwaitReady, HandOver, ReleaseNext, GiveUp, Worker, ReceiveTask, WorkerExit, ProcessTask,
       CountDone, LoadSending, LoadRemaining, Consumer, NextRow, CallNext, ReleaseBatch,
       ReleaseSlot, ReceiveBatch, ScanRow, CallClose, FinishClose
  <2> QED
    BY <1>0, <2>1
<1> QED
  BY <1>1, <1>2, <1>3
------------------------------------------------------------------------------
(* The rows of a batch *)

\* What processTask leaves in a row slot of its task is never what was there before.
LEMMA DecodedNew ==
    ASSUME NEW p \in Nat \ {0}, NEW k PROVE Decoded(p, k) # Leftover
<1>1. <<p, k>> # Leftover /\ NoRow # Leftover
  BY DEF Leftover, NoRow
<1> QED
  BY <1>1 DEF Decoded

\* The length of a batch is set by FinishBatch alone, and a row slot that was written
\* never gets what it had at first.
LEMMA BatchContents ==
    ASSUME Base, TasksInv, [Next]_vars, NEW b \in live
    PROVE  /\ obj'[b].n = obj[b].n \/ (FinishBatch /\ b = pb)
           /\ \A i \in 1..BatchRows : obj[b].rows[i] # Leftover => obj'[b].rows[i] # Leftover
<1>0. /\ IInv /\ live \subseteq Batches /\ b \in Batches /\ pb \in Batches
  BY DeliveryTypes
<1>1. CASE TakePooled
  <2>1. pb' \in Batches /\ pb' = Head(pool) /\ SetBatch(pb', Recycled(obj[pb']))
    BY <1>0, <1>1, RecycledBatch DEF TakePooled
  <2>2. obj'[pb'] = Recycled(obj[pb']) /\ \A c \in Batches : c # pb' => obj'[c] = obj[c]
    BY <1>0, <2>1, Stored
  <2> QED
    BY <1>0, <2>2 DEF Recycled
<1>2. CASE RemakeReady
  BY <1>0, <1>2, RemadeBatch
<1>3. CASE AllocateBatch
  BY <1>0, <1>3, NewBatchFields
<1>4. CASE CountTask \/ PutTask
  BY <1>0, <1>4, CountedBatch, CancelledBatch, PutTaskKinds DEF PutTask, SameButRemaining
<1>5. CASE FinishBatch
  BY <1>0, <1>5, FinishedBatch
<1>6. CASE SpawnEnqueuer
  BY <1>0, <1>6, SignalledBatch DEF SpawnEnqueuer, SignalIfDone
<1>7. ASSUME NEW w \in Workers, ProcessTask(w)
      PROVE  /\ obj'[b].n = obj[b].n
             /\ \A i \in 1..BatchRows : obj[b].rows[i] # Leftover => obj'[b].rows[i] # Leftover
  <2>1. wtask[w] \in Task /\ TaskInv(wtask[w])
    BY <1>0, <1>7, TaskOfWorker DEF ProcessTask, TasksInv
  <2>2. wtask[w].page \in Nat \ {0}
    BY <2>1 DEF Task, TaskInv
  <2>3. \A k : Decoded(wtask[w].page, k) # Leftover
    BY <2>2, DecodedNew
  <2>4. \A i \in 1..BatchRows :
           obj[wtask[w].batch].rows[i] # Leftover => RowsAfter(wtask[w])[i] # Leftover
    BY <2>3 DEF RowsAfter
  <2> QED
    BY <1>0, <1>7, <2>4, ProcessedBatch
<1>8. ASSUME NEW w \in Workers, CountDone(w)
      PROVE  obj'[b].n = obj[b].n /\ obj'[b].rows = obj[b].rows
  BY <1>0, <1>8, CountedDownBatch DEF SameButRemaining
<1>9. ASSUME NEW w \in Workers, SignalReady(w)
      PROVE  obj'[b].n = obj[b].n /\ obj'[b].rows = obj[b].rows
  <2>1. wtask[w].batch \in Batches /\ MarkReady(wtask[w].batch)
    BY <1>0, <1>9, TaskOfWorker DEF SignalReady
  <2> QED
    BY <1>0, <2>1, SignalledBatch
<1> QED
  BY <1>0, <1>1, <1>2, <1>3, <1>4, <1>5, <1>6, <1>7, <1>8, <1>9, BatchesKept

LEMMA WrittenKept ==
    ASSUME Base, TasksInv, [Next]_vars, NEW b \in live, NEW i \in 1..BatchRows, Written(b, i)
    PROVE  Written(b, i)'
<1>0. /\ IInv /\ tasks \in Seq(Task)
      /\ wpc \in [Workers -> {"recv", "work", "count", "sending", "remaining", "mark", "exit"}]
      /\ wtask \in [Workers -> Task \cup {NoTask}]
  BY DEF Base, IInv, TypeOK
<1>1. CASE obj[b].rows[i] # Leftover
  BY <1>1, BatchContents DEF Written
<1>2. ASSUME NEW j \in 1..Len(tasks), Covers(tasks[j], b, i) PROVE Written(b, i)'
  <2>1. ASSUME NEW w \in Workers, ReceiveTask(w) PROVE Written(b, i)'
    <3>1. tasks # <<>> /\ tasks' = Tail(tasks) /\ wpc'[w] = "work" /\ wtask'[w] = tasks[1]
      BY <1>0, <2>1 DEF ReceiveTask, Goto
    <3>2. CASE j = 1
      BY <1>2, <3>1, <3>2 DEF Written, Covers
    <3>3. CASE j # 1
      <4>1. j - 1 \in 1..Len(tasks') /\ tasks'[j - 1] = tasks[j]
        BY <1>0, <3>1, <3>3
      <4> QED
        BY <1>2, <4>1 DEF Written, Covers
    <3> QED
      BY <3>2, <3>3
  <2>2. ASSUME NEW t \in Task, tasks' = Append(tasks, t) PROVE Written(b, i)'
    <3>1. j \in 1..Len(tasks') /\ tasks'[j] = tasks[j]
      BY <1>0, <2>2
    <3> QED
      BY <1>2, <3>1 DEF Written, Covers
  <2>3. CASE tasks' = tasks
    BY <1>2, <2>3 DEF Written, Covers
  <2>4. CASE \A w \in Workers : ~ReceiveTask(w)
    <3>1. ~PutTask => tasks' = tasks
      BY <2>4 DEF Next, vars, Producer, AcquireSlot, TakePooled, RemakeReady, AllocateBatch,
         ReadPage, CountTask, FinishBatch, SpawnEnqueuer, EnqueueEOF, ProducerExit, Enqueuer,
         AwaitPrev, AwaitReady, HandOver, ReleaseNext, GiveUp, Worker, WorkerExit, ProcessTask,
         CountDone, LoadSending, LoadRemaining, SignalReady, Consumer, NextRow, CallNext,
         ReleaseBatch, ReleaseSlot, ReceiveBatch, ScanRow, CallClose, FinishClose
    <3> QED
      BY <1>0, <2>2, <2>3, <3>1, PutTaskKinds
  <2> QED
    BY <2>1, <2>4
<1>3. ASSUME NEW w \in Workers, wpc[w] = "work", Covers(wtask[w], b, i) PROVE Written(b, i)'
  <2>1. CASE ProcessTask(w)
    <3>1. wtask[w] \in Task /\ TaskInv(wtask[w])
      BY <1>0, <2>1, TaskOfWorker DEF ProcessTask, TasksInv
    <3>2. wtask[w].page \in Nat \ {0}
      BY <3>1 DEF Task, TaskInv
    <3>3. RowsAfter(wtask[w])[i] # Leftover
      BY <1>3, <3>2, DecodedNew DEF RowsAfter, Covers
    <3>4. obj'[b].rows[i] = RowsAfter(wtask[w])[i]
      BY <1>0, <1>3, <2>1, ProcessedBatch DEF Covers
    <3> QED
      BY <3>3, <3>4 DEF Written
  <2>2. CASE ~ProcessTask(w)
    <3>1. ~Worker(w)
      BY <1>3, <2>2 DEF Worker, ReceiveTask, WorkerExit, CountDone, LoadSending, LoadRemaining,
         SignalReady
    <3>2. ASSUME NEW v \in Workers, Worker(v) PROVE wpc'[w] = wpc[w] /\ wtask'[w] = wtask[w]
      BY <1>0, <3>1, <3>2 DEF Worker, ReceiveTask, WorkerExit, ProcessTask, CountDone, LoadSending,
         LoadRemaining, SignalReady, Goto
    <3>3. ASSUME \A v \in Workers : ~Worker(v) PROVE wpc' = wpc /\ wtask' = wtask
      BY <3>3 DEF Next, vars, workVars, Producer, AcquireSlot, TakePooled, RemakeReady,
         AllocateBatch, ReadPage, CountTask, PutTask, FinishBatch, SpawnEnqueuer, EnqueueEOF,
         ProducerExit, Enqueuer, AwaitPrev, AwaitReady, HandOver, ReleaseNext, GiveUp, Consumer,
         NextRow, CallNext, ReleaseBatch, ReleaseSlot, ReceiveBatch, ScanRow, CallClose, FinishClose
    <3>4. wpc'[w] = "work" /\ wtask'[w] = wtask[w]
      BY <1>3, <3>2, <3>3
    <3> QED
      BY <1>3, <3>4 DEF Written, Covers
  <2> QED
    BY <2>1, <2>2
<1> QED
  BY <1>1, <1>2, <1>3 DEF Written

LEMMA RowsStep ==
    ASSUME Base, TasksInv, Delivery, [Next]_vars PROVE RowsInv'
<1>0. /\ IInv /\ FillInv /\ live \subseteq Batches /\ pb \in Batches /\ RowsInv
      /\ (Filling => pb \in live) /\ fill \in Nat /\ fill <= BatchRows /\ BatchRows \in Nat
      /\ \A k \in Pending : enq'[k] = enq[k] /\ enq[k] \in live
      /\ \A b \in live : obj[b].n \in Nat
  BY DeliveryTypes, PendingStep, FastScanAssumption
  DEF Delivery, Base, OwnerInv, FillInv, BatchFields
<1>1. \A b \in live : \A i \in 1..BatchRows : Written(b, i) => Written(b, i)'
  BY WrittenKept
\* The batch that is being filled.
<1> DEFINE F(p) == p \in {"page", "send", "put", "flush", "spawn"}
<1>2. ASSUME UNCHANGED <<fill, pb>>, F(ppc') => F(ppc)
      PROVE  F(ppc') => \A i \in 1..fill' : Written(pb, i)'
  <2> SUFFICES ASSUME F(ppc'), NEW i \in 1..fill' PROVE Written(pb, i)'
    OBVIOUS
  <2>1. pb \in live /\ i \in 1..fill /\ i \in 1..BatchRows
    BY <1>0, <1>2 DEF Filling
  <2>2. Written(pb, i)
    BY <1>0, <1>2, <2>1 DEF RowsInv
  <2>3. \A b \in live : b = pb' => (Written(b, i)' => Written(pb, i)')
    BY DEF Written, Covers
  <2> QED
    BY <1>1, <1>2, <2>1, <2>2, <2>3
<1>3. F(ppc') => \A i \in 1..fill' : Written(pb, i)'
  <2>1. CASE RemakeReady \/ AllocateBatch
    BY <2>1 DEF RemakeReady, AllocateBatch, StartFilling
  <2>2. CASE PutTask
    <3>1. CASE UNCHANGED fill
      BY <1>2, <2>2, <3>1 DEF PutTask
    <3>2. ASSUME NEW t \in Task, tasks' = Append(tasks, t), t.batch = pb, t.slot = fill,
                 fill' = fill + t.n, NEW i \in 1..fill'
          PROVE  Written(pb, i)'
      <4>1. pb' = pb /\ pb \in live /\ F(ppc) /\ tasks \in Seq(Task) /\ t.n \in Nat
        BY <1>0, <2>2 DEF PutTask, Filling, IInv, TypeOK, Task
      <4>2. CASE i <= fill
        <5>1. Written(pb, i) /\ i \in 1..BatchRows
          BY <1>0, <3>2, <4>1, <4>2 DEF RowsInv
        <5>2. \A b \in live : b = pb' => (Written(b, i)' => Written(pb, i)')
          BY DEF Written, Covers
        <5> QED
          BY <1>1, <4>1, <5>1, <5>2
      <4>3. CASE ~(i <= fill)
        <5>1. i \in (t.slot + 1)..(t.slot + t.n)
          BY <1>0, <3>2, <4>1, <4>3
        <5>2. Len(tasks) + 1 \in 1..Len(tasks') /\ tasks'[Len(tasks) + 1] = t
          BY <3>2, <4>1
        <5> QED
          BY <3>2, <4>1, <5>1, <5>2 DEF Written, Covers
      <4> QED
        BY <4>2, <4>3
    <3> QED
      BY <1>0, <2>2, <3>1, <3>2, PutTaskKinds
  <2>3. CASE ~RemakeReady /\ ~AllocateBatch /\ ~PutTask
    <3>1. (F(ppc') => F(ppc)) /\ fill' = fill
      BY <2>3 DEF Next, vars, prodVars, Producer, AcquireSlot, TakePooled, ReadPage, AfterLastPage,
         Dispatch, CountTask, FinishBatch, SpawnEnqueuer, EnqueueEOF, ProducerExit, Enqueuer,
         AwaitPrev, AwaitReady, HandOver, ReleaseNext, GiveUp, Worker, ReceiveTask, WorkerExit,
         ProcessTask, CountDone, LoadSending, LoadRemaining, SignalReady, Consumer, NextRow,
         CallNext, ReleaseBatch, ReleaseSlot, ReceiveBatch, ScanRow, CallClose, FinishClose
    <3>2. F(ppc') => pb' = pb
      BY <2>3 DEF Next, vars, prodVars, Producer, AcquireSlot, TakePooled, ReadPage, AfterLastPage,
         Dispatch, CountTask, FinishBatch, SpawnEnqueuer, EnqueueEOF, ProducerExit, Enqueuer,
         AwaitPrev, AwaitReady, HandOver, ReleaseNext, GiveUp, Worker, ReceiveTask, WorkerExit,
         ProcessTask, CountDone, LoadSending, LoadRemaining, SignalReady, Consumer, NextRow,
         CallNext, ReleaseBatch, ReleaseSlot, ReceiveBatch, ScanRow, CallClose, FinishClose
    <3> QED
      BY <1>2, <3>1, <3>2
  <2> QED
    BY <2>1, <2>2, <2>3
<1> HIDE DEF F
<1>4. ppc' = "spawn" => obj'[pb'].n = fill'
  <2>1. CASE FinishBatch
    BY <2>1, FinishedBatch DEF FinishBatch
  <2>2. CASE ~FinishBatch
    <3>1. ppc' = "spawn" => ppc = "spawn" /\ fill' = fill /\ pb' = pb
      BY <2>2 DEF Next, vars, prodVars, Producer, AcquireSlot, TakePooled, RemakeReady,
         AllocateBatch, StartFilling, ReadPage, AfterLastPage, PutTask,
         Dispatch, CountTask, FinishBatch, SpawnEnqueuer, EnqueueEOF, ProducerExit, Enqueuer,
         AwaitPrev, AwaitReady, HandOver, ReleaseNext, GiveUp, Worker, ReceiveTask, WorkerExit,
         ProcessTask, CountDone, LoadSending, LoadRemaining, SignalReady, Consumer, NextRow,
         CallNext, ReleaseBatch, ReleaseSlot, ReceiveBatch, ScanRow, CallClose, FinishClose
    <3>2. ppc = "spawn" => pb \in live /\ obj[pb].n = fill
      BY <1>0 DEF Filling, RowsInv
    <3> QED
      BY <2>2, <3>1, <3>2, BatchContents
  <2> QED
    BY <2>1, <2>2
\* The batches that are pending.
<1>5. ASSUME NEW b \in live, obj[b].n <= BatchRows, \A i \in 1..obj[b].n : Written(b, i),
             ~FinishBatch \/ b # pb
      PROVE  obj'[b].n <= BatchRows /\ \A i \in 1..obj'[b].n : Written(b, i)'
  <2>1. obj'[b].n = obj[b].n /\ \A i \in 1..obj[b].n : i \in 1..BatchRows
    BY <1>0, <1>5, BatchContents
  <2> QED
    BY <1>1, <1>5, <2>1
<1>6. ASSUME NEW k \in Pending'
      PROVE  obj'[enq'[k]].n <= BatchRows /\ \A i \in 1..obj'[enq'[k]].n : Written(enq[k], i)'
  <2>1. PICK b \in live : /\ b = enq'[k]
                          /\ obj[b].n <= BatchRows /\ \A i \in 1..obj[b].n : Written(b, i)
                          /\ ~FinishBatch \/ b # pb
    <3>1. CASE k \in Pending
      <4>1. ~FinishBatch \/ enq[k] # pb
        BY <3>1 DEF FinishBatch, Filling, Base, OwnerInv
      <4> QED
        BY <1>0, <3>1, <4>1 DEF RowsInv
    <3>2. CASE k \notin Pending
      <4>1. SpawnEnqueuer /\ enq'[k] = pb
        BY <1>0, <1>6, <3>2, PendingStep DEF Base
      <4>2. ppc = "spawn" /\ ~FinishBatch
        BY <4>1 DEF SpawnEnqueuer, FinishBatch
      <4>3. pb \in live /\ obj[pb].n = fill /\ \A i \in 1..fill : Written(pb, i)
        BY <1>0, <4>2 DEF Filling, RowsInv
      <4> QED
        BY <1>0, <4>1, <4>2, <4>3
    <3> QED
      BY <3>1, <3>2
  <2>2. \A i : Written(b, i)' => Written(enq[k], i)'
    BY <2>1 DEF Written, Covers
  <2> QED
    BY <1>5, <2>1, <2>2
<1> QED
  BY <1>3, <1>4, <1>6 DEF RowsInv, F
------------------------------------------------------------------------------
(* The theorems *)

\* The whole of what every step preserves.
BatchInv == Base /\ SlotsInv /\ TasksInv /\ DeliveryInv

LEMMA InitBatchInv == Init => BatchInv
<1> SUFFICES ASSUME Init PROVE BatchInv
  OBVIOUS
<1>1. IInv
  BY InitInv
<1>2. FillInv
  BY FastScanAssumption DEF Init, FillInv
<1>3. ~Filling /\ Pending = {} /\ Len(pool) = 0 /\ live = {} /\ cpc = "idle"
      /\ ppc = "slot" /\ slots = InFlight
  BY DEF Init, Filling, Pending, InitialTokens
<1>4. OwnerInv
  BY <1>3 DEF OwnerInv
<1>5. IsFiniteSet({}) /\ Cardinality({}) = 0
  BY FS_EmptySet
<1>6. SlotsInv
  <2>1. SlotsBalance(0)
    BY <1>3, <1>5, FastScanAssumption DEF SlotsBalance, Token, Fills, Returning
  <2> QED
    BY <1>3, <1>5, <2>1, FastScanAssumption DEF SlotsInv
<1>7. TasksInv
  BY DEF Init, TasksInv
<1>8. Delivery
  BY <1>3 DEF Init, Delivery, CountInv, ReadyInv, SignalInv, RowsInv
<1> QED
  BY <1>1, <1>2, <1>4, <1>6, <1>7, <1>8 DEF BatchInv, Base, DeliveryInv

LEMMA DeliveryStep ==
    ASSUME Base, TasksInv, DeliveryInv, [Next]_vars PROVE DeliveryInv'
<1>1. stale => stale'
  BY DEF Next, vars, histVars, Producer, AcquireSlot, TakePooled, RemakeReady, AllocateBatch,
     ReadPage, CountTask, PutTask, FinishBatch, SpawnEnqueuer, EnqueueEOF, ProducerExit, Enqueuer,
     AwaitPrev, AwaitReady, HandOver, ReleaseNext, GiveUp, Worker, ReceiveTask, WorkerExit,
     ProcessTask, CountDone, LoadSending, LoadRemaining, SignalReady, Consumer, NextRow, CallNext,
     ReleaseBatch, ReleaseSlot, ReceiveBatch, ScanRow, CallClose, FinishClose
<1>2. CASE stale'
  BY <1>2 DEF DeliveryInv
<1>3. CASE ~stale'
  <2>1. Delivery
    BY <1>1, <1>3 DEF DeliveryInv
  <2> QED
    BY <1>3, <2>1, CountStep, ReadyStep, SignalStep, RowsStep, NoPanicStep
    DEF DeliveryInv, Delivery
<1> QED
  BY <1>2, <1>3

LEMMA NextBatchInv == BatchInv /\ [Next]_vars => BatchInv'
<1> SUFFICES ASSUME BatchInv, [Next]_vars PROVE BatchInv'
  OBVIOUS
<1>1. Base /\ IInv /\ FillInv /\ OwnerInv /\ SlotsInv /\ TasksInv /\ DeliveryInv
  BY DEF BatchInv, Base
<1>2. IInv'
  BY <1>1, Inductive
<1> QED
  BY <1>1, <1>2, FillStep, OwnerStep, SlotsStep, TasksStep, DeliveryStep DEF BatchInv, Base

LEMMA BatchInvariance == Spec => []BatchInv
  BY InitBatchInv, NextBatchInv, PTL DEF Spec

\* A batch that has been handed over has no task outstanding, so all its rows have been
\* written.
LEMMA DeliveredAreProcessed == BatchInv => DeliveredProcessed
<1> SUFFICES ASSUME BatchInv, ~stale PROVE DeliveredProcessed
  BY DEF DeliveredProcessed
<1>1. Base /\ TasksInv /\ Delivery
  BY DEF BatchInv, DeliveryInv
<1>2. ASSUME NEW k \in Pending, epc[k] \in {"send", "sent", "done"} PROVE Processed(k)
  <2>1. enq[k] \in live /\ obj[enq[k]].closed /\ ~(ppc = "remake" /\ pb = enq[k])
    BY <1>1, <1>2 DEF Base, OwnerInv, Delivery, ReadyInv, Filling
  <2>2. obj[enq[k]].remaining = 0
    BY <1>1, <2>1 DEF Delivery, ReadyInv
  <2>3. TasksOf(enq[k]) = {} /\ WorkersOn(enq[k]) = {}
    BY <1>1, <2>1, <2>2, Outstanding DEF Base, Delivery
  <2>4. /\ \A i \in 1..Len(tasks) : tasks[i].batch # enq[k]
        /\ \A w \in Workers : wpc[w] \in {"work", "count"} => wtask[w].batch # enq[k]
    BY <2>3 DEF TasksOf, WorkersOn
  <2>5. \A i \in 1..obj[enq[k]].n : obj[enq[k]].rows[i] # Leftover
    BY <1>1, <1>2, <2>4 DEF Delivery, RowsInv, Written, Covers
  <2> QED
    BY <2>2, <2>4, <2>5 DEF Processed
<1> QED
  BY <1>1, <1>2 DEF DeliveredProcessed, Delivery

\* A batch object is filled by the producer, or enqueued once, or in the pool once:
\* acquireBatch and releaseBatch (fastscan.go) never give one out that is in use.
THEOREM SoleOwnerHolds == Spec => []SoleOwner
<1>1. BatchInv => SoleOwner
  BY OwnersAreSole DEF BatchInv, Base, IInv
<1> QED
  BY <1>1, BatchInvariance, PTL

\* The tokens out of the slots channel are the batches in flight: at most InFlight
\* batches are ever allocated, and releaseBatch and releaseSlot always find room.
THEOREM SlotsAccountedHolds == Spec => []SlotsAccounted
<1>1. BatchInv => SlotsAccounted
  BY SlotsAreAccounted DEF BatchInv, Base
<1> QED
  BY <1>1, BatchInvariance, PTL

\* A batch that enqueueWhen hands over has all its tasks processed and all its rows
\* written, and no ready channel is closed twice, as long as no worker has signalled a
\* batch that was recycled since it finished its task.
THEOREM DeliveredProcessedHolds == Spec => []DeliveredProcessed
  BY DeliveredAreProcessed, BatchInvariance, PTL
------------------------------------------------------------------------------
(* The ordered scan: what a batch will contain                             *)
(*                                                                         *)
(* The rows the consumer has still to look at are the slots of the pending *)
(* batches and of the one being filled.  A slot that a task will write     *)
(* counts with what the task will leave in it, so that the order of the    *)
(* workers does not matter: the contents of the slots, from the first one  *)
(* unread on, and the rows the producer has not dispatched are the rest of *)
(* the table in its order.                                                 *)

\* The tasks in the channel and those a worker has not processed.
Open == {tasks[j] : j \in 1..Len(tasks)}
            \cup {wtask[w] : w \in {v \in Workers : wpc[v] = "work"}}
Cover(b, i) == {t \in Open : Covers(t, b, i)}
Value(b, i) ==
    IF Cover(b, i) = {} THEN obj[b].rows[i]
    ELSE LET t == CHOOSE t \in Cover(b, i) : TRUE
         IN  Decoded(t.page, t.first + i - t.slot)

\* The batches with rows to come, the one being filled behind those enqueued.
Building == ppc \in {"page", "send", "put", "flush", "spawn"}
Lanes == Pending \cup (IF Building THEN {Len(enq) + 1} ELSE {})
BatchOf(k) == IF k = Len(enq) + 1 THEN pb ELSE enq[k]
Width(k) == IF k = Len(enq) + 1 THEN fill ELSE obj[enq[k]].n
Unread == {s \in Lanes \X (1..BatchRows) :
              s[2] <= Width(s[1]) /\ (s[1] = cur => s[2] > curIdx)}
Content(s) == Value(BatchOf(s[1]), s[2])

Before(r, x) == r[1] < x[1] \/ (r[1] = x[1] /\ r[2] < x[2])
Undispatched(r) == Before(<<pgNo, rowNo>>, r)
Rest == Scan!Selected(table, Scan!LastOf(out))

\* The tasks of the batch being filled cover the part of it already filled, and no two
\* tasks cover the same slot.
RoomInv ==
    /\ Building => \A t \in Open : t.batch = pb => t.slot + t.n <= fill
    /\ ppc = "remake" => \A t \in Open : t.batch # pb
    /\ \A t, u \in Open : \A i \in 1..BatchRows :
          Covers(t, u.batch, i) /\ Covers(u, u.batch, i) => t = u

\* The producer reads the next page when the one before is dispatched, and finishes a
\* batch that is not empty; at the end it has dispatched everything.
AllDispatched == pgNo = Len(table) /\ (pgNo > 0 => rowNo >= Len(table[pgNo]))
PlaceInv ==
    /\ (ppc = "page" /\ pgNo > 0) => rowNo >= Len(table[pgNo])
    /\ ppc \in {"flush", "spawn"} =>
          fill > 0 /\ pgNo > 0 /\ (rowNo < Len(table[pgNo]) \/ AllDispatched)
    /\ ppc = "eof" => AllDispatched
    /\ \A k \in 1..Len(enq) : enq[k] = EOF =>
          k = Len(enq) /\ ppc \in {"exit", "done"} /\ AllDispatched
    /\ \A k \in Pending : obj[enq[k]].n > 0

\* The consumer looks at a row of its batch, or has looked at all of them.
ReadInv ==
    /\ cpc = "scan" => curIdx < obj[enq[cur]].n
    /\ cpc = "recycle" => curIdx >= obj[enq[cur]].n

\* The contents of the unread slots ascend, behind the row returned last and before those
\* not dispatched; no selected row is missing, unless the limit is reached.
ScanInv ==
    /\ out \in Seq(Nat \X Nat)
    /\ \A s, u \in Unread : (Before(s, u) /\ Content(s) # NoRow /\ Content(u) # NoRow)
                                => Before(Content(s), Content(u))
    /\ \A s \in Unread : Content(s) # NoRow => Content(s) \in Rest /\ ~Undispatched(Content(s))
    /\ ~Undispatched(Scan!LastOf(out))
    /\ \/ Scan!LimitReached
       \/ \A r \in Rest : Undispatched(r) \/ \E s \in Unread : Content(s) = r
Order == RoomInv /\ PlaceInv /\ ReadInv /\ ScanInv
OrderInv == stale \/ cancelled \/ Order

\* A step sends a task, processes one, or leaves the tasks that are open.
LEMMA OpenTasks ==
    ASSUME Base, TasksInv
    PROVE  Open \subseteq Task /\ \A t \in Open : t.batch \in live /\ t.page # 0
<1>1. \A j \in 1..Len(tasks) : tasks[j] \in Task /\ TaskInv(tasks[j])
  BY DeliveryTypes DEF TasksInv
<1>2. \A w \in Workers : wpc[w] = "work" => wtask[w] \in Task /\ TaskInv(wtask[w])
  BY DeliveryTypes DEF TasksInv
<1> QED
  BY <1>1, <1>2 DEF Open, TaskInv

LEMMA OpenSent ==
    ASSUME IInv, NEW t, tasks' = Append(tasks, t), UNCHANGED workVars
    PROVE  Open' = Open \cup {t}
<1>1. /\ Len(tasks) \in Nat /\ Len(tasks') = Len(tasks) + 1 /\ tasks'[Len(tasks) + 1] = t
      /\ \A j \in 1..Len(tasks) : tasks'[j] = tasks[j]
  BY DEF IInv, TypeOK
<1>2. 1..Len(tasks') = (1..Len(tasks)) \cup {Len(tasks) + 1}
  BY <1>1
<1>3. {tasks'[j] : j \in 1..Len(tasks')} = {tasks[j] : j \in 1..Len(tasks)} \cup {t}
  BY <1>1, <1>2
<1> QED
  BY <1>3 DEF Open, workVars

LEMMA OpenReceived ==
    ASSUME IInv, NEW w \in Workers, ReceiveTask(w)
    PROVE  Open' = Open
<1>1. /\ tasks \in Seq(Task) /\ tasks # <<>> /\ tasks' = Tail(tasks)
      /\ wpc[w] = "recv" /\ wpc'[w] = "work" /\ wtask'[w] = tasks[1]
      /\ \A v \in Workers : v # w => wpc'[v] = wpc[v] /\ wtask'[v] = wtask[v]
  BY DEF ReceiveTask, Goto, IInv, TypeOK
<1>2. Len(tasks') = Len(tasks) - 1 /\ Len(tasks) \in Nat \ {0}
      /\ \A j \in 1..Len(tasks') : tasks'[j] = tasks[j + 1]
  BY <1>1
<1>3. {tasks[j] : j \in 1..Len(tasks)} = {tasks[1]} \cup {tasks'[j] : j \in 1..Len(tasks')}
  <2>1. ASSUME NEW j \in 1..Len(tasks), j # 1
        PROVE  tasks[j] \in {tasks'[h] : h \in 1..Len(tasks')}
    <3>1. j - 1 \in 1..Len(tasks') /\ tasks'[j - 1] = tasks[j]
      BY <1>2, <2>1
    <3> QED
      BY <3>1
  <2>2. ASSUME NEW j \in 1..Len(tasks')
        PROVE  tasks'[j] \in {tasks[h] : h \in 1..Len(tasks)}
    <3>1. j + 1 \in 1..Len(tasks) /\ tasks'[j] = tasks[j + 1]
      BY <1>2, <2>2
    <3> QED
      BY <3>1
  <2>3. tasks[1] \in {tasks[h] : h \in 1..Len(tasks)}
    BY <1>2
  <2> QED
    BY <2>1, <2>2, <2>3
<1>4. {wtask'[v] : v \in {x \in Workers : wpc'[x] = "work"}}
        = {wtask[v] : v \in {x \in Workers : wpc[x] = "work"}} \cup {tasks[1]}
  <2>1. {x \in Workers : wpc'[x] = "work"} = {x \in Workers : wpc[x] = "work"} \cup {w}
    BY <1>1
  <2>2. \A v \in {x \in Workers : wpc[x] = "work"} : wtask'[v] = wtask[v]
    BY <1>1
  <2> QED
    BY <1>1, <2>1, <2>2
<1> QED
  BY <1>3, <1>4 DEF Open

LEMMA OpenProcessed ==
    ASSUME IInv, NEW w \in Workers, ProcessTask(w)
    PROVE  wtask[w] \in Open /\ Open' \subseteq Open /\ Open \subseteq Open' \cup {wtask[w]}
<1>1. /\ wpc[w] = "work" /\ wpc'[w] = "count" /\ wtask' = wtask /\ tasks' = tasks
      /\ \A v \in Workers : v # w => wpc'[v] = wpc[v]
  BY DEF ProcessTask, Goto, IInv, TypeOK
<1>2. {x \in Workers : wpc[x] = "work"} = {x \in Workers : wpc'[x] = "work"} \cup {w}
  BY <1>1
<1> QED
  BY <1>1, <1>2 DEF Open

LEMMA OpenKept ==
    ASSUME IInv, [Next]_vars, ~PutTask, \A w \in Workers : ~ReceiveTask(w) /\ ~ProcessTask(w)
    PROVE  Open' = Open
<1>1. ASSUME NEW w \in Workers, Worker(w) PROVE Open' = Open
  <2>1. tasks' = tasks /\ wtask' = wtask /\ \E l : l # "work" /\ wpc[w] # "work" /\ Goto(w, l)
    BY <1>1 DEF Worker, WorkerExit, CountDone, LoadSending, LoadRemaining, SignalReady
  <2>2. \A v \in Workers : wpc'[v] = "work" <=> wpc[v] = "work"
    BY <2>1 DEF Goto, IInv, TypeOK
  <2>3. {x \in Workers : wpc'[x] = "work"} = {x \in Workers : wpc[x] = "work"}
    BY <2>2
  <2> QED
    BY <2>1, <2>3 DEF Open
<1>2. ASSUME \A w \in Workers : ~Worker(w) PROVE tasks' = tasks /\ wpc' = wpc /\ wtask' = wtask
  BY <1>2 DEF Next, vars, workVars, Producer, AcquireSlot, TakePooled, RemakeReady,
     AllocateBatch, ReadPage, CountTask, FinishBatch, SpawnEnqueuer, EnqueueEOF,
     ProducerExit, Enqueuer, AwaitPrev, AwaitReady, HandOver, ReleaseNext, GiveUp, Consumer,
     NextRow, CallNext, ReleaseBatch, ReleaseSlot, ReceiveBatch, ScanRow, CallClose, FinishClose
<1> QED
  BY <1>1, <1>2 DEF Open

\* The task that PutTask sends, in full.
Sending(t) ==
    /\ t \in Task /\ t.batch = pb /\ t.slot = fill /\ t.page = pgNo /\ t.first = rowNo
    /\ t.n = TaskSize(pgNo, rowNo) /\ t.n \in Nat \ {0}
    /\ tasks' = Append(tasks, t)
    /\ fill' = fill + t.n /\ rowNo' = rowNo + t.n
    /\ ppc' = Dispatch(pgNo, rowNo + t.n, fill + t.n)
    /\ obj' = obj
LEMMA PutTaskSends ==
    ASSUME IInv, PutTask
    PROVE  (cancelled /\ ppc' = "exit" /\ UNCHANGED <<tasks, fill, rowNo>>) \/ \E t : Sending(t)
<1>1. TaskSize(pgNo, rowNo) \in Nat \ {0}
  BY TaskSizeType DEF PutTask, IInv
<1>2. pb \in Batches /\ obj[pb].gen \in Nat /\ fill \in Nat /\ pgNo \in Nat /\ rowNo \in Nat
  BY DEF IInv, TypeOK, BatchFields
<1> DEFINE n == TaskSize(pgNo, rowNo)
           t == [batch |-> pb, gen |-> obj[pb].gen, slot |-> fill,
                 page |-> pgNo, first |-> rowNo, n |-> n]
<1>3. t \in Task
  BY <1>1, <1>2 DEF Task
<1>4. CASE tasks' = Append(tasks, t) /\ fill' = fill + n /\ rowNo' = rowNo + n
           /\ ppc' = Dispatch(pgNo, rowNo + n, fill + n) /\ obj' = obj
  BY <1>1, <1>3, <1>4 DEF Sending
<1> QED
  BY <1>4 DEF PutTask

\* What a slot of a batch has, or will have, changes only when a task for it is sent.
LEMMA ValueKept ==
    ASSUME Base, TasksInv, RoomInv, [Next]_vars, NEW b \in live, NEW i \in 1..BatchRows,
           \A t : Sending(t) => ~Covers(t, b, i)
    PROVE  Value(b, i)' = Value(b, i)
<1>0. IInv /\ live \subseteq Batches /\ b \in Batches /\ pb \in Batches
  BY DeliveryTypes
<1>1. ASSUME Open' = Open, obj'[b].rows = obj[b].rows PROVE Value(b, i)' = Value(b, i)
  <2>1. Cover(b, i)' = Cover(b, i)
    BY <1>1 DEF Cover, Covers
  <2>2. table' = table
    BY DEF Next, vars, query, Producer, AcquireSlot, TakePooled, RemakeReady, AllocateBatch,
     ReadPage, CountTask, PutTask, FinishBatch, SpawnEnqueuer, EnqueueEOF, ProducerExit, Enqueuer,
     AwaitPrev, AwaitReady, HandOver, ReleaseNext, GiveUp, Worker, ReceiveTask, WorkerExit,
     ProcessTask, CountDone, LoadSending, LoadRemaining, SignalReady, Consumer, NextRow, CallNext,
     ReleaseBatch, ReleaseSlot, ReceiveBatch, ScanRow, CallClose, FinishClose
  <2> QED
    BY <1>1, <2>1, <2>2 DEF Value, Decoded
<1>2. ASSUME ~AllocateBatch, \A w \in Workers : ~ProcessTask(w)
      PROVE  obj'[b].rows = obj[b].rows
  <2>1. CASE TakePooled
    <3>1. obj' = [obj EXCEPT ![Head(pool)] = Recycled(obj[Head(pool)])]
      BY <2>1 DEF TakePooled, SetBatch
    <3> QED
      BY <1>0, <3>1 DEF Recycled, IInv, TypeOK
  <2>2. CASE RemakeReady
    BY <1>0, <2>2, RemadeBatch
  <2>3. CASE CountTask \/ PutTask
    BY <1>0, <2>3, CountedBatch, CancelledBatch, PutTaskKinds DEF PutTask, SameButRemaining
  <2>4. CASE FinishBatch
    BY <1>0, <2>4, FinishedBatch
  <2>5. CASE SpawnEnqueuer
    BY <1>0, <2>5, SignalledBatch DEF SpawnEnqueuer, SignalIfDone
  <2>6. ASSUME NEW w \in Workers, CountDone(w) PROVE obj'[b].rows = obj[b].rows
    BY <1>0, <2>6, CountedDownBatch DEF SameButRemaining
  <2>7. ASSUME NEW w \in Workers, SignalReady(w) PROVE obj'[b].rows = obj[b].rows
    <3>1. wtask[w].batch \in Batches /\ MarkReady(wtask[w].batch)
      BY <1>0, <2>7, TaskOfWorker DEF SignalReady
    <3> QED
      BY <1>0, <3>1, SignalledBatch
  <2> QED
    BY <1>2, <2>1, <2>2, <2>3, <2>4, <2>5, <2>6, <2>7, BatchesKept
<1>3. CASE AllocateBatch
  <2>1. Open' = Open
    BY <1>0, <1>3, OpenKept DEF AllocateBatch, PutTask, ReceiveTask, ProcessTask, workVars, Open
  <2> QED
    BY <1>0, <1>1, <1>3, <2>1, NewBatchFields
<1>4. ASSUME NEW w \in Workers, ProcessTask(w) PROVE Value(b, i)' = Value(b, i)
  <2> DEFINE t == wtask[w]
  <2>1. t \in Open /\ Open' \subseteq Open /\ Open \subseteq Open' \cup {t}
    BY <1>0, <1>4, OpenProcessed
  <2>2. table' = table
    BY <1>4 DEF ProcessTask, query
  <2>3. CASE Cover(b, i)' = Cover(b, i) /\ Cover(b, i) # {}
    BY <2>2, <2>3 DEF Value, Decoded
  <2>4. CASE ~Covers(t, b, i)
    <3>1. Cover(b, i)' = Cover(b, i)
      BY <2>1, <2>4 DEF Cover, Covers
    <3>2. obj'[b].rows[i] = obj[b].rows[i]
      <4>1. CASE t.batch = b
        BY <1>0, <1>4, <2>4, <4>1, ProcessedBatch DEF RowsAfter, Covers
      <4>2. CASE t.batch # b
        BY <1>0, <1>4, <4>2, ProcessedBatch
      <4> QED
        BY <4>1, <4>2
    <3> QED
      BY <2>2, <3>1, <3>2 DEF Value, Decoded
  <2>5. CASE Covers(t, b, i) /\ t \notin Open'
    <3>1. ASSUME NEW u \in Open, Covers(u, b, i) PROVE u = t
      BY <2>1, <2>5, <3>1 DEF RoomInv, Covers
    <3>2. Cover(b, i) = {t} /\ Cover(b, i)' = {}
      BY <2>1, <2>5, <3>1 DEF Cover, Covers
    <3>3. Value(b, i) = Decoded(t.page, t.first + i - t.slot)
      <4>1. (CHOOSE u \in {t} : TRUE) = t
        OBVIOUS
      <4> QED
        BY <3>2, <4>1 DEF Value
    <3>4. obj'[b].rows[i] = RowsAfter(t)[i]
      BY <1>0, <1>4, <2>5, ProcessedBatch DEF Covers
    <3>5. RowsAfter(t)[i] = Decoded(t.page, t.first + i - t.slot)
      BY <2>5 DEF RowsAfter, Covers
    <3> QED
      BY <3>2, <3>3, <3>4, <3>5 DEF Value
  <2>6. CASE Covers(t, b, i) /\ t \in Open'
    <3>1. Open' = Open
      BY <2>1, <2>6
    <3>2. Cover(b, i)' = Cover(b, i) /\ t \in Cover(b, i)
      BY <2>1, <2>6, <3>1 DEF Cover, Covers
    <3> QED
      BY <2>3, <3>2
  <2> QED
    BY <2>4, <2>5, <2>6
<1>5. ASSUME NEW t, Sending(t), PutTask PROVE Value(b, i)' = Value(b, i)
  <2>1. Open' = Open \cup {t} /\ ~Covers(t, b, i) /\ obj' = obj
    BY <1>0, <1>5, OpenSent DEF Sending, PutTask
  <2>2. Cover(b, i)' = Cover(b, i)
    BY <2>1 DEF Cover, Covers
  <2>3. table' = table
    BY <1>5 DEF PutTask, query
  <2> QED
    BY <2>1, <2>2, <2>3 DEF Value, Decoded
<1>6. CASE PutTask /\ \A t : ~Sending(t)
  <2>1. Open' = Open
    BY <1>0, <1>6, PutTaskSends DEF Open, PutTask, workVars
  <2>2. ~AllocateBatch /\ \A w \in Workers : ~ProcessTask(w)
    <3>1. ppc = "put" /\ wpc' = wpc /\ wpc \in [Workers -> {"recv", "work", "count", "sending",
                                                      "remaining", "mark", "exit"}]
      BY <1>0, <1>6 DEF PutTask, workVars, IInv, TypeOK
    <3> QED
      BY <3>1 DEF AllocateBatch, ProcessTask, Goto
  <2> QED
    BY <1>1, <1>2, <2>1, <2>2
<1>7. ASSUME NEW w \in Workers, ReceiveTask(w) PROVE Value(b, i)' = Value(b, i)
  <2>1. obj' = obj /\ Open' = Open
    BY <1>0, <1>7, OpenReceived DEF ReceiveTask
  <2> QED
    BY <1>1, <2>1
<1>8. CASE ~AllocateBatch /\ ~PutTask /\ \A w \in Workers : ~ReceiveTask(w) /\ ~ProcessTask(w)
  BY <1>0, <1>1, <1>2, <1>8, OpenKept
<1> QED
  BY <1>3, <1>4, <1>5, <1>6, <1>7, <1>8

LEMMA RoomStep ==
    ASSUME Base, TasksInv, Delivery, RoomInv, [Next]_vars PROVE RoomInv'
<1>0. /\ IInv /\ live \subseteq Batches /\ pb \in Batches /\ fill \in Nat
      /\ Open \subseteq Task /\ \A t \in Open : t.batch \in live
  BY DeliveryTypes, OpenTasks
\* No two tasks cover a slot.
<1>d. ASSUME Open' \subseteq Open
      PROVE  \A t, u \in Open' : \A i \in 1..BatchRows :
                Covers(t, u.batch, i) /\ Covers(u, u.batch, i) => t = u
  BY <1>d DEF RoomInv
<1>1. CASE TakePooled
  <2>1. Open' = Open /\ ppc' = "remake" /\ obj[pb'].remaining = 0 /\ pb' \in live
    BY <1>0, <1>1, RecycledBatch DEF TakePooled, Open, workVars, Delivery, ReadyInv
  <2>2. TasksOf(pb') = {} /\ WorkersOn(pb') = {}
    <3>1. PICK b \in live : b = pb'
      BY <2>1
    <3> QED
      BY <1>0, <2>1, <3>1, Outstanding DEF Delivery
  <2>3. \A t \in Open' : t.batch # pb'
    BY <2>1, <2>2 DEF Open, TasksOf, WorkersOn
  <2> QED
    BY <1>d, <2>1, <2>3 DEF RoomInv, Building
<1>2. CASE RemakeReady
  <2>1. Open' = Open /\ pb' = pb /\ ppc = "remake" /\ ppc' # "remake"
    BY <1>2 DEF RemakeReady, StartFilling, Open, workVars
  <2> QED
    BY <1>d, <2>1 DEF RoomInv
<1>3. CASE AllocateBatch
  <2>1. Open' = Open /\ pb' \notin live /\ ppc' # "remake"
    BY <1>3, NewBatchFields DEF AllocateBatch, StartFilling, Open, workVars
  <2> QED
    BY <1>0, <1>d, <2>1 DEF RoomInv
<1>4. ASSUME NEW t, Sending(t), PutTask PROVE RoomInv'
  <2>1. /\ Open' = Open \cup {t} /\ pb' = pb /\ fill' = fill + t.n /\ t.slot = fill
        /\ t.batch = pb /\ t.n \in Nat /\ ppc' # "remake"
    BY <1>0, <1>4, OpenSent DEF Sending, PutTask, Dispatch
  <2>2. \A u \in Open : u.slot \in Nat /\ u.n \in Nat /\ (u.batch = pb => u.slot + u.n <= fill)
    BY <1>0, <1>4 DEF RoomInv, Building, PutTask, Task
  <2>3. ASSUME NEW u \in Open, NEW i \in 1..BatchRows, t.batch = u.batch,
               i \in (t.slot + 1)..(t.slot + t.n), i \in (u.slot + 1)..(u.slot + u.n)
        PROVE  FALSE
    BY <1>0, <2>1, <2>2, <2>3
  <2>4. \A x, u \in Open' : \A i \in 1..BatchRows :
           Covers(x, u.batch, i) /\ Covers(u, u.batch, i) => x = u
    BY <2>1, <2>3 DEF RoomInv, Covers
  <2>5. \A u \in Open' : u.batch = pb' => u.slot + u.n <= fill'
    BY <1>0, <2>1, <2>2
  <2> QED
    BY <2>1, <2>4, <2>5 DEF RoomInv
<1>5. CASE PutTask /\ \A t : ~Sending(t)
  <2>1. Open' = Open /\ ppc' = "exit"
    BY <1>0, <1>5, PutTaskSends DEF Open, PutTask, workVars
  <2> QED
    BY <1>d, <2>1 DEF RoomInv, Building
<1>6. CASE ~TakePooled /\ ~RemakeReady /\ ~AllocateBatch /\ ~PutTask
  <2>1. Open' \subseteq Open
    BY <1>0, <1>6, OpenReceived, OpenProcessed, OpenKept
  <2>2. fill' = fill /\ pb' = pb /\ (Building' => Building) /\ (ppc' = "remake" => ppc = "remake")
    BY <1>6 DEF Next, vars, prodVars, Building, Producer, AcquireSlot,
     ReadPage, AfterLastPage, Dispatch, CountTask, FinishBatch, SpawnEnqueuer, EnqueueEOF,
     ProducerExit, Enqueuer, AwaitPrev, AwaitReady, HandOver, ReleaseNext, GiveUp, Worker,
     ReceiveTask, WorkerExit, ProcessTask, CountDone, LoadSending, LoadRemaining, SignalReady,
     Consumer, NextRow, CallNext, ReleaseBatch, ReleaseSlot, ReceiveBatch, ScanRow, CallClose,
     FinishClose
  <2> QED
    BY <1>d, <2>1, <2>2 DEF RoomInv
<1> QED
  BY <1>1, <1>2, <1>3, <1>4, <1>5, <1>6

\* The length of a batch the consumer may look at does not change.
LEMMA LengthKept ==
    ASSUME Base, TasksInv, [Next]_vars, NEW k \in Pending
    PROVE  enq'[k] = enq[k] /\ enq[k] \in live /\ obj'[enq[k]].n = obj[enq[k]].n
<1>1. enq'[k] = enq[k] /\ enq[k] \in live
  BY PendingStep DEF Base, OwnerInv
<1>2. ~(FinishBatch /\ enq[k] = pb)
  BY DEF FinishBatch, Filling, Base, OwnerInv
<1>3. obj'[enq[k]].n = obj[enq[k]].n
  BY <1>1, <1>2, BatchContents
<1> QED
  BY <1>1, <1>3

LEMMA PlaceStep ==
    ASSUME Base, TasksInv, Delivery, PlaceInv, [Next]_vars PROVE PlaceInv'
<1>0. /\ IInv /\ TypeOK /\ ProducerInv /\ FillInv
      /\ fill \in Nat /\ rowNo \in Nat /\ pgNo \in Nat /\ table \in Seq(Seq(BOOLEAN))
      /\ \A p \in 1..Len(table) : Len(table[p]) \in Nat
      /\ pgNo <= Len(table) /\ Len(table) \in Nat
      /\ enq \in Seq(Batches \cup {EOF}) /\ EOF \notin Batches /\ pb \in Batches /\ Len(enq) \in Nat
      /\ BatchRows \in Nat /\ TaskRows \in Nat /\ TaskRows <= BatchRows
  BY FastScanAssumption DEF Base, IInv, TypeOK, ProducerInv
<1>t. table' = table
  BY DEF Next, vars, query, Producer, AcquireSlot, TakePooled, RemakeReady, AllocateBatch,
     ReadPage, CountTask, PutTask, FinishBatch, SpawnEnqueuer, EnqueueEOF, ProducerExit, Enqueuer,
     AwaitPrev, AwaitReady, HandOver, ReleaseNext, GiveUp, Worker, ReceiveTask, WorkerExit,
     ProcessTask, CountDone, LoadSending, LoadRemaining, SignalReady, Consumer, NextRow, CallNext,
     ReleaseBatch, ReleaseSlot, ReceiveBatch, ScanRow, CallClose, FinishClose
\* The lengths of the pending batches.
<1>n. \A k \in Pending' : obj'[enq'[k]].n > 0
  <2>1. ASSUME NEW k \in Pending PROVE obj'[enq'[k]].n > 0
    BY <2>1, LengthKept DEF PlaceInv
  <2>2. ASSUME SpawnEnqueuer PROVE obj'[pb].n > 0
    <3>1. obj[pb].n = fill /\ fill > 0 /\ pb \in live /\ ~FinishBatch
      BY <2>2 DEF SpawnEnqueuer, FinishBatch, PlaceInv, Delivery, RowsInv, Base, OwnerInv, Filling
    <3> QED
      BY <3>1, BatchContents
  <2> QED
    BY <1>0, <2>1, <2>2, PendingStep
\* The batch of enqueueEOF.
<1>e. ASSUME enq' = enq,
             (ppc \in {"exit", "done"} /\ AllDispatched) => (ppc' \in {"exit", "done"} /\ AllDispatched')
      PROVE  \A k \in 1..Len(enq') : enq'[k] = EOF =>
                k = Len(enq') /\ ppc' \in {"exit", "done"} /\ AllDispatched'
  BY <1>e DEF PlaceInv
<1>k. ASSUME UNCHANGED <<enq, pgNo, rowNo, fill, ppc>> PROVE PlaceInv'
  <2>1. AllDispatched' <=> AllDispatched
    BY <1>k, <1>t DEF AllDispatched
  <2> QED
    BY <1>k, <1>t, <1>e, <1>n, <2>1 DEF PlaceInv
<1>1. CASE AcquireSlot \/ TakePooled \/ RemakeReady \/ AllocateBatch
  <2>1. enq' = enq /\ pgNo' = pgNo /\ rowNo' = rowNo
        /\ ppc \notin {"exit", "done"} /\ (ppc' \in {"take", "exit", "remake", "send"}
                                           \/ (ppc' = "page" /\ pgNo = 0))
    BY <1>1 DEF AcquireSlot, TakePooled, RemakeReady, AllocateBatch, StartFilling, enqVars
  <2> QED
    BY <1>e, <1>n, <2>1 DEF PlaceInv
<1>2. CASE ReadPage
  <2>1. enq' = enq /\ fill' = fill /\ ppc = "page"
    BY <1>2 DEF ReadPage, enqVars
  <2>2. CASE pgNo < Len(table)
    <3>1. pgNo' = pgNo + 1 /\ rowNo' = 0 /\ ppc' = Dispatch(pgNo + 1, 0, fill)
      BY <1>2, <2>2 DEF ReadPage
    <3>2. pgNo + 1 \in 1..Len(table) /\ Len(table[pgNo + 1]) \in Nat
      BY <1>0, <2>2
    <3>3. TaskSize(pgNo + 1, 0) <= TaskRows
      BY <1>0, <3>2 DEF TaskSize, SmallerOf
    <3>4. TaskSize(pgNo + 1, 0) \in Int
      BY <1>0, <3>2 DEF TaskSize, SmallerOf
    <3>5. ppc' = "flush" => fill > 0 /\ 0 < Len(table[pgNo + 1])
      BY <1>0, <3>1, <3>2, <3>3, <3>4 DEF Dispatch
    <3>6. ppc' = "page" => 0 >= Len(table[pgNo + 1])
      BY <3>1 DEF Dispatch
    <3>7. ppc' \in {"page", "flush", "send"}
      BY <3>1 DEF Dispatch
    <3>8. pgNo + 1 > 0
      BY <1>0
    <3> QED
      BY <1>0, <1>t, <1>e, <1>n, <2>1, <3>1, <3>5, <3>6, <3>7, <3>8 DEF PlaceInv
  <2>3. CASE ~(pgNo < Len(table))
    <3>1. pgNo' = pgNo /\ rowNo' = rowNo /\ ppc' = IF fill > 0 THEN "flush" ELSE "eof"
      BY <1>2, <2>3 DEF ReadPage, AfterLastPage
    <3>2. AllDispatched
      BY <1>0, <2>1, <2>3 DEF PlaceInv, AllDispatched
    <3>3. AllDispatched'
      BY <1>t, <3>1, <3>2 DEF AllDispatched
    <3>4. fill > 0 => pgNo > 0
      BY <1>0 DEF ProducerInv
    <3> QED
      BY <1>e, <1>n, <2>1, <3>1, <3>3, <3>4 DEF PlaceInv
  <2> QED
    BY <2>2, <2>3
<1>3. CASE CountTask
  <2>1. enq' = enq /\ ppc = "send" /\ ppc' = "put"
    BY <1>3 DEF CountTask, enqVars
  <2> QED
    BY <1>e, <1>n, <2>1 DEF PlaceInv
<1>4. ASSUME NEW t, Sending(t), PutTask PROVE PlaceInv'
  <2>1. /\ enq' = enq /\ ppc = "put" /\ pgNo' = pgNo /\ rowNo' = rowNo + t.n /\ fill' = fill + t.n
        /\ t.n \in Nat \ {0} /\ ppc' = Dispatch(pgNo, rowNo + t.n, fill + t.n)
    BY <1>4 DEF PutTask, Sending, enqVars
  <2>2. pgNo > 0
    BY <1>0, <2>1 DEF ProducerInv
  <2>3. pgNo \in 1..Len(table) /\ Len(table[pgNo]) \in Nat
    BY <1>0, <2>2
  <2>4. /\ ppc' \in {"page", "flush", "send"}
        /\ ppc' = "page" => rowNo + t.n >= Len(table[pgNo])
        /\ ppc' = "flush" => rowNo + t.n < Len(table[pgNo])
    BY <1>0, <2>1, <2>3 DEF Dispatch
  <2>5. fill + t.n > 0
    BY <1>0, <2>1
  <2> QED
    BY <1>t, <1>e, <1>n, <2>1, <2>2, <2>4, <2>5 DEF PlaceInv
<1>5. CASE PutTask /\ \A t : ~Sending(t)
  <2>1. enq' = enq /\ ppc = "put" /\ ppc' = "exit"
    BY <1>0, <1>5, PutTaskSends DEF PutTask, enqVars
  <2> QED
    BY <1>e, <1>n, <2>1 DEF PlaceInv
<1>6. CASE FinishBatch
  <2>1. enq' = enq /\ ppc = "flush" /\ ppc' = "spawn" /\ UNCHANGED <<pgNo, rowNo, fill>>
    BY <1>6 DEF FinishBatch, enqVars
  <2>2. AllDispatched' <=> AllDispatched
    BY <1>t, <2>1 DEF AllDispatched
  <2> QED
    BY <1>t, <1>e, <1>n, <2>1, <2>2 DEF PlaceInv
<1>7. CASE SpawnEnqueuer
  <2>1. enq' = Append(enq, pb) /\ ppc = "spawn" /\ UNCHANGED <<pgNo, rowNo, fill>>
        /\ ppc' = IF rowNo < Len(table[pgNo]) THEN "slot" ELSE "eof"
    BY <1>7 DEF SpawnEnqueuer
  <2>2. AllDispatched' <=> AllDispatched
    BY <1>t, <2>1 DEF AllDispatched
  <2>3. \A k \in 1..Len(enq') : enq'[k] # EOF
    <3>1. \A k \in 1..Len(enq) : enq[k] # EOF
      BY <2>1 DEF PlaceInv
    <3> QED
      BY <1>0, <2>1, <3>1
  <2>4. pgNo > 0 /\ (rowNo < Len(table[pgNo]) \/ AllDispatched)
    BY <2>1 DEF PlaceInv
  <2>5. ppc' = "slot" \/ (ppc' = "eof" /\ AllDispatched')
    BY <2>1, <2>2, <2>4
  <2> QED
    BY <1>n, <2>3, <2>5 DEF PlaceInv
<1>8. CASE EnqueueEOF
  <2>1. enq' = Append(enq, EOF) /\ ppc = "eof" /\ UNCHANGED <<pgNo, rowNo, fill>> /\ ppc' = "exit"
    BY <1>8 DEF EnqueueEOF
  <2>2. AllDispatched'
    BY <1>t, <2>1 DEF AllDispatched, PlaceInv
  <2>3. \A k \in 1..Len(enq) : enq[k] # EOF
    BY <2>1 DEF PlaceInv
  <2>4. \A k \in 1..Len(enq') : enq'[k] = EOF => k = Len(enq')
    BY <1>0, <2>1, <2>3
  <2> QED
    BY <1>n, <2>1, <2>2, <2>4 DEF PlaceInv
<1>9. CASE ProducerExit
  <2>1. enq' = enq /\ ppc = "exit" /\ ppc' = "done" /\ UNCHANGED <<pgNo, rowNo, fill>>
    BY <1>9 DEF ProducerExit, enqVars
  <2>2. AllDispatched' <=> AllDispatched
    BY <1>t, <2>1 DEF AllDispatched
  <2> QED
    BY <1>e, <1>n, <2>1, <2>2 DEF PlaceInv
<1>10. CASE ~Producer
  <2>1. UNCHANGED <<enq, pgNo, rowNo, fill, ppc>>
    BY <1>10 DEF Next, vars, prodVars, enqVars, Enqueuer, AwaitPrev, AwaitReady, HandOver,
     ReleaseNext, GiveUp, Worker, ReceiveTask, WorkerExit, ProcessTask, CountDone, LoadSending,
     LoadRemaining, SignalReady, Consumer, NextRow, CallNext, ReleaseBatch, ReleaseSlot,
     ReceiveBatch, ScanRow, CallClose, FinishClose
  <2> QED
    BY <1>k, <2>1
<1> QED
  BY <1>1, <1>2, <1>3, <1>4, <1>5, <1>6, <1>7, <1>8, <1>9, <1>10 DEF Producer

\* After the scan was cancelled the consumer is in close.
CancelInv == cancelled => cpc \in {"wait", "closed"}
LEMMA CancelStep == CancelInv /\ [Next]_vars => CancelInv'
  BY DEF CancelInv, Next, vars, consVars, Producer, AcquireSlot, TakePooled, RemakeReady,
     AllocateBatch, ReadPage, CountTask, PutTask, FinishBatch, SpawnEnqueuer, EnqueueEOF,
     ProducerExit, Enqueuer, AwaitPrev, AwaitReady, HandOver, ReleaseNext, GiveUp, Worker,
     ReceiveTask, WorkerExit, ProcessTask, CountDone, LoadSending, LoadRemaining, SignalReady,
     Consumer, NextRow, CallNext, ReleaseBatch, ReleaseSlot, ReceiveBatch, ScanRow, CallClose,
     FinishClose

\* The batch the consumer reads is pending, and the first of those with rows to come.
LEMMA Reading ==
    ASSUME Base
    PROVE  /\ cpc \in {"scan", "recycle"} => cur \in Pending /\ cur # 0
           /\ (cpc = "idle" /\ ~done /\ cur # 0) => cur \in Pending
           /\ cur \in Nat /\ taken \in Nat /\ curIdx \in Nat /\ Len(enq) \in Nat
           /\ cur <= taken /\ taken <= Len(enq) /\ cur \in {0, taken}
           /\ Pending \subseteq 1..Len(enq)
           /\ \A k \in Pending : k >= taken /\ (k # cur => k > taken)
<1>1. /\ cur \in Nat /\ taken \in Nat /\ curIdx \in Nat /\ Len(enq) \in Nat
      /\ cur \in {0, taken} /\ taken <= Len(enq)
  BY DEF Base, IInv, TypeOK, ChainInv, DeliveryOrder
<1>2. cpc \in {"scan", "recycle"} => cur # 0 /\ enq[cur] # EOF
  BY DEF Base, IInv, ConsumerInv
<1>3. cpc \in {"scan", "recycle"} => cur \in Pending /\ cur # 0
  BY <1>1, <1>2 DEF Pending
<1>4. (cpc = "idle" /\ ~done /\ cur # 0) => cur \in Pending
  <2>1. (~done /\ cur # 0) => enq[cur] # EOF
    BY DEF Base, IInv, ConsumerInv
  <2> QED
    BY <1>1, <2>1 DEF Pending
<1> QED
  BY <1>1, <1>3, <1>4 DEF Pending

LEMMA ReadStep ==
    ASSUME Base, TasksInv, PlaceInv, ReadInv, [Next]_vars PROVE ReadInv'
<1>0. cur \in Nat /\ curIdx \in Nat /\ queue \in Seq(Nat) /\ enq \in Seq(Batches \cup {EOF})
  BY DEF Base, IInv, TypeOK
<1>1. ASSUME UNCHANGED <<cur, curIdx>>, cpc' \in {"scan", "recycle"} => cpc' = cpc PROVE ReadInv'
  <2>1. cpc \in {"scan", "recycle"} => enq'[cur] = enq[cur] /\ obj'[enq[cur]].n = obj[enq[cur]].n
    BY Reading, LengthKept
  <2> QED
    BY <1>1, <2>1 DEF ReadInv
<1>2. CASE CallNext
  <2>1. /\ UNCHANGED <<enq, obj, cur, curIdx>> /\ cpc = "idle" /\ ~done
        /\ cpc' = IF cur = 0 THEN "recv"
                  ELSE IF curIdx < obj[enq[cur]].n THEN "scan" ELSE "recycle"
    BY <1>2 DEF CallNext, enqVars
  <2>2. cur # 0 => obj[enq[cur]].n \in Nat
    BY <2>1, Reading, DeliveryTypes, LengthKept DEF BatchFields
  <2> QED
    BY <1>0, <2>1, <2>2 DEF ReadInv
<1>3. CASE ReceiveBatch
  <2>1. /\ queue # <<>> /\ cur' = Head(queue) /\ curIdx' = 0 /\ enq' = enq /\ obj' = obj
        /\ (cpc' = "scan" /\ enq[Head(queue)] # EOF) \/ cpc' = "idle"
    BY <1>3 DEF ReceiveBatch, enqVars
  <2>2. Head(queue) = taken + 1 /\ Head(queue) \in 1..Len(enq)
    BY <1>0, <2>1 DEF Base, IInv, TypeOK, DeliveryOrder, ChainInv
  <2>3. enq[Head(queue)] # EOF => Head(queue) \in Pending
    BY <1>0, <2>2, Reading DEF Pending
  <2> QED
    BY <2>1, <2>3 DEF ReadInv, PlaceInv
<1>4. CASE ScanRow
  <2>1. /\ enq' = enq /\ obj' = obj /\ cur' = cur /\ curIdx' = curIdx + 1 /\ cpc = "scan"
        /\ \/ cpc' = IF curIdx + 1 < obj[enq[cur]].n THEN "scan" ELSE "recycle"
           \/ cpc' = "idle"
    BY <1>4 DEF ScanRow, enqVars
  <2>2. obj[enq[cur]].n \in Nat
    BY <2>1, Reading, DeliveryTypes, LengthKept DEF BatchFields
  <2> QED
    BY <1>0, <2>1, <2>2 DEF ReadInv
<1>5. CASE ~CallNext /\ ~ReceiveBatch /\ ~ScanRow
  <2>1. cpc' \in {"scan", "recycle"} => cpc' = cpc /\ UNCHANGED <<cur, curIdx>>
    BY <1>5 DEF Next, vars, consVars, Producer, AcquireSlot, TakePooled, RemakeReady,
     AllocateBatch, ReadPage, CountTask, PutTask, FinishBatch, SpawnEnqueuer, EnqueueEOF,
     ProducerExit, Enqueuer, AwaitPrev, AwaitReady, HandOver, ReleaseNext, GiveUp, Worker,
     ReceiveTask, WorkerExit, ProcessTask, CountDone, LoadSending, LoadRemaining, SignalReady,
     Consumer, NextRow, ReleaseBatch, ReleaseSlot, CallClose, FinishClose
  <2> QED
    BY <1>1, <2>1 DEF ReadInv
<1> QED
  BY <1>2, <1>3, <1>4, <1>5

\* The lanes with rows to come.
LEMMA LaneFacts ==
    ASSUME Base, TasksInv, NEW k \in Lanes
    PROVE  /\ k \in 1..Len(enq) + 1 /\ k \in Nat /\ k >= cur /\ BatchOf(k) \in live
           /\ Width(k) \in Nat
           /\ k = Len(enq) + 1 => Building /\ k # cur /\ BatchOf(k) = pb /\ Width(k) = fill
                                  /\ k \notin Pending
           /\ k # Len(enq) + 1 => k \in Pending /\ BatchOf(k) = enq[k] /\ Width(k) = obj[enq[k]].n
                                  /\ k \in 1..Len(enq)
<1>0. /\ Len(enq) \in Nat /\ Pending \subseteq 1..Len(enq) /\ cur <= Len(enq) /\ cur \in Nat
      /\ \A h \in Pending : h >= cur /\ enq[h] \in live
      /\ fill \in Nat /\ \A b \in live : obj[b].n \in Nat
      /\ Building => pb \in live
  BY Reading, DeliveryTypes DEF Base, OwnerInv, BatchFields, Building, Filling
<1>1. CASE k \in Pending
  BY <1>0, <1>1 DEF BatchOf, Width
<1>2. CASE k \notin Pending
  <2>1. k = Len(enq) + 1 /\ Building
    BY <1>2 DEF Lanes
  <2> QED
    BY <1>0, <1>2, <2>1 DEF BatchOf, Width
<1> QED
  BY <1>1, <1>2

LEMMA UnreadFacts ==
    ASSUME Base, TasksInv, NEW s \in Unread
    PROVE  /\ s = <<s[1], s[2]>> /\ s[1] \in Lanes /\ s[1] \in Nat /\ s[1] >= cur
           /\ s[2] \in 1..BatchRows /\ s[2] \in Nat /\ s[2] <= Width(s[1])
           /\ s[1] = cur => s[2] > curIdx
           /\ BatchOf(s[1]) \in live
<1>1. /\ s = <<s[1], s[2]>> /\ s[1] \in Lanes /\ s[2] \in 1..BatchRows
      /\ s[2] <= Width(s[1]) /\ (s[1] = cur => s[2] > curIdx)
  BY DEF Unread
<1>2. BatchRows \in Nat
  BY FastScanAssumption
<1> QED
  BY <1>1, <1>2, LaneFacts

\* What of the slots a step leaves unread: PutTask adds those of its task, ScanRow takes
\* one out, and no other step changes them; no lane changes its batch.
LEMMA UnreadStep ==
    ASSUME Base, TasksInv, Delivery, Order, CancelInv, [Next]_vars, ~cancelled'
    PROVE  /\ \A s \in Unread : BatchOf(s[1])' = BatchOf(s[1])
           /\ \A t : Sending(t) /\ PutTask =>
                 /\ Unread' = Unread \cup ({Len(enq) + 1} \X ((fill + 1)..(fill + t.n)))
                 /\ \A i \in (fill + 1)..(fill + t.n) :
                       i \in 1..BatchRows /\ BatchOf(Len(enq) + 1)' = pb
           /\ ScanRow => /\ <<cur, curIdx + 1>> \in Unread
                         /\ Unread' = Unread \ {<<cur, curIdx + 1>>}
           /\ (~PutTask /\ ~ScanRow) => Unread' = Unread
<1>0. /\ fill \in Nat /\ BatchRows \in Nat /\ Len(enq) \in Nat /\ Pending \subseteq 1..Len(enq)
      /\ cur \in Nat /\ curIdx \in Nat /\ cur <= Len(enq) /\ enq \in Seq(Batches \cup {EOF})
      /\ EOF \notin Batches /\ pb \in Batches
      /\ FillInv /\ IInv /\ PlaceInv /\ ReadInv
  BY Reading, FastScanAssumption DEF Base, IInv, TypeOK, Order
<1>l. \A k \in Pending : enq'[k] = enq[k] /\ obj'[enq[k]].n = obj[enq[k]].n
  BY LengthKept
<1>g. ASSUME \A k : \A i \in 1..BatchRows :
                (k \in Lanes' /\ i <= Width(k)' /\ (k = cur' => i > curIdx'))
                  <=> (k \in Lanes /\ i <= Width(k) /\ (k = cur => i > curIdx))
      PROVE  Unread' = Unread
  BY <1>g DEF Unread
<1>q. ASSUME UNCHANGED <<enq, cur, curIdx>>, Pending' = Pending,
             (Building /\ Building') => fill' = fill /\ pb' = pb,
             Building => Building' \/ fill = 0, Building' => Building \/ fill' = 0
      PROVE  Unread' = Unread /\ \A s \in Unread : BatchOf(s[1])' = BatchOf(s[1])
  <2>1. ASSUME NEW k, k # Len(enq) + 1 PROVE (k \in Lanes' <=> k \in Lanes) /\ BatchOf(k)' = BatchOf(k)
    BY <1>q, <2>1 DEF Lanes, BatchOf
  <2>2. ASSUME NEW k \in Lanes, k # Len(enq) + 1 PROVE Width(k)' = Width(k)
    <3>1. k \in Pending
      BY <2>2 DEF Lanes
    <3> QED
      BY <1>l, <1>q, <2>2, <3>1 DEF Width
  <2>3. Len(enq) + 1 \notin Pending
    BY <1>0
  <2>4. ASSUME NEW i \in 1..BatchRows
        PROVE  (Len(enq) + 1 \in Lanes' /\ i <= Width(Len(enq) + 1)')
                  <=> (Len(enq) + 1 \in Lanes /\ i <= Width(Len(enq) + 1))
    <3>1. (Len(enq) + 1 \in Lanes' <=> Building') /\ (Len(enq) + 1 \in Lanes <=> Building)
      BY <1>q, <2>3 DEF Lanes
    <3>2. Width(Len(enq) + 1)' = fill' /\ Width(Len(enq) + 1) = fill
      BY <1>q DEF Width
    <3> QED
      BY <1>0, <1>q, <3>1, <3>2
  <2>5. Unread' = Unread
    <3>1. ASSUME NEW k, NEW i \in 1..BatchRows
          PROVE  (k \in Lanes' /\ i <= Width(k)' /\ (k = cur' => i > curIdx'))
                  <=> (k \in Lanes /\ i <= Width(k) /\ (k = cur => i > curIdx))
      <4>1. CASE k = Len(enq) + 1
        BY <1>q, <2>4, <4>1
      <4>2. CASE k # Len(enq) + 1
        BY <1>q, <2>1, <2>2, <4>2
      <4> QED
        BY <4>1, <4>2
    <3> QED
      BY <1>g, <3>1
  <2>6. ASSUME NEW s \in Unread PROVE BatchOf(s[1])' = BatchOf(s[1])
    <3>1. CASE s[1] # Len(enq) + 1
      BY <2>1, <3>1
    <3>2. CASE s[1] = Len(enq) + 1
      <4>1. s[2] <= fill /\ s[2] \in 1..BatchRows /\ Building
        BY <3>2, UnreadFacts, LaneFacts
      <4>2. fill # 0
        BY <1>0, <4>1
      <4> QED
        BY <1>q, <3>2, <4>1, <4>2 DEF BatchOf
    <3> QED
      BY <3>1, <3>2
  <2> QED
    BY <2>5, <2>6
<1>1. CASE PutTask
  <2>1. PICK t : Sending(t)
    BY <1>0, <1>1, PutTaskSends DEF PutTask
  <2>2. /\ UNCHANGED <<enq, cur, curIdx, pb, obj>> /\ fill' = fill + t.n /\ t.n \in Nat
        /\ Building /\ Building' /\ fill + t.n <= BatchRows /\ Pending' = Pending /\ cpc' = cpc
    <3>1. ~SpawnEnqueuer /\ ~ReleaseBatch
      BY <1>1 DEF PutTask, SpawnEnqueuer, ReleaseBatch, consVars
    <3> QED
      BY <1>0, <1>1, <2>1, <3>1, PendingStep
      DEF Sending, PutTask, Building, Dispatch, FillInv, enqVars, consVars
  <2>3. /\ Lanes' = Lanes /\ Len(enq) + 1 \in Lanes /\ Len(enq) + 1 \notin Pending
        /\ Len(enq) + 1 # cur
    BY <1>0, <2>2 DEF Lanes
  <2>4. \A k : /\ BatchOf(k)' = BatchOf(k)
               /\ k # Len(enq) + 1 => Width(k)' = Width(k)
    BY <2>2 DEF BatchOf, Width
  <2>5. Width(Len(enq) + 1)' = fill + t.n /\ Width(Len(enq) + 1) = fill
        /\ BatchOf(Len(enq) + 1)' = pb
    BY <2>2 DEF Width, BatchOf
  <2> DEFINE New == {Len(enq) + 1} \X ((fill + 1)..(fill + t.n))
  <2>6. Unread' = Unread \cup New
    <3>1. ASSUME NEW k, NEW i \in 1..BatchRows
          PROVE  (k \in Lanes' /\ i <= Width(k)' /\ (k = cur' => i > curIdx'))
                  <=> \/ (k \in Lanes /\ i <= Width(k) /\ (k = cur => i > curIdx))
                      \/ (k = Len(enq) + 1 /\ i \in (fill + 1)..(fill + t.n))
      <4>1. CASE k = Len(enq) + 1
        BY <1>0, <2>2, <2>3, <2>5, <4>1
      <4>2. CASE k # Len(enq) + 1
        BY <2>2, <2>3, <2>4, <4>2
      <4> QED
        BY <4>1, <4>2
    <3>2. \A i \in (fill + 1)..(fill + t.n) : i \in 1..BatchRows
      BY <1>0, <2>2
    <3>3. \A k, i : <<k, i>> \in Unread' <=> <<k, i>> \in Unread \/ <<k, i>> \in New
      BY <2>3, <3>1, <3>2 DEF Unread
    <3>4. \A s : s \in Unread' \/ s \in Unread \/ s \in New => s = <<s[1], s[2]>>
      BY DEF Unread
    <3> HIDE DEF New
    <3> QED
      BY <3>3, <3>4
  <2>7. \A i \in (fill + 1)..(fill + t.n) : i \in 1..BatchRows
    BY <1>0, <2>2
  <2>8. ASSUME NEW u, Sending(u) PROVE u.n = t.n
    BY <2>1, <2>8 DEF Sending
  <2>9. ~ScanRow
    BY <1>1 DEF PutTask, ScanRow, consVars
  <2> QED
    BY <1>1, <2>4, <2>5, <2>6, <2>7, <2>8, <2>9
<1>2. CASE ScanRow
  <2>1. /\ UNCHANGED <<enq, cur, pb, obj, fill, ppc>> /\ curIdx' = curIdx + 1 /\ cpc = "scan"
    BY <1>2 DEF ScanRow, enqVars, prodVars
  <2>2. Pending' = Pending /\ cur \in Pending /\ curIdx < obj[enq[cur]].n
        /\ obj[enq[cur]].n <= BatchRows /\ obj[enq[cur]].n \in Nat
    <3>1. ~SpawnEnqueuer /\ ~ReleaseBatch
      BY <1>2 DEF ScanRow, SpawnEnqueuer, ReleaseBatch, prodVars
    <3>2. enq[cur] \in live
      BY <2>1, Reading, LengthKept
    <3> QED
      BY <1>0, <1>2, <2>1, <3>1, <3>2, PendingStep, Reading, DeliveryTypes
      DEF ReadInv, Delivery, RowsInv, BatchFields
  <2>3. \A k : /\ BatchOf(k)' = BatchOf(k) /\ Width(k)' = Width(k) /\ (k \in Lanes' <=> k \in Lanes)
    BY <2>1, <2>2 DEF BatchOf, Width, Lanes, Building
  <2>4. cur \in Lanes /\ Width(cur) = obj[enq[cur]].n
    BY <1>0, <2>2 DEF Lanes, Width
  <2>5. <<cur, curIdx + 1>> \in Unread
    BY <1>0, <2>2, <2>4 DEF Unread
  <2>6. Unread' = Unread \ {<<cur, curIdx + 1>>}
    <3>1. ASSUME NEW k, NEW i \in 1..BatchRows
          PROVE  (k \in Lanes' /\ i <= Width(k)' /\ (k = cur' => i > curIdx'))
                  <=> /\ k \in Lanes /\ i <= Width(k) /\ (k = cur => i > curIdx)
                      /\ ~(k = cur /\ i = curIdx + 1)
      BY <1>0, <2>1, <2>3
    <3>2. \A k, i : <<k, i>> \in Unread' <=> <<k, i>> \in Unread /\ <<k, i>> # <<cur, curIdx + 1>>
      BY <3>1 DEF Unread
    <3>3. \A s : s \in Unread' \/ s \in Unread => s = <<s[1], s[2]>>
      BY DEF Unread
    <3> QED
      BY <3>2, <3>3
  <2>7. ~PutTask
    BY <1>2 DEF PutTask, ScanRow, prodVars
  <2> QED
    BY <1>2, <2>3, <2>5, <2>6, <2>7
<1>3. CASE SpawnEnqueuer
  <2>1. /\ UNCHANGED <<cur, curIdx, fill, pb>> /\ enq' = Append(enq, pb) /\ ppc = "spawn"
        /\ ppc' \in {"slot", "eof"}
    BY <1>3 DEF SpawnEnqueuer, consVars
  <2>2. Len(enq') = Len(enq) + 1 /\ enq'[Len(enq) + 1] = pb /\ Pending' = Pending \cup {Len(enq) + 1}
        /\ \A k \in 1..Len(enq) : enq'[k] = enq[k]
    BY <1>0, <1>3, <2>1, PendingStep
  <2>3. Lanes' = Lanes
    BY <2>1, <2>2 DEF Lanes, Building
  <2>4. obj'[pb].n = fill
    <3>1. pb \in live /\ obj[pb].n = fill /\ ~FinishBatch
      BY <2>1 DEF Base, OwnerInv, Filling, Delivery, RowsInv, FinishBatch
    <3> QED
      BY <3>1, BatchContents
  <2>5. ASSUME NEW k \in Lanes PROVE Width(k)' = Width(k) /\ BatchOf(k)' = BatchOf(k)
    <3>1. CASE k = Len(enq) + 1
      <4>1. k # Len(enq') + 1
        BY <1>0, <2>2, <3>1
      <4> QED
        BY <2>2, <2>4, <3>1, <4>1 DEF Width, BatchOf
    <3>2. CASE k # Len(enq) + 1
      <4>1. k \in Pending /\ k # Len(enq') + 1
        BY <1>0, <2>2, <2>5, <3>2, LaneFacts
      <4> QED
        BY <1>l, <3>2, <4>1 DEF Width, BatchOf
    <3> QED
      BY <3>1, <3>2
  <2>6. Unread' = Unread
    BY <1>g, <2>1, <2>3, <2>5
  <2>7. ~PutTask /\ ~ScanRow
    BY <1>3 DEF PutTask, ScanRow, SpawnEnqueuer, prodVars
  <2> QED
    BY <2>5, <2>6, <2>7, UnreadFacts
<1>4. CASE EnqueueEOF
  <2>1. /\ UNCHANGED <<cur, curIdx, fill, pb>> /\ enq' = Append(enq, EOF) /\ ppc = "eof"
        /\ ppc' = "exit"
    BY <1>4 DEF EnqueueEOF, consVars
  <2>2. Pending' = Pending
    BY <1>0, <1>4, PendingStep DEF EnqueueEOF, SpawnEnqueuer, ReleaseBatch, consVars
  <2>3. Lanes' = Lanes /\ Lanes = Pending
    BY <2>1, <2>2 DEF Lanes, Building
  <2>5. ASSUME NEW k \in Lanes PROVE Width(k)' = Width(k) /\ BatchOf(k)' = BatchOf(k)
    <3>1. k \in Pending /\ k # Len(enq) + 1 /\ k # Len(enq') + 1
      BY <1>0, <2>1, <2>3, <2>5
    <3> QED
      BY <1>l, <3>1 DEF Width, BatchOf
  <2>6. Unread' = Unread
    BY <1>g, <2>1, <2>3, <2>5
  <2>7. ~PutTask /\ ~ScanRow
    BY <1>4 DEF PutTask, ScanRow, EnqueueEOF, prodVars
  <2> QED
    BY <2>5, <2>6, <2>7, UnreadFacts
<1>5. CASE ReleaseBatch \/ ReleaseSlot \/ ReceiveBatch
  <2>1. UNCHANGED <<enq, obj, fill, pb, ppc>>
    BY <1>5 DEF ReleaseBatch, ReleaseSlot, ReceiveBatch, enqVars, prodVars
  <2>2. \A k : Width(k)' = Width(k) /\ BatchOf(k)' = BatchOf(k)
    BY <2>1 DEF Width, BatchOf
  <2>3. Building' <=> Building
    BY <2>1 DEF Building
  <2>4. Unread' = Unread
    <3>1. CASE ReleaseBatch
      <4>1. cpc = "recycle" /\ UNCHANGED <<cur, curIdx>>
        BY <3>1 DEF ReleaseBatch
      <4>2. Pending' = Pending \ {cur} /\ cur \in Pending
        BY <1>0, <3>1, PendingStep
      <4>3. curIdx >= Width(cur) /\ cur # Len(enq) + 1 /\ Width(cur) \in Nat
        <5>1. cur \in Lanes /\ cur # Len(enq) + 1
          BY <1>0, <4>2 DEF Lanes
        <5> QED
          BY <1>0, <4>1, <5>1, LaneFacts DEF ReadInv
      <4>4. \A k : k \in Lanes' <=> k \in Lanes /\ k # cur
        BY <2>1, <2>3, <4>2, <4>3 DEF Lanes
      <4> QED
        BY <1>0, <1>g, <2>2, <4>1, <4>3, <4>4
    <3>2. CASE ReleaseSlot
      <4>1. cpc = "free" /\ cur' = 0 /\ curIdx' = curIdx
        BY <3>2 DEF ReleaseSlot
      <4>2. Pending' = Pending
        BY <1>0, <3>2, PendingStep DEF ReleaseSlot, SpawnEnqueuer, ReleaseBatch, prodVars
      <4>3. Lanes' = Lanes
        BY <2>1, <2>3, <4>2 DEF Lanes
      <4>4. cur \notin Pending /\ 0 \notin Pending /\ cur # Len(enq) + 1 /\ 0 # Len(enq) + 1
        BY <1>0, <4>1, Reading DEF Pending
      <4>5. cur \notin Lanes /\ 0 \notin Lanes
        BY <4>4 DEF Lanes
      <4> QED
        BY <1>g, <2>2, <4>1, <4>3, <4>5
    <3>3. CASE ReceiveBatch
      <4>1. cpc = "recv" /\ curIdx' = 0 /\ cur = 0
        BY <1>0, <3>3 DEF ReceiveBatch, FillInv
      <4>2. Pending' = Pending
        BY <1>0, <3>3, PendingStep DEF ReceiveBatch, SpawnEnqueuer, ReleaseBatch, prodVars
      <4>3. Lanes' = Lanes
        BY <2>1, <2>3, <4>2 DEF Lanes
      <4>4. 0 \notin Lanes
        BY <1>0, LaneFacts
      <4>5. \A i \in 1..BatchRows : i > 0
        BY <1>0
      <4> QED
        BY <1>g, <2>2, <4>1, <4>3, <4>4, <4>5
    <3> QED
      BY <1>5, <3>1, <3>2, <3>3
  <2>5. ~PutTask /\ ~ScanRow
    BY <1>5 DEF PutTask, ScanRow, ReleaseBatch, ReleaseSlot, ReceiveBatch, prodVars
  <2> QED
    BY <2>2, <2>4, <2>5
<1>6. CASE /\ ~PutTask /\ ~ScanRow /\ ~SpawnEnqueuer /\ ~EnqueueEOF
           /\ ~ReleaseBatch /\ ~ReleaseSlot /\ ~ReceiveBatch
  <2>1. Pending' = Pending
    BY <1>0, <1>6, PendingStep
  <2>2. UNCHANGED <<enq, cur, curIdx>>
    BY <1>6 DEF Next, vars, prodVars, enqVars, consVars, Producer, AcquireSlot, TakePooled,
     RemakeReady, AllocateBatch, ReadPage, CountTask, FinishBatch, ProducerExit, Enqueuer,
     AwaitPrev, AwaitReady, HandOver, ReleaseNext, GiveUp, Worker, ReceiveTask, WorkerExit,
     ProcessTask, CountDone, LoadSending, LoadRemaining, SignalReady, Consumer, NextRow, CallNext,
     CallClose, FinishClose
  <2> DEFINE Kept == /\ (Building /\ Building') => fill' = fill /\ pb' = pb
                     /\ Building => Building' \/ fill = 0
                     /\ Building' => Building \/ fill' = 0
  <2>3. ASSUME UNCHANGED <<ppc, fill, pb>> PROVE Kept
    BY <2>3 DEF Building
  <2>4. ASSUME AcquireSlot \/ TakePooled \/ ProducerExit PROVE Kept
    BY <2>4 DEF AcquireSlot, TakePooled, ProducerExit, Building
  <2>5. ASSUME RemakeReady \/ AllocateBatch PROVE Kept
    BY <2>5 DEF RemakeReady, AllocateBatch, StartFilling, Building
  <2>6. ASSUME ReadPage PROVE Kept
    <3>1. ppc' = "eof" => fill = 0
      BY <1>0, <2>6 DEF ReadPage, AfterLastPage, Dispatch
    <3>2. fill' = fill /\ pb' = pb /\ ppc = "page" /\ ppc' \in {"page", "flush", "send", "eof"}
      BY <2>6 DEF ReadPage, AfterLastPage, Dispatch
    <3> QED
      BY <3>1, <3>2 DEF Building
  <2>7. ASSUME CountTask \/ FinishBatch PROVE Kept
    BY <2>7 DEF CountTask, FinishBatch, Building
  <2>8. ASSUME ~Producer PROVE Kept
    <3>1. UNCHANGED prodVars
      BY <2>8 DEF Next, vars, Enqueuer, AwaitPrev, AwaitReady, HandOver, ReleaseNext, GiveUp,
     Worker, ReceiveTask, WorkerExit, ProcessTask, CountDone, LoadSending, LoadRemaining,
     SignalReady, Consumer, NextRow, CallNext, ReleaseBatch, ReleaseSlot, ReceiveBatch, ScanRow,
     CallClose, FinishClose
    <3> QED
      BY <2>3, <3>1 DEF prodVars
  <2>9. Kept
    BY <1>6, <2>3, <2>4, <2>5, <2>6, <2>7, <2>8 DEF Producer
  <2> QED
    BY <1>6, <1>q, <2>1, <2>2, <2>9
<1> QED
  BY <1>1, <1>2, <1>3, <1>4, <1>5, <1>6


------------------------------------------------------------------------------
(* The order of the rows *)

\* The selected rows of the table behind a row.
LEMMA SelectedRows ==
    ASSUME NEW id, NEW r
    PROVE  r \in Scan!Selected(table, id)
              <=> \E p \in 1..Len(table) : \E k \in 1..Len(table[p]) :
                     /\ r = <<p, k>> /\ table[p][k]
                     /\ p > id[1] \/ (p = id[1] /\ k > id[2])
<1>1. ASSUME r \in Scan!Selected(table, id)
      PROVE  \E p \in 1..Len(table) : \E k \in 1..Len(table[p]) :
                /\ r = <<p, k>> /\ table[p][k]
                /\ p > id[1] \/ (p = id[1] /\ k > id[2])
  <2>1. PICK p \in 1..Len(table) : \E k \in 1..Len(table[p]) : r = <<p, k>>
    BY <1>1 DEF Scan!Selected, Scan!After
  <2>2. PICK k \in 1..Len(table[p]) : r = <<p, k>>
    BY <2>1
  <2>3. table[p][k] /\ (p > id[1] \/ (p = id[1] /\ k > id[2]))
    BY <1>1, <2>2 DEF Scan!Selected, Scan!After
  <2> QED
    BY <2>2, <2>3
<1>2. ASSUME NEW p \in 1..Len(table), NEW k \in 1..Len(table[p]), r = <<p, k>>, table[p][k],
             p > id[1] \/ (p = id[1] /\ k > id[2])
      PROVE  r \in Scan!Selected(table, id)
  <2>1. r \in Scan!After(table, id)
    BY <1>2 DEF Scan!After
  <2> QED
    BY <1>2, <2>1 DEF Scan!Selected
<1> QED
  BY <1>1, <1>2

\* The rows behind the one returned last are selected rows of the table.
LEMMA RestRows ==
    ASSUME Base, out \in Seq(Nat \X Nat)
    PROVE  /\ Scan!LastOf(out) \in Nat \X Nat
           /\ \A r : r \in Rest <=>
                 \E p \in 1..Len(table) : \E k \in 1..Len(table[p]) :
                     r = <<p, k>> /\ table[p][k] /\ Before(Scan!LastOf(out), r)
           /\ \A r \in Rest : r \in (Nat \ {0}) \X (Nat \ {0})
<1>0. /\ table \in Seq(Seq(BOOLEAN)) /\ Len(table) \in Nat
      /\ \A p \in 1..Len(table) : Len(table[p]) \in Nat
  BY FastScanAssumption DEF Base, IInv, TypeOK
<1>1. Scan!LastOf(out) \in Nat \X Nat
  <2>1. CASE out = <<>>
    BY <2>1 DEF Scan!LastOf, Scan!NoRow
  <2>2. CASE out # <<>>
    <3>1. Len(out) \in 1..Len(out)
      BY <2>2
    <3>2. out[Len(out)] \in Nat \X Nat
      BY <3>1
    <3> QED
      BY <2>2, <3>2 DEF Scan!LastOf
  <2> QED
    BY <2>1, <2>2
<1>2. PICK l1, l2 \in Nat : Scan!LastOf(out) = <<l1, l2>>
  BY <1>1
<1>3. ASSUME NEW r
      PROVE  r \in Rest <=>
                 \E p \in 1..Len(table) : \E k \in 1..Len(table[p]) :
                     r = <<p, k>> /\ table[p][k] /\ Before(Scan!LastOf(out), r)
  <2>1. r \in Rest <=> \E p \in 1..Len(table) : \E k \in 1..Len(table[p]) :
                     /\ r = <<p, k>> /\ table[p][k]
                     /\ p > l1 \/ (p = l1 /\ k > l2)
    <3>1. Rest = Scan!Selected(table, <<l1, l2>>)
      BY <1>2 DEF Rest
    <3>2. <<l1, l2>>[1] = l1 /\ <<l1, l2>>[2] = l2
      OBVIOUS
    <3> DEFINE id == <<l1, l2>>
    <3> HIDE DEF id
    <3>3. r \in Scan!Selected(table, id) <=> \E p \in 1..Len(table) : \E k \in 1..Len(table[p]) :
                     /\ r = <<p, k>> /\ table[p][k]
                     /\ p > id[1] \/ (p = id[1] /\ k > id[2])
      BY SelectedRows
    <3> QED
      BY <3>1, <3>2, <3>3 DEF id
  <2>2. ASSUME NEW p \in 1..Len(table), NEW k \in 1..Len(table[p]), r = <<p, k>>
        PROVE  Before(Scan!LastOf(out), r) <=> (p > l1 \/ (p = l1 /\ k > l2))
    <3>1. p \in Nat /\ k \in Nat
      BY <1>0
    <3> QED
      BY <1>2, <2>2, <3>1 DEF Before
  <2> QED
    BY <2>1, <2>2
<1>4. ASSUME NEW r \in Rest PROVE r \in (Nat \ {0}) \X (Nat \ {0})
  <2>1. PICK p \in 1..Len(table) : \E k \in 1..Len(table[p]) : r = <<p, k>>
    BY <1>3
  <2>2. PICK k \in 1..Len(table[p]) : r = <<p, k>>
    BY <2>1
  <2>3. p \in Nat \ {0} /\ k \in Nat \ {0}
    BY <1>0
  <2> QED
    BY <2>2, <2>3
<1> QED
  BY <1>1, <1>3, <1>4

\* Page order is a strict total order.
LEMMA BeforeOrders ==
    ASSUME NEW x \in Nat \X Nat, NEW y \in Nat \X Nat, NEW z \in Nat \X Nat
    PROVE  /\ ~Before(x, x)
           /\ Before(x, y) => ~Before(y, x)
           /\ (Before(x, y) /\ Before(y, z)) => Before(x, z)
           /\ (~Before(y, x) /\ Before(y, z)) => Before(x, z)
           /\ (Before(x, y) /\ ~Before(z, y)) => Before(x, z)
           /\ Before(x, y) \/ x = y \/ Before(y, x)
<1>1. PICK x1, x2 \in Nat : x = <<x1, x2>>
  OBVIOUS
<1>2. PICK y1, y2 \in Nat : y = <<y1, y2>>
  OBVIOUS
<1>3. PICK z1, z2 \in Nat : z = <<z1, z2>>
  OBVIOUS
<1> QED
  BY <1>1, <1>2, <1>3 DEF Before

\* Only PutTask appends to the tasks channel.
LEMMA SendingPuts ==
    ASSUME IInv, [Next]_vars, NEW t, Sending(t) PROVE PutTask
<1> SUFFICES ASSUME ~PutTask PROVE FALSE
  OBVIOUS
<1>1. tasks \in Seq(Task) /\ t \in Task /\ tasks' = Append(tasks, t)
  BY DEF IInv, TypeOK, Sending
<1>2. Len(tasks') = Len(tasks) + 1 /\ Len(tasks) \in Nat
  BY <1>1
<1>3. ASSUME NEW w \in Workers, ReceiveTask(w) PROVE Len(tasks') < Len(tasks)
  <2>1. tasks # <<>> /\ tasks' = Tail(tasks)
    BY <1>3 DEF ReceiveTask
  <2> QED
    BY <1>1, <2>1
<1>4. ASSUME \A w \in Workers : ~ReceiveTask(w) PROVE tasks' = tasks
  BY <1>4 DEF Next, vars, Producer, AcquireSlot, TakePooled, RemakeReady,
     AllocateBatch, ReadPage, CountTask, FinishBatch, SpawnEnqueuer, EnqueueEOF,
     ProducerExit, Enqueuer, AwaitPrev, AwaitReady, HandOver, ReleaseNext, GiveUp, Worker,
     WorkerExit, ProcessTask, CountDone, LoadSending, LoadRemaining, SignalReady,
     Consumer, NextRow, CallNext, ReleaseBatch, ReleaseSlot, ReceiveBatch, ScanRow, CallClose,
     FinishClose
<1> QED
  BY <1>2, <1>3, <1>4

\* What an unread slot will contain is settled.
LEMMA ContentKept ==
    ASSUME Base, TasksInv, Delivery, Order, CancelInv, [Next]_vars, ~cancelled',
           NEW s \in Unread
    PROVE  Content(s)' = Content(s)
<1>0. IInv /\ RoomInv /\ Len(enq) \in Nat /\ fill \in Nat /\ s[2] \in 1..BatchRows
      /\ s[2] \in Nat
  BY Reading, DeliveryTypes, UnreadFacts DEF Base, Order
<1>1. PICK b \in live : b = BatchOf(s[1])
  BY UnreadFacts
<1>2. PICK i \in 1..BatchRows : i = s[2]
  BY <1>0
<1>3. ASSUME NEW t, Sending(t), Covers(t, b, i) PROVE FALSE
  <2>1. PutTask /\ ppc = "put"
    BY <1>0, <1>3, SendingPuts DEF PutTask
  <2>2. t.batch = pb /\ t.slot = fill /\ t.n \in Nat /\ b = pb /\ i > fill
    BY <1>0, <1>2, <1>3 DEF Sending, Covers
  <2>3. s[1] = Len(enq) + 1
    <3>1. \A k \in Pending : enq[k] # pb
      BY <2>1 DEF Base, OwnerInv, Filling
    <3> QED
      BY <1>1, <2>2, <3>1, UnreadFacts, LaneFacts
  <2>4. s[2] <= fill
    BY <2>3, UnreadFacts, LaneFacts
  <2> QED
    BY <1>0, <1>2, <2>2, <2>4
<1>4. Value(b, i)' = Value(b, i)
  BY <1>0, <1>3, ValueKept
<1>5. BatchOf(s[1])' = b
  BY <1>1, UnreadStep
<1> QED
  BY <1>1, <1>2, <1>4, <1>5 DEF Content, Value, Cover

\* A batch the consumer reads has no task outstanding: its slots hold what they will.
LEMMA ReadContent ==
    ASSUME Base, TasksInv, Delivery, Order, cpc = "scan"
    PROVE  /\ <<cur, curIdx + 1>> \in Unread
           /\ Content(<<cur, curIdx + 1>>) = obj[enq[cur]].rows[curIdx + 1]
           /\ \A u \in Unread : u # <<cur, curIdx + 1>> => Before(<<cur, curIdx + 1>>, u)
<1>0. /\ cur \in Pending /\ cur \in Nat /\ curIdx \in Nat /\ Len(enq) \in Nat
      /\ cur \in 1..Len(enq) /\ cur \in {0, taken} /\ taken \in Nat /\ enq[cur] \in live
      /\ BatchRows \in Nat /\ IInv /\ cur # 0
  BY Reading, FastScanAssumption DEF Base, OwnerInv
<1>1. curIdx < obj[enq[cur]].n /\ obj[enq[cur]].n <= BatchRows /\ obj[enq[cur]].n \in Nat
  BY <1>0, DeliveryTypes DEF Order, ReadInv, Delivery, RowsInv, BatchFields
<1>2. epc[cur] \in {"sent", "done"}
  <2>1. cur = taken /\ cur \in 1..Len(epc) /\ Len(queue) \in Nat
    BY <1>0 DEF IInv, ChainInv, TypeOK
  <2>2. Sent(cur)
    BY <1>0, <2>1 DEF IInv, ChainInv
  <2> QED
    BY <2>2 DEF Sent
<1>3. obj[enq[cur]].closed /\ ~(ppc = "remake" /\ pb = enq[cur])
  BY <1>0, <1>2 DEF Base, OwnerInv, Delivery, ReadyInv, Filling
<1>4. TasksOf(enq[cur]) = {} /\ WorkersOn(enq[cur]) = {}
  BY <1>0, <1>3, Outstanding DEF Delivery, ReadyInv
<1>5. Cover(enq[cur], curIdx + 1) = {}
  BY <1>4 DEF Cover, Open, Covers, TasksOf, WorkersOn
<1>6. cur # Len(enq) + 1
  BY <1>0
<1>7. Content(<<cur, curIdx + 1>>) = obj[enq[cur]].rows[curIdx + 1]
  BY <1>5, <1>6 DEF Content, Value, BatchOf
<1>8. <<cur, curIdx + 1>> \in Unread
  BY <1>0, <1>1, <1>6 DEF Unread, Lanes, Width
<1>9. ASSUME NEW u \in Unread, u # <<cur, curIdx + 1>> PROVE Before(<<cur, curIdx + 1>>, u)
  <2>1. u = <<u[1], u[2]>> /\ u[1] \in Nat /\ u[2] \in Nat /\ u[1] >= cur
        /\ (u[1] = cur => u[2] > curIdx)
    BY UnreadFacts
  <2> QED
    BY <1>0, <1>9, <2>1 DEF Before
<1> QED
  BY <1>7, <1>8, <1>9

\* The row the consumer finds in a slot is the first of those still to come.
LEMMA FirstOfRest ==
    ASSUME Base, TasksInv, Delivery, Order, cpc = "scan",
           NEW c, c = obj[enq[cur]].rows[curIdx + 1], c # NoRow
    PROVE  /\ c \in Rest /\ c \in Nat \X Nat
           /\ ~Scan!LimitReached => \A r \in Rest : r # c => Before(c, r)
<1> DEFINE s0 == <<cur, curIdx + 1>>
<1> HIDE DEF s0
<1>1. /\ s0 \in Unread /\ Content(s0) = c
      /\ \A u \in Unread : u # s0 => Before(s0, u)
  BY ReadContent DEF s0
<1>2. /\ out \in Seq(Nat \X Nat) /\ pgNo \in Nat /\ rowNo \in Nat
      /\ \A r \in Rest : r \in Nat \X Nat
      /\ \A r \in Rest : r # NoRow
  <2>1. out \in Seq(Nat \X Nat)
    BY DEF Order, ScanInv
  <2>2. \A r \in Rest : r \in (Nat \ {0}) \X (Nat \ {0})
    BY <2>1, RestRows
  <2>3. NoRow \notin (Nat \ {0}) \X (Nat \ {0})
    BY DEF NoRow
  <2> QED
    BY <2>1, <2>2, <2>3 DEF Base, IInv, TypeOK
<1>3. c \in Rest /\ ~Undispatched(c)
  BY <1>1 DEF Order, ScanInv
<1>4. ASSUME ~Scan!LimitReached, NEW r \in Rest, r # c PROVE Before(c, r)
  <2>1. CASE Undispatched(r)
    <3>1. <<pgNo, rowNo>> \in Nat \X Nat /\ c \in Nat \X Nat /\ r \in Nat \X Nat
      BY <1>2, <1>3
    <3>2. ~Before(<<pgNo, rowNo>>, c) /\ Before(<<pgNo, rowNo>>, r)
      BY <1>3, <2>1 DEF Undispatched
    <3> DEFINE p == <<pgNo, rowNo>>
    <3> HIDE DEF p
    <3>3. p \in Nat \X Nat /\ ~Before(p, c) /\ Before(p, r)
      BY <3>1, <3>2 DEF p
    <3> QED
      BY <3>1, <3>3, BeforeOrders
  <2>2. CASE ~Undispatched(r)
    <3>1. PICK s \in Unread : Content(s) = r
      BY <1>4, <2>2 DEF Order, ScanInv
    <3>2. s # s0
      BY <1>1, <1>4, <3>1
    <3>3. Before(s0, s)
      BY <1>1, <3>1, <3>2
    <3> QED
      BY <1>1, <1>2, <3>1, <3>3 DEF Order, ScanInv
  <2> QED
    BY <2>1, <2>2
<1> QED
  BY <1>2, <1>3, <1>4

\* The step of the consumer: it returns the first row still to come, or none.
LEMMA ScanRowKinds ==
    ASSUME Base, TasksInv, Delivery, Order, ScanRow, NEW c,
           c = obj[enq[cur]].rows[curIdx + 1]
    PROVE  /\ cpc = "scan" /\ UNCHANGED <<query, prodVars, cancelled, done>>
           /\ (c = NoRow \/ Scan!LimitReached) => out' = out
           /\ (c # NoRow /\ ~Scan!LimitReached) =>
                 /\ out' = Append(out, c) /\ Scan!LastOf(out)' = c
                 /\ out' \in Seq(Nat \X Nat)
                 /\ Rest' = Rest \ {c}
                 /\ \A r \in Rest' : Before(c, r)
<1>0. /\ out \in Seq(Nat \X Nat) /\ Len(out) \in Nat /\ limit \in Nat \cup {-1}
      /\ cpc = "scan"
  BY FastScanAssumption DEF Order, ScanInv, Base, IInv, TypeOK, ScanRow
<1>1. Scan!LimitReached <=> limit # NoLimit /\ Len(out) >= limit
  BY <1>0 DEF Scan!LimitReached, NoLimit
<1>2. /\ UNCHANGED <<query, prodVars, cancelled, done>>
      /\ out' = IF c = NoRow THEN out
                ELSE IF limit # NoLimit /\ Len(out) >= limit THEN out ELSE Append(out, c)
  BY DEF ScanRow, histVars
<1>3. ASSUME c # NoRow, ~Scan!LimitReached
      PROVE  /\ out' = Append(out, c) /\ Scan!LastOf(out)' = c
             /\ out' \in Seq(Nat \X Nat)
             /\ Rest' = Rest \ {c}
             /\ \A r \in Rest' : Before(c, r)
  <2>1. c \in Rest /\ c \in Nat \X Nat /\ \A r \in Rest : r # c => Before(c, r)
    BY <1>0, <1>3, FirstOfRest
  <2>2. out' = Append(out, c)
    BY <1>1, <1>2, <1>3
  <2>3. out' \in Seq(Nat \X Nat) /\ out' # <<>> /\ out'[Len(out')] = c
    BY <1>0, <2>1, <2>2
  <2>4. Scan!LastOf(out)' = c
    BY <2>3 DEF Scan!LastOf
  <2>5. table' = table
    BY <1>2 DEF query
  <2>6. PICK l \in Nat \X Nat : l = Scan!LastOf(out)
    BY <1>0, RestRows
  <2>7. Rest' = Scan!Selected(table, c)
    BY <2>4, <2>5 DEF Rest, Scan!Selected, Scan!After
  <2>8. ASSUME NEW r PROVE r \in Scan!Selected(table, c) <=> r \in Rest /\ Before(c, r)
    <3>1. r \in Scan!Selected(table, c) <=>
             \E p \in 1..Len(table) : \E k \in 1..Len(table[p]) :
                r = <<p, k>> /\ table[p][k] /\ (p > c[1] \/ (p = c[1] /\ k > c[2]))
      BY SelectedRows
    <3>2. r \in Rest <=> \E p \in 1..Len(table) : \E k \in 1..Len(table[p]) :
                     r = <<p, k>> /\ table[p][k] /\ Before(l, r)
      BY <1>0, <2>6, RestRows
    <3>3. Before(l, c)
      BY <1>0, <2>1, <2>6, RestRows
    <3>4. ASSUME NEW p \in 1..Len(table), NEW k \in 1..Len(table[p]), r = <<p, k>>
          PROVE  /\ (p > c[1] \/ (p = c[1] /\ k > c[2])) <=> Before(c, r)
                 /\ Before(c, r) => Before(l, r)
      <4>1. p \in Nat /\ k \in Nat /\ c[1] \in Nat /\ c[2] \in Nat /\ r \in Nat \X Nat
        BY <2>1, <3>4
      <4>2. (p > c[1] \/ (p = c[1] /\ k > c[2])) <=> Before(c, r)
        BY <3>4, <4>1 DEF Before
      <4>3. Before(c, r) => Before(l, r)
        BY <2>1, <2>6, <3>3, <4>1, BeforeOrders
      <4> QED
        BY <4>2, <4>3
    <3> QED
      BY <3>1, <3>2, <3>4
  <2>9. ~Before(c, c)
    BY <2>1, BeforeOrders
  <2>10. Rest' = Rest \ {c}
    BY <2>1, <2>7, <2>8, <2>9
  <2> QED
    BY <2>1, <2>2, <2>3, <2>4, <2>10
<1> QED
  BY <1>0, <1>1, <1>2, <1>3

LEMMA ScanRowOrder ==
    ASSUME Base, TasksInv, Delivery, Order, CancelInv, [Next]_vars, ~cancelled', ScanRow
    PROVE  ScanInv'
<1> DEFINE s0 == <<cur, curIdx + 1>>
<1> HIDE DEF s0
<1>1. PICK c : c = obj[enq[cur]].rows[curIdx + 1]
  OBVIOUS
<1>2. /\ s0 \in Unread /\ Content(s0) = c /\ Unread' = Unread \ {s0}
      /\ \A u \in Unread : u # s0 => Before(s0, u)
      /\ cpc = "scan"
  BY <1>1, ReadContent, UnreadStep DEF s0, ScanRow
<1>3. \A s \in Unread : Content(s)' = Content(s)
  BY ContentKept
<1>4. /\ out \in Seq(Nat \X Nat) /\ ScanInv
      /\ \A r \in Rest : r # NoRow
  <2>1. out \in Seq(Nat \X Nat) /\ ScanInv
    BY DEF Order, ScanInv
  <2>2. \A r \in Rest : r \in (Nat \ {0}) \X (Nat \ {0})
    BY <2>1, RestRows
  <2>3. NoRow \notin (Nat \ {0}) \X (Nat \ {0})
    BY DEF NoRow
  <2> QED
    BY <2>1, <2>2, <2>3
<1>5. /\ pgNo' = pgNo /\ rowNo' = rowNo
      /\ \A s \in Unread : Undispatched(Content(s))' <=> Undispatched(Content(s))
      /\ \A r : Undispatched(r)' <=> Undispatched(r)
  <2>1. pgNo' = pgNo /\ rowNo' = rowNo
    BY <1>1, ScanRowKinds DEF prodVars
  <2> QED
    BY <1>3, <2>1 DEF Undispatched
<1>6. table' = table /\ limit' = limit
  BY <1>1, ScanRowKinds DEF query
<1>7. \A s, u \in Unread' : (Before(s, u) /\ Content(s)' # NoRow /\ Content(u)' # NoRow)
                                => Before(Content(s)', Content(u)')
  BY <1>2, <1>3, <1>4 DEF ScanInv
<1>8. CASE c = NoRow \/ Scan!LimitReached
  <2>1. out' = out
    BY <1>1, <1>8, ScanRowKinds
  <2>2. /\ Rest' = Rest /\ Scan!LastOf(out)' = Scan!LastOf(out)
        /\ (Scan!LimitReached' <=> Scan!LimitReached)
    <3>1. Scan!LastOf(out)' = Scan!LastOf(out)
      BY <2>1 DEF Scan!LastOf, Scan!NoRow
    <3>2. Rest' = Rest
      BY <1>6, <2>1, <3>1 DEF Rest, Scan!Selected, Scan!After
    <3>3. Scan!LimitReached' <=> Scan!LimitReached
      BY <1>6, <2>1 DEF Scan!LimitReached
    <3> QED
      BY <3>1, <3>2, <3>3
  <2>3. \A s \in Unread' : Content(s)' # NoRow => Content(s)' \in Rest' /\ ~Undispatched(Content(s))'
    BY <1>2, <1>3, <1>4, <1>5, <2>2 DEF ScanInv
  <2>4. ASSUME ~Scan!LimitReached, NEW r \in Rest
        PROVE  Undispatched(r) \/ \E s \in Unread' : Content(s)' = r
    BY <1>2, <1>3, <1>4, <1>8, <2>4 DEF ScanInv
  <2> QED
    BY <1>4, <1>5, <1>7, <2>1, <2>2, <2>3, <2>4 DEF ScanInv
<1>9. CASE c # NoRow /\ ~Scan!LimitReached
  <2>1. /\ Scan!LastOf(out)' = c /\ out' \in Seq(Nat \X Nat) /\ Rest' = Rest \ {c}
        /\ \A r \in Rest' : Before(c, r)
    BY <1>1, <1>9, ScanRowKinds
  <2>2. ASSUME NEW s \in Unread', Content(s)' # NoRow
        PROVE  Content(s)' \in Rest' /\ ~Undispatched(Content(s))'
    <3>1. s \in Unread /\ s # s0 /\ Content(s)' = Content(s) /\ Before(s0, s)
      BY <1>2, <1>3, <2>2
    <3>2. Content(s) \in Rest /\ ~Undispatched(Content(s)) /\ Before(c, Content(s))
      BY <1>2, <1>4, <1>9, <2>2, <3>1 DEF ScanInv
    <3>3. c \in Nat \X Nat
      BY <1>1, <1>2, <1>9, FirstOfRest
    <3>4. ~Before(c, c)
      BY <3>3, BeforeOrders
    <3> QED
      BY <1>5, <2>1, <3>1, <3>2, <3>4
  <2>3. ~Undispatched(c)
    BY <1>2, <1>4, <1>9 DEF ScanInv
  <2>4. ASSUME NEW r \in Rest'
        PROVE  Undispatched(r) \/ \E s \in Unread' : Content(s)' = r
    <3>1. Undispatched(r) \/ \E s \in Unread : Content(s) = r
      BY <1>4, <1>9, <2>1, <2>4 DEF ScanInv
    <3> QED
      BY <1>2, <1>3, <2>1, <2>4, <3>1
  <2> QED
    BY <1>5, <1>7, <2>1, <2>2, <2>3, <2>4 DEF ScanInv
<1> QED
  BY <1>8, <1>9

\* The rest of the table stays when nothing is returned.
LEMMA RestKept ==
    ASSUME [Next]_vars, ~ScanRow
    PROVE  /\ table' = table /\ limit' = limit /\ out' = out /\ Rest' = Rest
           /\ Scan!LastOf(out)' = Scan!LastOf(out)
           /\ Scan!LimitReached' <=> Scan!LimitReached
<1>1. table' = table /\ limit' = limit /\ out' = out
  BY DEF Next, vars, query, consVars, Producer, AcquireSlot, TakePooled, RemakeReady,
     AllocateBatch, ReadPage, CountTask, PutTask, FinishBatch, SpawnEnqueuer, EnqueueEOF,
     ProducerExit, Enqueuer, AwaitPrev, AwaitReady, HandOver, ReleaseNext, GiveUp, Worker,
     ReceiveTask, WorkerExit, ProcessTask, CountDone, LoadSending, LoadRemaining, SignalReady,
     Consumer, NextRow, CallNext, ReleaseBatch, ReleaseSlot, ReceiveBatch, CallClose, FinishClose
<1>2. Scan!LastOf(out)' = Scan!LastOf(out)
  BY <1>1 DEF Scan!LastOf, Scan!NoRow
<1>3. Rest' = Rest
  BY <1>1, <1>2 DEF Rest, Scan!Selected, Scan!After
<1>4. Scan!LimitReached' <=> Scan!LimitReached
  BY <1>1 DEF Scan!LimitReached
<1> QED
  BY <1>1, <1>2, <1>3, <1>4

\* Reading the next page passes no row of the table by.
LEMMA ReadPageOrder ==
    ASSUME Base, TasksInv, Delivery, Order, CancelInv, [Next]_vars, ~cancelled', ReadPage
    PROVE  ScanInv'
<1>0. /\ out \in Seq(Nat \X Nat) /\ ScanInv /\ PlaceInv /\ pgNo \in Nat /\ rowNo \in Nat
      /\ Len(table) \in Nat /\ \A p \in 1..Len(table) : Len(table[p]) \in Nat
      /\ ppc = "page"
  BY FastScanAssumption DEF Order, ScanInv, Base, IInv, TypeOK, ReadPage
<1>1. ~ScanRow /\ ~PutTask
  <2>1. curIdx' = curIdx /\ curIdx \in Nat
    BY DEF ReadPage, consVars, Base, IInv, TypeOK
  <2> QED
    BY <1>0, <2>1 DEF ScanRow, PutTask
<1>2. Unread' = Unread /\ \A s \in Unread : Content(s)' = Content(s)
  BY <1>1, UnreadStep, ContentKept
<1>3. /\ out' = out /\ Rest' = Rest /\ Scan!LastOf(out)' = Scan!LastOf(out)
      /\ Scan!LimitReached' <=> Scan!LimitReached
  BY <1>1, RestKept
<1>4. (pgNo' = pgNo + 1 /\ rowNo' = 0) \/ (pgNo' = pgNo /\ rowNo' = rowNo)
  BY DEF ReadPage
<1>5. ASSUME NEW r \in Nat \X Nat, Before(<<pgNo', rowNo'>>, r)
      PROVE  Undispatched(r)
  <2>1. PICK r1, r2 \in Nat : r = <<r1, r2>>
    OBVIOUS
  <2> QED
    BY <1>0, <1>4, <1>5, <2>1 DEF Undispatched, Before
<1>6. ASSUME NEW r \in Rest, Undispatched(r)
      PROVE  Before(<<pgNo', rowNo'>>, r)
  <2>1. PICK p \in 1..Len(table) : \E k \in 1..Len(table[p]) : r = <<p, k>>
    BY <1>0, RestRows
  <2>2. PICK k \in 1..Len(table[p]) : r = <<p, k>>
    BY <2>1
  <2>3. p \in Nat /\ k \in Nat /\ k <= Len(table[p]) /\ Len(table[p]) \in Nat /\ p > 0 /\ k > 0
    BY <1>0
  <2>4. pgNo < p
    <3>1. pgNo < p \/ (pgNo = p /\ rowNo < k)
      BY <1>6, <2>2 DEF Undispatched, Before
    <3>2. pgNo = p => rowNo >= Len(table[p])
      BY <1>0, <2>3 DEF PlaceInv
    <3> QED
      BY <1>0, <2>3, <3>1, <3>2
  <2> QED
    BY <1>0, <1>4, <1>6, <2>2, <2>3, <2>4 DEF Undispatched, Before
<1>7. \A r \in Rest : r \in Nat \X Nat
  BY <1>0, RestRows
<1>8. Scan!LastOf(out) \in Nat \X Nat
  BY <1>0, RestRows
<1>9. \A s \in Unread' : Content(s)' # NoRow => Content(s)' \in Rest' /\ ~Undispatched(Content(s))'
  <2>1. ASSUME NEW s \in Unread, Content(s) # NoRow
        PROVE  Content(s)' \in Rest' /\ ~Undispatched(Content(s))'
    <3>1. PICK r \in Rest : r = Content(s)
      BY <1>0, <2>1 DEF ScanInv
    <3>2. ~Undispatched(r) /\ r \in Nat \X Nat
      BY <1>0, <1>7, <2>1, <3>1 DEF ScanInv
    <3>3. ~Before(<<pgNo', rowNo'>>, r)
      BY <1>5, <3>2
    <3>4. Content(s)' = r
      BY <1>2, <3>1
    <3> QED
      BY <1>3, <3>1, <3>3, <3>4 DEF Undispatched
  <2> QED
    BY <1>2, <2>1
<1>10. ~Undispatched(Scan!LastOf(out))'
  <2>1. PICK l \in Nat \X Nat : l = Scan!LastOf(out)
    BY <1>8
  <2>2. ~Undispatched(l)
    BY <1>0, <2>1 DEF ScanInv
  <2>3. ~Before(<<pgNo', rowNo'>>, l)
    BY <1>5, <2>2
  <2> QED
    BY <1>3, <2>1, <2>3 DEF Undispatched
<1>11. ASSUME ~Scan!LimitReached, NEW r \in Rest
       PROVE  Undispatched(r)' \/ \E s \in Unread' : Content(s)' = r
  <2>1. CASE Undispatched(r)
    BY <1>6, <2>1 DEF Undispatched
  <2>2. CASE \E s \in Unread : Content(s) = r
    BY <1>2, <2>2
  <2> QED
    BY <1>0, <1>11, <2>1, <2>2 DEF ScanInv
<1>12. \A s, u \in Unread' : (Before(s, u) /\ Content(s)' # NoRow /\ Content(u)' # NoRow)
                                => Before(Content(s)', Content(u)')
  BY <1>0, <1>2 DEF ScanInv
<1> QED
  BY <1>0, <1>3, <1>9, <1>10, <1>11, <1>12 DEF ScanInv

\* A task covers the next rows of the page, behind all those dispatched before.
LEMMA PutTaskOrder ==
    ASSUME Base, TasksInv, Delivery, Order, CancelInv, [Next]_vars, ~cancelled', PutTask
    PROVE  ScanInv'
<1>0. /\ out \in Seq(Nat \X Nat) /\ ScanInv /\ RoomInv /\ pgNo \in Nat /\ rowNo \in Nat
      /\ fill \in Nat /\ Len(enq) \in Nat /\ BatchRows \in Nat /\ TaskRows \in Nat
      /\ Len(table) \in Nat /\ \A p \in 1..Len(table) : Len(table[p]) \in Nat
      /\ IInv /\ ppc = "put" /\ pb \in Batches
  <2>1. /\ IInv /\ TypeOK /\ fill \in Nat /\ pb \in Batches /\ Len(enq) \in Nat
    BY DeliveryTypes, Reading
  <2>2. table \in Seq(Seq(BOOLEAN)) /\ pgNo \in Nat /\ rowNo \in Nat
        /\ BatchRows \in Nat /\ TaskRows \in Nat
    BY <2>1, FastScanAssumption DEF TypeOK
  <2>3. out \in Seq(Nat \X Nat) /\ ScanInv /\ RoomInv /\ ppc = "put"
    BY DEF Order, ScanInv, PutTask
  <2> QED
    BY <2>1, <2>2, <2>3
<1>1. PICK t : Sending(t)
  <2>1. cancelled' = cancelled
    BY DEF PutTask
  <2> QED
    BY <1>0, <2>1, PutTaskSends
<1>2. /\ t.n \in Nat \ {0} /\ t.n = TaskSize(pgNo, rowNo) /\ t.slot = fill /\ t.batch = pb
      /\ t.page = pgNo /\ t.first = rowNo /\ rowNo' = rowNo + t.n /\ pgNo' = pgNo
      /\ tasks' = Append(tasks, t) /\ obj' = obj /\ t \in Task
  BY <1>1 DEF Sending, PutTask
<1>3. pgNo \in 1..Len(table) /\ rowNo + t.n <= Len(table[pgNo]) /\ pgNo > 0
  <2>1. pgNo \in 1..Len(table) /\ rowNo < Len(table[pgNo])
    BY <1>0 DEF IInv, ProducerInv
  <2> QED
    BY <1>0, <1>2, <2>1 DEF TaskSize, SmallerOf
<1>4. ~ScanRow
  <2>1. curIdx' = curIdx /\ curIdx \in Nat
    BY DEF PutTask, consVars, Base, IInv, TypeOK
  <2> QED
    BY <2>1 DEF ScanRow
<1>5. /\ out' = out /\ table' = table /\ Rest' = Rest
      /\ Scan!LastOf(out)' = Scan!LastOf(out)
      /\ Scan!LimitReached' <=> Scan!LimitReached
  BY <1>4, RestKept
<1> DEFINE New == {Len(enq) + 1} \X ((fill + 1)..(fill + t.n))
<1>6. /\ Unread' = Unread \cup New
      /\ \A i \in (fill + 1)..(fill + t.n) : i \in 1..BatchRows /\ BatchOf(Len(enq) + 1)' = pb
  BY <1>1, UnreadStep
<1>7. \A s \in Unread : Content(s)' = Content(s)
  BY ContentKept
<1>8. ASSUME NEW i \in (fill + 1)..(fill + t.n)
      PROVE  Content(<<Len(enq) + 1, i>>)' = Decoded(pgNo, rowNo + i - fill)
  <2>1. Open' = Open \cup {t}
    BY <1>0, <1>2, OpenSent DEF PutTask
  <2>2. \A u \in Open : u.batch = pb => u.slot + u.n <= fill /\ u.slot \in Nat /\ u.n \in Nat
    BY <1>0, OpenTasks DEF RoomInv, Building, Task
  <2>3. \A u \in Open : ~Covers(u, pb, i)
    BY <1>0, <2>2 DEF Covers
  <2>4. Covers(t, pb, i)
    BY <1>0, <1>2 DEF Covers
  <2>5. {u \in Open' : Covers(u, pb, i)} = {t}
    BY <2>1, <2>3, <2>4
  <2>6. BatchOf(Len(enq) + 1)' = pb
    BY <1>6
  <2>7. (CHOOSE u \in {t} : TRUE) = t
    OBVIOUS
  <2>8. Content(<<Len(enq) + 1, i>>)' = IF table[pgNo][rowNo + i - fill]
                                         THEN <<pgNo, rowNo + i - fill>> ELSE NoRow
    <3> DEFINE k == Len(enq) + 1
    <3>1. k' = k
      BY DEF PutTask, enqVars
    <3> QED
      BY <1>2, <1>5, <2>5, <2>6, <2>7, <3>1 DEF Content, Value, Cover, Covers, Decoded
  <2> QED
    BY <2>8 DEF Decoded
\* The rows of the task, and the positions before and behind them.
<1>9. ASSUME NEW r \in Nat \X Nat
      PROVE  /\ ~Undispatched(r) => ~Undispatched(r)'
             /\ (Undispatched(r) /\ ~Undispatched(r)') =>
                   \E i \in (fill + 1)..(fill + t.n) : r = <<pgNo, rowNo + i - fill>>
  <2>1. PICK p, k \in Nat : r = <<p, k>>
    OBVIOUS
  <2>2. /\ Undispatched(r) <=> pgNo < p \/ (pgNo = p /\ rowNo < k)
        /\ Undispatched(r)' <=> pgNo < p \/ (pgNo = p /\ rowNo + t.n < k)
    BY <1>2, <2>1 DEF Undispatched, Before
  <2>3. ASSUME Undispatched(r), ~Undispatched(r)'
        PROVE  \E i \in (fill + 1)..(fill + t.n) : r = <<pgNo, rowNo + i - fill>>
    <3>1. pgNo = p /\ rowNo < k /\ k <= rowNo + t.n
      BY <1>0, <1>2, <2>1, <2>2, <2>3
    <3>2. PICK i \in Int : i = fill + (k - rowNo)
      BY <1>0, <2>1
    <3>3. i \in (fill + 1)..(fill + t.n) /\ rowNo + i - fill = k
      BY <1>0, <1>2, <2>1, <3>1, <3>2
    <3> QED
      BY <2>1, <3>1, <3>3
  <2> QED
    BY <1>0, <1>2, <2>1, <2>2, <2>3
<1>10. ASSUME NEW i \in (fill + 1)..(fill + t.n)
       PROVE  /\ rowNo + i - fill \in 1..Len(table[pgNo]) /\ rowNo + i - fill \in Nat
              /\ Undispatched(<<pgNo, rowNo + i - fill>>)
              /\ ~Before(<<pgNo, rowNo + t.n>>, <<pgNo, rowNo + i - fill>>)
  BY <1>0, <1>2, <1>3 DEF Undispatched, Before
\* Where the slots are.
<1>11. \A s \in Unread : s = <<s[1], s[2]>> /\ s[1] \in Nat /\ s[2] \in Nat /\ s[1] <= Len(enq) + 1
                         /\ (s[1] = Len(enq) + 1 => s[2] <= fill)
  <2>1. ASSUME NEW s \in Unread
        PROVE  s = <<s[1], s[2]>> /\ s[1] \in Nat /\ s[2] \in Nat /\ s[1] <= Len(enq) + 1
               /\ (s[1] = Len(enq) + 1 => s[2] <= fill)
    <3>1. s = <<s[1], s[2]>> /\ s[1] \in Lanes /\ s[2] \in Nat /\ s[2] <= Width(s[1])
      BY UnreadFacts
    <3>2. s[1] \in 1..Len(enq) + 1 /\ (s[1] = Len(enq) + 1 => Width(s[1]) = fill)
      BY <3>1, LaneFacts
    <3> QED
      BY <1>0, <3>1, <3>2
  <2> QED
    BY <2>1
<1>12. \A s \in New : s = <<Len(enq) + 1, s[2]>> /\ s[2] \in (fill + 1)..(fill + t.n)
  OBVIOUS
<1>13. ASSUME NEW s \in New
       PROVE  /\ Content(s)' = Decoded(pgNo, rowNo + s[2] - fill)
              /\ s[1] = Len(enq) + 1 /\ s[2] \in (fill + 1)..(fill + t.n) /\ s[2] \in Nat
              /\ Content(s)' # NoRow => Content(s)' = <<pgNo, rowNo + s[2] - fill>>
  <2>1. PICK i \in (fill + 1)..(fill + t.n) : s = <<Len(enq) + 1, i>>
    OBVIOUS
  <2>2. enq' = enq
    BY DEF PutTask, enqVars
  <2>3. Content(s)' = Content(<<Len(enq) + 1, i>>)'
    BY <2>1, <2>2
  <2> QED
    BY <1>0, <1>2, <1>8, <2>1, <2>3, SMTT(20) DEF Decoded
<1> HIDE DEF New
<1>14. ASSUME NEW s \in Unread, Content(s) # NoRow
       PROVE  Content(s) \in Rest /\ Content(s) \in Nat \X Nat /\ ~Undispatched(Content(s))
  BY <1>0, <1>14, RestRows DEF ScanInv
<1>15. Scan!LastOf(out) \in Nat \X Nat /\ ~Undispatched(Scan!LastOf(out))
  BY <1>0, RestRows DEF ScanInv
\* The new contents ascend, behind the old ones.
<1>a. ASSUME NEW s \in Unread', NEW u \in Unread', Before(s, u),
             Content(s)' # NoRow, Content(u)' # NoRow
      PROVE  Before(Content(s)', Content(u)')
  <2>1. CASE s \in Unread /\ u \in Unread
    BY <1>0, <1>7, <1>a, <2>1 DEF ScanInv
  <2>2. CASE s \in Unread /\ u \in New
    <3>1. PICK x \in Nat \X Nat : x = Content(s) /\ ~Undispatched(x) /\ Content(s)' = x
      BY <1>7, <1>14, <1>a, <2>2
    <3>2. PICK y : y = <<pgNo, rowNo + u[2] - fill>> /\ Content(u)' = y
      BY <1>13, <1>a, <2>2
    <3>3. Undispatched(y) /\ y \in Nat \X Nat
      <4>1. PICK i \in (fill + 1)..(fill + t.n) : i = u[2]
        BY <1>13, <2>2
      <4>2. Undispatched(<<pgNo, rowNo + i - fill>>) /\ rowNo + i - fill \in Nat
        BY <1>10
      <4> QED
        BY <1>0, <3>2, <4>1, <4>2
    <3>4. PICK z \in Nat \X Nat : z = <<pgNo, rowNo>>
      BY <1>0
    <3>5. ~Before(z, x) /\ Before(z, y)
      BY <3>1, <3>3, <3>4 DEF Undispatched
    <3> QED
      BY <3>1, <3>2, <3>3, <3>5, BeforeOrders
  <2>3. CASE s \in New /\ u \in Unread
    BY <1>0, <1>2, <1>11, <1>13, <1>a, <2>3, SMTT(20) DEF Before
  <2>4. CASE s \in New /\ u \in New
    <3>1. s[2] < u[2] /\ s[2] \in Nat /\ u[2] \in Nat
      BY <1>0, <1>13, <1>a, <2>4 DEF Before
    <3>2. Content(s)' = <<pgNo, rowNo + s[2] - fill>> /\ Content(u)' = <<pgNo, rowNo + u[2] - fill>>
      BY <1>13, <1>a, <2>4
    <3>3. rowNo + s[2] - fill < rowNo + u[2] - fill
      BY <1>0, <3>1
    <3> QED
      BY <3>2, <3>3 DEF Before
  <2> QED
    BY <1>6, <1>a, <2>1, <2>2, <2>3, <2>4
\* They are selected rows still to come, and dispatched now.
<1>b. ASSUME NEW s \in Unread', Content(s)' # NoRow
      PROVE  Content(s)' \in Rest' /\ ~Undispatched(Content(s))'
  <2>1. CASE s \in Unread
    <3>1. PICK x \in Nat \X Nat : x = Content(s) /\ Content(s)' = x
      BY <1>7, <1>14, <1>b, <2>1
    <3>2. x \in Rest /\ ~Undispatched(x)
      BY <1>7, <1>14, <1>b, <2>1, <3>1
    <3>3. ~Undispatched(x)'
      BY <1>9, <3>2
    <3> QED
      BY <1>5, <3>1, <3>2, <3>3 DEF Undispatched
  <2>2. CASE s \in New
    <3>1. PICK i \in (fill + 1)..(fill + t.n) :
             Content(s)' = <<pgNo, rowNo + i - fill>> /\ Content(s)' = Decoded(pgNo, rowNo + i - fill)
      BY <1>13, <1>b, <2>2
    <3>2. PICK j \in 1..Len(table[pgNo]) : j = rowNo + i - fill
      BY <1>10
    <3>3. table[pgNo][j]
      BY <1>b, <3>1, <3>2 DEF Decoded
    <3>4. PICK l \in Nat \X Nat : l = Scan!LastOf(out)
      BY <1>15
    <3>5. PICK z \in Nat \X Nat : z = <<pgNo, rowNo>>
      BY <1>0
    <3>6. PICK x \in Nat \X Nat : x = <<pgNo, j>>
      BY <1>0, <1>10, <3>2
    <3>7. ~Before(z, l) /\ Before(z, x)
      BY <1>10, <1>15, <3>2, <3>4, <3>5, <3>6 DEF Undispatched
    <3>8. Before(l, x)
      BY <3>7, BeforeOrders
    <3>9. x \in Rest
      BY <1>0, <1>3, <3>3, <3>4, <3>6, <3>8, RestRows
    <3>10. ~Before(<<pgNo, rowNo + t.n>>, x)
      BY <1>10, <3>2, <3>6
    <3> QED
      BY <1>2, <1>5, <3>1, <3>2, <3>6, <3>9, <3>10 DEF Undispatched
  <2> QED
    BY <1>6, <1>b, <2>1, <2>2
<1>c. ~Undispatched(Scan!LastOf(out))'
  <2>1. PICK l \in Nat \X Nat : l = Scan!LastOf(out)
    BY <1>15
  <2>2. ~Undispatched(l)'
    BY <1>9, <1>15, <2>1
  <2> QED
    BY <1>5, <2>1, <2>2 DEF Undispatched
\* None is missing.
<1>d. ASSUME ~Scan!LimitReached, NEW r \in Rest
      PROVE  Undispatched(r)' \/ \E s \in Unread' : Content(s)' = r
  <2>1. CASE \E s \in Unread : Content(s) = r
    BY <1>6, <1>7, <2>1
  <2>2. CASE Undispatched(r) /\ ~Undispatched(r)'
    <3>1. PICK p \in 1..Len(table) : \E k \in 1..Len(table[p]) : r = <<p, k>> /\ table[p][k]
      BY <1>0, <1>d, RestRows
    <3>2. PICK k \in 1..Len(table[p]) : r = <<p, k>> /\ table[p][k]
      BY <3>1
    <3>3. r \in Nat \X Nat
      BY <1>0, <3>2
    <3>4. PICK i \in (fill + 1)..(fill + t.n) : r = <<pgNo, rowNo + i - fill>>
      BY <1>9, <2>2, <3>3
    <3>5. table[pgNo][rowNo + i - fill]
      BY <3>2, <3>4
    <3>6. <<Len(enq) + 1, i>> \in Unread'
      BY <1>6 DEF New
    <3>7. Content(<<Len(enq) + 1, i>>)' = r
      BY <1>8, <3>4, <3>5 DEF Decoded
    <3>8. Len(enq)' = Len(enq)
      BY DEF PutTask, enqVars
    <3>9. PICK s : s = <<Len(enq) + 1, i>>
      OBVIOUS
    <3> QED
      BY <3>6, <3>7, <3>8, <3>9
  <2> QED
    BY <1>0, <1>d, <2>1, <2>2 DEF ScanInv
<1> QED
  BY <1>0, <1>5, <1>a, <1>b, <1>c, <1>d DEF ScanInv

LEMMA ScanInvStep ==
    ASSUME Base, TasksInv, Delivery, Order, CancelInv, [Next]_vars, ~cancelled'
    PROVE  ScanInv'
<1>1. CASE ~ScanRow /\ ~ReadPage /\ ~PutTask
  <2>1. pgNo' = pgNo /\ rowNo' = rowNo
    BY <1>1 DEF Next, vars, prodVars, Producer, AcquireSlot, TakePooled, RemakeReady,
     AllocateBatch, StartFilling, CountTask, FinishBatch, SpawnEnqueuer, EnqueueEOF,
     ProducerExit, Enqueuer, AwaitPrev, AwaitReady, HandOver, ReleaseNext, GiveUp, Worker,
     ReceiveTask, WorkerExit, ProcessTask, CountDone, LoadSending, LoadRemaining, SignalReady,
     Consumer, NextRow, CallNext, ReleaseBatch, ReleaseSlot, ReceiveBatch, CallClose, FinishClose
  <2>2. Unread' = Unread /\ \A s \in Unread : Content(s)' = Content(s)
    BY <1>1, UnreadStep, ContentKept
  <2>3. /\ out' = out /\ Rest' = Rest /\ Scan!LastOf(out)' = Scan!LastOf(out)
        /\ Scan!LimitReached' <=> Scan!LimitReached
    BY <1>1, RestKept
  <2>4. \A s \in Unread : Undispatched(Content(s))' <=> Undispatched(Content(s))
    BY <2>1, <2>2 DEF Undispatched
  <2>5. Undispatched(Scan!LastOf(out))' <=> Undispatched(Scan!LastOf(out))
    BY <2>1, <2>3 DEF Undispatched
  <2>6. \A r : Undispatched(r)' <=> Undispatched(r)
    BY <2>1 DEF Undispatched
  <2>7. ScanInv
    BY DEF Order
  <2>8. \A s, u \in Unread' : (Before(s, u) /\ Content(s)' # NoRow /\ Content(u)' # NoRow)
                                => Before(Content(s)', Content(u)')
    BY <2>2, <2>7 DEF ScanInv
  <2>9. \A s \in Unread' : Content(s)' # NoRow => Content(s)' \in Rest' /\ ~Undispatched(Content(s))'
    BY <2>2, <2>3, <2>4, <2>7 DEF ScanInv
  <2>10. ASSUME ~Scan!LimitReached, NEW r \in Rest
         PROVE  Undispatched(r)' \/ \E s \in Unread' : Content(s)' = r
    BY <2>2, <2>6, <2>7, <2>10 DEF ScanInv
  <2> QED
    BY <2>3, <2>5, <2>7, <2>8, <2>9, <2>10 DEF ScanInv
<1> QED
  BY <1>1, ScanRowOrder, ReadPageOrder, PutTaskOrder

\* Neither a stale signal nor the cancelling of the scan is undone.
LEMMA MarksStay ==
    ASSUME [Next]_vars PROVE (stale => stale') /\ (cancelled => cancelled')
<1>1. stale => stale'
  BY DEF Next, vars, histVars, Producer, AcquireSlot, TakePooled, RemakeReady, AllocateBatch,
     ReadPage, CountTask, PutTask, FinishBatch, SpawnEnqueuer, EnqueueEOF, ProducerExit, Enqueuer,
     AwaitPrev, AwaitReady, HandOver, ReleaseNext, GiveUp, Worker, ReceiveTask, WorkerExit,
     ProcessTask, CountDone, LoadSending, LoadRemaining, SignalReady, Consumer, NextRow, CallNext,
     ReleaseBatch, ReleaseSlot, ReceiveBatch, ScanRow, CallClose, FinishClose
<1>2. CallClose => cancelled'
  BY DEF CallClose
<1>3. ~CallClose => cancelled' = cancelled
  BY DEF Next, vars, Producer, AcquireSlot, TakePooled, RemakeReady, AllocateBatch,
     ReadPage, CountTask, PutTask, FinishBatch, SpawnEnqueuer, EnqueueEOF, ProducerExit, Enqueuer,
     AwaitPrev, AwaitReady, HandOver, ReleaseNext, GiveUp, Worker, ReceiveTask, WorkerExit,
     ProcessTask, CountDone, LoadSending, LoadRemaining, SignalReady, Consumer, NextRow, CallNext,
     ReleaseBatch, ReleaseSlot, ReceiveBatch, ScanRow, FinishClose
<1> QED
  BY <1>1, <1>2, <1>3

LEMMA OrderStep ==
    ASSUME BatchInv, CancelInv, OrderInv, [Next]_vars PROVE OrderInv'
<1>1. CASE stale' \/ cancelled'
  BY <1>1 DEF OrderInv
<1>2. CASE ~stale' /\ ~cancelled'
  <2>1. ~stale /\ ~cancelled
    BY <1>2, MarksStay
  <2>2. Base /\ TasksInv /\ Delivery /\ Order
    BY <2>1 DEF BatchInv, DeliveryInv, OrderInv
  <2>3. RoomInv /\ PlaceInv /\ ReadInv
    BY <2>2 DEF Order
  <2>4. RoomInv'
    BY <2>2, <2>3, RoomStep
  <2>5. PlaceInv' /\ ReadInv'
    BY <2>2, <2>3, PlaceStep, ReadStep
  <2>6. ScanInv'
    BY <1>2, <2>2, ScanInvStep
  <2> QED
    BY <2>4, <2>5, <2>6 DEF Order, OrderInv
<1> QED
  BY <1>1, <1>2

LEMMA InitOrder == Init => CancelInv /\ OrderInv
<1> SUFFICES ASSUME Init PROVE CancelInv /\ Order
  BY DEF OrderInv
<1>1. /\ tasks = <<>> /\ \A w \in Workers : wpc[w] = "recv"
      /\ enq = <<>> /\ ppc = "slot" /\ cpc = "idle" /\ out = <<>> /\ ~cancelled
      /\ pgNo = 0 /\ rowNo = 0
  BY DEF Init
<1>2. Open = {}
  BY <1>1 DEF Open
<1>3. Pending = {} /\ Unread = {}
  BY <1>1 DEF Pending, Unread, Lanes, Building
<1>4. RoomInv /\ PlaceInv /\ ReadInv
  BY <1>1, <1>2, <1>3 DEF RoomInv, PlaceInv, ReadInv
<1>5. Scan!LastOf(out) = <<0, 0>>
  BY <1>1 DEF Scan!LastOf, Scan!NoRow
<1>6. out \in Seq(Nat \X Nat) /\ Base
  BY <1>1, InitBatchInv DEF BatchInv
<1>7. ASSUME NEW r \in Rest PROVE Undispatched(r)
  <2>1. r \in (Nat \ {0}) \X (Nat \ {0})
    BY <1>6, RestRows
  <2> QED
    BY <1>1, <2>1 DEF Undispatched, Before
<1>8. ~Undispatched(Scan!LastOf(out))
  BY <1>1, <1>5 DEF Undispatched, Before
<1> QED
  BY <1>1, <1>3, <1>4, <1>6, <1>7, <1>8 DEF CancelInv, Order, ScanInv

LEMMA OrderInvariance == Spec => [](BatchInv /\ CancelInv /\ OrderInv)
<1>1. Init => BatchInv /\ CancelInv /\ OrderInv
  BY InitBatchInv, InitOrder
<1>2. (BatchInv /\ CancelInv /\ OrderInv) /\ [Next]_vars => (BatchInv /\ CancelInv /\ OrderInv)'
  BY NextBatchInv, CancelStep, OrderStep
<1> QED
  BY <1>1, <1>2, PTL DEF Spec

------------------------------------------------------------------------------
(* The refinement *)

\* Only the consumer's steps change what the caller sees.
LEMMA Unseen ==
    ASSUME [Next]_vars, ~ScanRow, ~ReceiveBatch, ~CallClose
    PROVE  UNCHANGED <<table, limit, out, done, cancelled>>
  BY DEF Next, vars, query, consVars, Producer, AcquireSlot, TakePooled, RemakeReady,
     AllocateBatch, ReadPage, CountTask, PutTask, FinishBatch, SpawnEnqueuer, EnqueueEOF,
     ProducerExit, Enqueuer, AwaitPrev, AwaitReady, HandOver, ReleaseNext, GiveUp, Worker,
     ReceiveTask, WorkerExit, ProcessTask, CountDone, LoadSending, LoadRemaining, SignalReady,
     Consumer, NextRow, CallNext, ReleaseBatch, ReleaseSlot, FinishClose

\* The batch of enqueueEOF is received when no row is left.
LEMMA NothingLeft ==
    ASSUME Base, TasksInv, Delivery, Order, ReceiveBatch, enq[Head(queue)] = EOF
    PROVE  Scan!LimitReached \/ Rest = {}
<1> SUFFICES ASSUME ~Scan!LimitReached, NEW r \in Rest PROVE FALSE
  OBVIOUS
<1>0. /\ out \in Seq(Nat \X Nat) /\ ScanInv /\ PlaceInv /\ pgNo \in Nat /\ rowNo \in Nat
      /\ Len(table) \in Nat /\ \A p \in 1..Len(table) : Len(table[p]) \in Nat
      /\ Len(enq) \in Nat /\ Pending \subseteq 1..Len(enq)
      /\ FillInv /\ IInv /\ TypeOK /\ cpc = "recv"
  BY FastScanAssumption, Reading, SMTT(20) DEF Order, ScanInv, Base, IInv, TypeOK, ReceiveBatch
<1>1. Head(queue) = taken + 1 /\ Head(queue) \in 1..Len(enq) /\ cur = 0 /\ taken \in Nat
  BY <1>0, SMTT(20) DEF ReceiveBatch, FillInv, IInv, TypeOK, DeliveryOrder, ChainInv
<1>2. Head(queue) = Len(enq) /\ ppc \in {"exit", "done"} /\ AllDispatched
  BY <1>0, <1>1 DEF PlaceInv
<1>3. Lanes = {}
  <2>1. \A k \in 1..Len(enq) : k > taken => k = Len(enq)
    BY <1>0, <1>1, <1>2
  <2>2. Pending = {}
    BY <1>0, <1>1, <1>2, <2>1 DEF Pending
  <2> QED
    BY <1>2, <2>2 DEF Lanes, Building
<1>4. Undispatched(r)
  BY <1>0, <1>3 DEF ScanInv, Unread
<1>5. PICK p \in 1..Len(table) : \E k \in 1..Len(table[p]) : r = <<p, k>>
  BY <1>0, RestRows
<1>6. PICK k \in 1..Len(table[p]) : r = <<p, k>>
  BY <1>5
<1>7. pgNo < p \/ (pgNo = p /\ rowNo < k)
  BY <1>4, <1>6 DEF Undispatched, Before
<1>8. p \in Nat /\ k \in Nat /\ p > 0 /\ p <= Len(table) /\ k <= Len(table[p]) /\ Len(table[p]) \in Nat
  BY <1>0
<1>9. pgNo = Len(table) /\ (pgNo > 0 => rowNo >= Len(table[pgNo]))
  BY <1>2 DEF AllDispatched
<1> QED
  BY <1>0, <1>7, <1>8, <1>9

LEMMA StepScan ==
    ASSUME BatchInv, CancelInv, OrderInv, [Next]_vars
    PROVE  stale' \/ Scan!Next \/ UNCHANGED Scan!scanVars
<1>s. ASSUME UNCHANGED <<table, limit, out, done, cancelled>>
      PROVE  UNCHANGED Scan!scanVars
  BY <1>s DEF Scan!scanVars, Scan!query
<1>c. (ScanRow \/ ReceiveBatch \/ CallClose) => ~cancelled
  BY DEF CancelInv, ScanRow, ReceiveBatch, CallClose
<1> SUFFICES ASSUME ~stale' PROVE Scan!Next \/ UNCHANGED Scan!scanVars
  OBVIOUS
<1>0. ~stale
  BY MarksStay
<1>1. CASE ScanRow
  <2>1. Base /\ TasksInv /\ Delivery /\ Order
    BY <1>0, <1>1, <1>c DEF BatchInv, DeliveryInv, OrderInv
  <2>2. PICK c : c = obj[enq[cur]].rows[curIdx + 1]
    OBVIOUS
  <2>3. /\ cpc = "scan" /\ UNCHANGED <<table, limit, cancelled, done>> /\ ~cancelled /\ ~done
    BY <1>1, <1>c, <2>1, <2>2, ScanRowKinds DEF query, Base, IInv, ConsumerInv
  <2>4. CASE c = NoRow \/ Scan!LimitReached
    BY <1>1, <1>s, <2>1, <2>2, <2>3, <2>4, ScanRowKinds
  <2>5. CASE c # NoRow /\ ~Scan!LimitReached
    <3>1. /\ out' = Append(out, c) /\ c \in Rest
          /\ \A r \in Rest : r # c => Before(c, r)
      BY <1>1, <2>1, <2>2, <2>3, <2>5, ScanRowKinds, FirstOfRest
    <3>2. Rest \cap Scan!After(table, c) = Rest \ {c}
      <4>1. c \in Nat \X Nat /\ ~Before(c, c)
        BY <2>1, <2>2, <2>3, <2>5, FirstOfRest, BeforeOrders
      <4>2. ASSUME NEW r \in Rest PROVE r \in Scan!After(table, c) <=> Before(c, r)
        <5>1. r \in Nat \X Nat
          BY <2>1, RestRows DEF Order, ScanInv
        <5>2. r \in UNION {{<<p, k>> : k \in 1..Len(table[p])} : p \in 1..Len(table)}
          BY DEF Rest, Scan!Selected, Scan!After
        <5>3. r \in Scan!After(table, c) <=> (r[1] > c[1] \/ (r[1] = c[1] /\ r[2] > c[2]))
          BY <5>2 DEF Scan!After
        <5> QED
          BY <4>1, <5>1, <5>3 DEF Before
      <4> QED
        BY <3>1, <4>1, <4>2
    <3>3. Scan!Return
      BY <2>3, <2>5, <3>1, <3>2 DEF Scan!Return, Scan!query, Rest
    <3> QED
      BY <3>3 DEF Scan!Next
  <2> QED
    BY <2>4, <2>5
<1>2. CASE ReceiveBatch
  <2>1. Base /\ TasksInv /\ Delivery /\ Order
    BY <1>0, <1>2, <1>c DEF BatchInv, DeliveryInv, OrderInv
  <2>2. /\ UNCHANGED <<table, limit, out, cancelled>> /\ ~cancelled /\ cpc = "recv"
        /\ done' = (enq[Head(queue)] = EOF)
    BY <1>2, <1>c DEF ReceiveBatch, query
  <2>3. done = FALSE
    BY <2>1, <2>2 DEF Base, IInv, ConsumerInv, TypeOK
  <2>4. CASE enq[Head(queue)] = EOF
    <3>1. Scan!LimitReached \/ Scan!Selected(table, Scan!LastOf(out)) = {}
      BY <1>2, <2>1, <2>4, NothingLeft DEF Rest
    <3>2. Scan!ReportEnd
      BY <2>2, <2>3, <2>4, <3>1 DEF Scan!ReportEnd, Scan!query
    <3> QED
      BY <3>2 DEF Scan!Next
  <2>5. CASE enq[Head(queue)] # EOF
    BY <1>s, <2>2, <2>3, <2>5
  <2> QED
    BY <2>4, <2>5
<1>3. CASE CallClose
  <2>1. UNCHANGED <<table, limit, out, done>> /\ ~cancelled /\ cancelled' = TRUE
    BY <1>3, <1>c DEF CallClose, query
  <2>2. Scan!CloseScan
    BY <2>1 DEF Scan!CloseScan, Scan!query
  <2> QED
    BY <2>2 DEF Scan!Next
<1>4. CASE ~ScanRow /\ ~ReceiveBatch /\ ~CallClose
  BY <1>4, <1>s, Unseen
<1> QED
  BY <1>1, <1>2, <1>3, <1>4

\* The concurrent scan of fastscan.go gives the caller of Next what one loop over the
\* pages would: each selected row once, in page order, up to the limit, and the end only
\* behind the last of them, until the caller closes it, as long as no worker has signalled
\* a batch that was recycled since it finished its task.
THEOREM ScanImplemented == Spec => ImplementsScan
<1>1. Init => Scan!Init
  BY DEF Init, Scan!Init
<1>2. BatchInv /\ CancelInv /\ OrderInv /\ [Next]_vars
        => [stale' \/ Scan!Next]_(Scan!scanVars)
  BY StepScan
<1> QED
  BY <1>1, <1>2, OrderInvariance, PTL DEF Spec, ImplementsScan
==============================================================================
