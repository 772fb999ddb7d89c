------------------------------ MODULE FastScan ------------------------------
(***************************************************************************)
(* The parallel scan pipeline of src/internal/gomdb/fastscan.go.           *)
(*                                                                         *)
(* One producer goroutine (fastScan.produce) walks the data pages of the   *)
(* table and cuts them into tasks; worker goroutines (fastScan.worker)     *)
(* decode the rows of a task into the row slots of a batch; one goroutine  *)
(* per finished batch (started by enqueueWhen) waits for the batch before  *)
(* it and for its own tasks, and hands the batch to the consumer, the      *)
(* caller of Query.Next and Query.Close (fastScan.nextRow and close).      *)
(* Batches are recycled through a pool, and a bounded number of slots      *)
(* limits how many are in flight.                                          *)
(*                                                                         *)
(* Atomicity: an action is one channel operation, or one operation on an   *)
(* atomic field of fastBatch, with the local computation around it.  A     *)
(* select with several ready cases is a disjunction.                       *)
(*                                                                         *)
(* Operators described as "Fault:" are not part of the model.  Each is the *)
(* operator below it with a plausible mistake; the runs are repeated with  *)
(* the mistake put in, to see that the properties notice it.               *)
(***************************************************************************)
EXTENDS Integers, Sequences, FiniteSets

CONSTANTS
    Tables,     \* the tables considered (see OrderedScan)
    Limits,     \* the LIMITs considered, NoLimit for a query without one
    Workers,    \* the worker goroutines (2..8 in the code)
    Batches,    \* the fastBatch objects that can be allocated
    BatchRows,  \* fastBatchRows, 256 in the code
    TaskRows,   \* fastTaskRows, 128 in the code
    InFlight,   \* fastInFlight, 8 in the code
    TaskCap,    \* capacity of the tasks channel, 4 per worker in the code
    QueueCap,   \* capacity of the batches channel, 4 in the code
    EOF,        \* stands for the batch that enqueueEOF builds
    NoTask      \* what a worker holds before its first task

ASSUME FastScanAssumption ==
    /\ Tables \subseteq Seq(Seq(BOOLEAN))
    /\ Limits \subseteq Nat \cup {-1}
    /\ IsFiniteSet(Workers)
    /\ BatchRows \in Nat \ {0} /\ TaskRows \in 1..BatchRows
    /\ InFlight \in Nat \ {0}
    /\ Batches # {} /\ EOF \notin Batches
    /\ TaskCap \in Nat \ {0} /\ QueueCap \in Nat \ {0}

VARIABLES
    table,      \* the table scanned: what ReadNextDpg will deliver
    limit,      \* sql.Limit
    \* the producer
    ppc,        \* where the producer stands
    pgNo,       \* pages read so far
    rowNo,      \* rows of the current page already dispatched
    fill,       \* rows of the current batch already dispatched
    pb,         \* the batch being filled
    \* shared between goroutines
    slots,      \* tokens in the slots channel
    pool,       \* the pool channel
    tasks,      \* the tasks channel
    queue,      \* the batches channel: indices into the enqueued batches
    cancelled,  \* the context was cancelled
    obj,        \* the fields of every fastBatch object
    live,       \* the fastBatch objects allocated so far
    \* the goroutines started by enqueueWhen, in the order they were started
    enq,        \* the batch each of them hands over, EOF for the last one
    epc,        \* where each of them stands
    \* the workers
    wpc, wtask, \* where each worker stands and the task it holds
    \* the consumer
    cpc,        \* where the consumer stands
    cur,        \* index of the batch it reads, 0 when it has none
    curIdx,     \* rows of that batch it has looked at
    taken,      \* how many batches it received
    out,        \* the rows it was given, as <<page number, row number>>
    done,       \* the end was reported
    \* the program
    panicked,   \* a goroutine closed a channel twice: the program is gone
    stale       \* history: a worker signalled a batch that had been recycled
                \* since the worker finished its task of that batch

query    == <<table, limit>>
prodVars == <<ppc, pgNo, rowNo, fill, pb>>
enqVars  == <<enq, epc>>
workVars == <<wpc, wtask>>
consVars == <<cpc, cur, curIdx, taken, out, done>>
histVars == <<panicked, stale>>
vars == <<query, prodVars, slots, pool, tasks, queue, cancelled, obj, live,
          enqVars, workVars, consVars, histVars>>

NoLimit  == -1             \* sql.Limit of a query without LIMIT
NoRow    == <<0, 0>>       \* a row slot with valid = FALSE
Leftover == <<0, 1>>       \* a valid row slot left by an earlier scan
------------------------------------------------------------------------------
(* Batches *)

\* The fields a batch has when newFastBatch returns it, for generation g.  The
\* arena comes from a pool shared by all scans: its row slots are dirty.
NewBatch(g) ==
    [remaining |-> 0, doneSending |-> FALSE, readyClosed |-> FALSE,
     closed |-> FALSE, n |-> 0, gen |-> g,
     rows |-> [i \in 1..BatchRows |-> Leftover]]

\* Batch b gets the fields f.
SetBatch(b, f) == obj' = [obj EXCEPT ![b] = f]

\* fastBatch.markReady: the first caller closes the ready channel.  Closing a
\* channel that is closed already panics.
MarkReady(b) ==
    IF obj[b].readyClosed
    THEN UNCHANGED <<obj, panicked>>
    ELSE /\ SetBatch(b, [obj[b] EXCEPT !.readyClosed = TRUE, !.closed = TRUE])
         /\ panicked' = obj[b].closed

\* The row id the decoding of row k of page p leaves in a row slot: a row that
\* is deleted, unreadable or rejected by the sargs has valid = FALSE.
Decoded(p, k) == IF table[p][k] THEN <<p, k>> ELSE NoRow
------------------------------------------------------------------------------
(* The producer *)

\* Fault: acquireSlot does not wait for a token.
SlotIgnored == TRUE

\* acquireSlot receives a token when there is one.
SlotAvailable == slots > 0

SmallerOf(i, j) == IF i < j THEN i ELSE j

TaskSize(pg, row) == SmallerOf(Len(table[pg]) - row, TaskRows)

\* The inner loop of produce: with row rows of page pg and f row slots of the
\* batch used up, read the next page, enqueue the full batch or send a task.
Dispatch(pg, row, f) ==
    IF row >= Len(table[pg]) THEN "page"
    ELSE IF f + TaskSize(pg, row) > BatchRows THEN "flush" ELSE "send"

AcquireSlot ==
    /\ ppc = "slot"
    /\ \/ /\ SlotAvailable
          /\ slots' = slots - 1
          /\ ppc' = "take"
       \/ /\ cancelled
          /\ ppc' = "exit"
          /\ UNCHANGED slots
    /\ UNCHANGED <<query, pgNo, rowNo, fill, pb, pool, tasks, queue, cancelled,
                   obj, live, enqVars, workVars, consVars, histVars>>

\* acquireBatch returns, and produce goes on with the batch it got.
StartFilling ==
    /\ fill' = 0
    /\ ppc' = IF pgNo = 0 THEN "page" ELSE "send"

\* The atomic fields of a pooled batch are reset; n, the rows and, at first, the
\* closed ready channel are still those of its last use.
Recycled(o) ==
    [remaining |-> 0, doneSending |-> FALSE, readyClosed |-> FALSE,
     closed |-> o.closed, n |-> o.n, gen |-> o.gen + 1, rows |-> o.rows]

\* acquireBatch finds a batch in the pool: it resets the atomic fields ...
TakePooled ==
    /\ ppc = "take"
    /\ pool # <<>>
    /\ pb' = Head(pool)
    /\ pool' = Tail(pool)
    /\ SetBatch(Head(pool), Recycled(obj[Head(pool)]))
    /\ ppc' = "remake"
    /\ UNCHANGED <<query, pgNo, rowNo, fill, slots, tasks, queue, cancelled,
                   live, enqVars, workVars, consVars, histVars>>

\* ... and then, as a separate step, installs a new ready channel.
RemakeReady ==
    /\ ppc = "remake"
    /\ SetBatch(pb, [obj[pb] EXCEPT !.closed = FALSE])
    /\ StartFilling
    /\ UNCHANGED <<query, pgNo, rowNo, pb, slots, pool, tasks, queue, cancelled,
                   live, enqVars, workVars, consVars, histVars>>

\* The object the next allocation returns: which one does not matter.
Unused == CHOOSE b \in Batches : b \notin live

\* acquireBatch finds the pool empty and allocates a batch.
AllocateBatch ==
    /\ ppc = "take"
    /\ pool = <<>>
    /\ live # Batches
    /\ pb' = Unused
    /\ live' = live \cup {Unused}
    /\ SetBatch(Unused, NewBatch(1))
    /\ StartFilling
    /\ UNCHANGED <<query, pgNo, rowNo, slots, pool, tasks, queue, cancelled,
                   enqVars, workVars, consVars, histVars>>

\* Fault: the last batch is forgotten when it is not full.
LastBatchDropped == "eof"

\* After the last page the batch being filled is enqueued, unless it is empty.
AfterLastPage == IF fill > 0 THEN "flush" ELSE "eof"

\* ReadNextDpg: the next data page, or errNoMorePages, the only error it has.
ReadPage ==
    /\ ppc = "page"
    /\ IF pgNo < Len(table)
       THEN /\ pgNo' = pgNo + 1
            /\ rowNo' = 0
            /\ ppc' = Dispatch(pgNo + 1, 0, fill)
       ELSE /\ ppc' = AfterLastPage
            /\ UNCHANGED <<pgNo, rowNo>>
    /\ UNCHANGED <<query, fill, pb, slots, pool, tasks, queue, cancelled, obj,
                   live, enqVars, workVars, consVars, histVars>>

\* sendTask: remaining.Add(1) ...
CountTask ==
    /\ ppc = "send"
    /\ SetBatch(pb, [obj[pb] EXCEPT !.remaining = @ + 1])
    /\ ppc' = "put"
    /\ UNCHANGED <<query, pgNo, rowNo, fill, pb, slots, pool, tasks, queue,
                   cancelled, live, enqVars, workVars, consVars, histVars>>

\* ... then the select: the task is sent, or the scan was cancelled.
PutTask ==
    /\ ppc = "put"
    /\ \/ /\ Len(tasks) < TaskCap
          /\ LET n == TaskSize(pgNo, rowNo) IN
             /\ tasks' = Append(tasks,
                    [batch |-> pb, gen |-> obj[pb].gen, slot |-> fill,
                     page |-> pgNo, first |-> rowNo, n |-> n])
             /\ fill' = fill + n
             /\ rowNo' = rowNo + n
             /\ ppc' = Dispatch(pgNo, rowNo + n, fill + n)
          /\ UNCHANGED obj
       \/ /\ cancelled
          /\ SetBatch(pb, [obj[pb] EXCEPT !.remaining = @ - 1])
          /\ ppc' = "exit"
          /\ UNCHANGED <<tasks, fill, rowNo>>
    /\ UNCHANGED <<query, pgNo, pb, slots, pool, queue, cancelled, live,
                   enqVars, workVars, consVars, histVars>>

\* enqueueWhen: the number of rows is set and doneSending is stored ...
FinishBatch ==
    /\ ppc = "flush"
    /\ SetBatch(pb, [obj[pb] EXCEPT !.n = fill, !.doneSending = TRUE])
    /\ ppc' = "spawn"
    /\ UNCHANGED <<query, pgNo, rowNo, fill, pb, slots, pool, tasks, queue,
                   cancelled, live, enqVars, workVars, consVars, histVars>>

\* Fault: enqueueWhen leaves the signal to the workers.
SignalForgotten == UNCHANGED <<obj, panicked>>

\* enqueueWhen signals the batch itself when all its tasks are done already.
SignalIfDone ==
    IF obj[pb].remaining = 0
    THEN MarkReady(pb)
    ELSE UNCHANGED <<obj, panicked>>

\* ... remaining is read, and the goroutine that will hand the batch over is
\* started.  Nobody waits for the batch before that, so the two are one step.
SpawnEnqueuer ==
    /\ ppc = "spawn"
    /\ SignalIfDone
    /\ enq' = Append(enq, pb)
    /\ epc' = Append(epc, "prev")
    /\ ppc' = IF rowNo < Len(table[pgNo]) THEN "slot" ELSE "eof"
    /\ UNCHANGED <<query, pgNo, rowNo, fill, pb, slots, pool, tasks, queue,
                   cancelled, live, workVars, consVars, stale>>

\* enqueueEOF: a batch of its own, ready from the start and never pooled.
EnqueueEOF ==
    /\ ppc = "eof"
    /\ enq' = Append(enq, EOF)
    /\ epc' = Append(epc, "prev")
    /\ ppc' = "exit"
    /\ UNCHANGED <<query, pgNo, rowNo, fill, pb, slots, pool, tasks, queue,
                   cancelled, obj, live, workVars, consVars, histVars>>

\* The deferred calls of produce: close(tasks) and producerWG.Done.
ProducerExit ==
    /\ ppc = "exit"
    /\ ppc' = "done"
    /\ UNCHANGED <<query, pgNo, rowNo, fill, pb, slots, pool, tasks, queue,
                   cancelled, obj, live, enqVars, workVars, consVars, histVars>>

Producer ==
    \/ AcquireSlot \/ TakePooled \/ RemakeReady \/ AllocateBatch \/ ReadPage
    \/ CountTask \/ PutTask \/ FinishBatch \/ SpawnEnqueuer \/ EnqueueEOF
    \/ ProducerExit
------------------------------------------------------------------------------
(* The goroutine started for the k-th enqueued batch *)

\* Fault: the goroutine does not wait for the one before it.
PrevIgnored(k) == TRUE

\* The channel prev is closed, or nil for the first batch.
PrevHandedOver(k) == k > 1 => epc[k - 1] = "done"

\* It waits until the batch before it is in the channel ...
AwaitPrev(k) ==
    /\ epc[k] = "prev"
    /\ PrevHandedOver(k)
    /\ epc' = [epc EXCEPT ![k] = "ready"]
    /\ UNCHANGED <<query, prodVars, slots, pool, tasks, queue, cancelled, obj,
                   live, enq, workVars, consVars, histVars>>

\* ... then for the ready channel of its own batch ...
AwaitReady(k) ==
    /\ epc[k] = "ready"
    /\ enq[k] # EOF => obj[enq[k]].closed
    /\ epc' = [epc EXCEPT ![k] = "send"]
    /\ UNCHANGED <<query, prodVars, slots, pool, tasks, queue, cancelled, obj,
                   live, enq, workVars, consVars, histVars>>

\* ... hands the batch over ...
HandOver(k) ==
    /\ epc[k] = "send"
    /\ Len(queue) < QueueCap
    /\ queue' = Append(queue, k)
    /\ epc' = [epc EXCEPT ![k] = "sent"]
    /\ UNCHANGED <<query, prodVars, slots, pool, tasks, cancelled, obj, live,
                   enq, workVars, consVars, histVars>>

\* ... and closes the channel the next one waits for.
ReleaseNext(k) ==
    /\ epc[k] = "sent"
    /\ epc' = [epc EXCEPT ![k] = "done"]
    /\ UNCHANGED <<query, prodVars, slots, pool, tasks, queue, cancelled, obj,
                   live, enq, workVars, consVars, histVars>>

\* Fault: the hand-over is a plain send, not a select.
CancellableBeforeSend == {"prev", "ready"}

\* The waits that are a select with ctx.Done().
Cancellable == {"prev", "ready", "send"}

\* Each of the three waits also ends when the scan is cancelled.
GiveUp(k) ==
    /\ epc[k] \in Cancellable
    /\ cancelled
    /\ epc' = [epc EXCEPT ![k] = "dead"]
    /\ UNCHANGED <<query, prodVars, slots, pool, tasks, queue, cancelled, obj,
                   live, enq, workVars, consVars, histVars>>

Enqueuer(k) ==
    AwaitPrev(k) \/ AwaitReady(k) \/ HandOver(k) \/ ReleaseNext(k) \/ GiveUp(k)
------------------------------------------------------------------------------
(* A worker *)

Goto(w, l) == wpc' = [wpc EXCEPT ![w] = l]

ReceiveTask(w) ==
    /\ wpc[w] = "recv"
    /\ tasks # <<>>
    /\ wtask' = [wtask EXCEPT ![w] = Head(tasks)]
    /\ tasks' = Tail(tasks)
    /\ Goto(w, "work")
    /\ UNCHANGED <<query, prodVars, slots, pool, queue, cancelled, obj, live,
                   enqVars, consVars, histVars>>

\* The range loop ends when the tasks channel is closed and empty.
WorkerExit(w) ==
    /\ wpc[w] = "recv"
    /\ tasks = <<>>
    /\ ppc = "done"
    /\ Goto(w, "exit")
    /\ UNCHANGED <<query, prodVars, slots, pool, tasks, queue, cancelled, obj,
                   live, enqVars, wtask, consVars, histVars>>

\* The row slots of the batch of task t once t is processed.
RowsAfter(t) ==
    [i \in 1..BatchRows |->
        IF i \in (t.slot + 1)..(t.slot + t.n)
        THEN Decoded(t.page, t.first + i - t.slot)
        ELSE obj[t.batch].rows[i]]

\* processTask fills the row slots of the task.
ProcessTask(w) ==
    /\ wpc[w] = "work"
    /\ LET t == wtask[w] IN
        SetBatch(t.batch, [obj[t.batch] EXCEPT !.rows = RowsAfter(t)])
    /\ Goto(w, "count")
    /\ UNCHANGED <<query, prodVars, slots, pool, tasks, queue, cancelled, live,
                   enqVars, wtask, consVars, histVars>>

\* remaining.Add(-1)
CountDone(w) ==
    /\ wpc[w] = "count"
    /\ LET b == wtask[w].batch IN
        SetBatch(b, [obj[b] EXCEPT !.remaining = @ - 1])
    /\ Goto(w, "sending")
    /\ UNCHANGED <<query, prodVars, slots, pool, tasks, queue, cancelled, live,
                   enqVars, wtask, consVars, histVars>>

\* Fault: the worker does not ask whether more tasks will come.
SendingIgnored(b) == TRUE

\* No more tasks will be added to the batch.
SendingDone(b) == obj[b].doneSending

\* doneSending.Load()
LoadSending(w) ==
    /\ wpc[w] = "sending"
    /\ Goto(w, IF SendingDone(wtask[w].batch) THEN "remaining" ELSE "recv")
    /\ UNCHANGED <<query, prodVars, slots, pool, tasks, queue, cancelled, obj,
                   live, enqVars, wtask, consVars, histVars>>

\* remaining.Load() == 0
LoadRemaining(w) ==
    /\ wpc[w] = "remaining"
    /\ Goto(w, IF obj[wtask[w].batch].remaining = 0 THEN "mark" ELSE "recv")
    /\ UNCHANGED <<query, prodVars, slots, pool, tasks, queue, cancelled, obj,
                   live, enqVars, wtask, consVars, histVars>>

\* markReady.  Only the winner of the compare-and-swap touches the channel, so
\* the two halves are one step.
SignalReady(w) ==
    /\ wpc[w] = "mark"
    /\ LET t == wtask[w] IN
        /\ MarkReady(t.batch)
        /\ stale' = (stale \/ (~obj[t.batch].readyClosed
                               /\ obj[t.batch].gen # t.gen))
    /\ Goto(w, "recv")
    /\ UNCHANGED <<query, prodVars, slots, pool, tasks, queue, cancelled, live,
                   enqVars, wtask, consVars>>

Worker(w) ==
    \/ ReceiveTask(w) \/ WorkerExit(w) \/ ProcessTask(w) \/ CountDone(w)
    \/ LoadSending(w) \/ LoadRemaining(w) \/ SignalReady(w)
------------------------------------------------------------------------------
(* The consumer *)

\* The caller asks for the next row: what nextRow does first.  The batch is
\* exhausted when curIdx has reached its n.
CallNext ==
    /\ cpc = "idle"
    /\ ~done
    /\ cpc' = IF cur = 0 THEN "recv"
              ELSE IF curIdx < obj[enq[cur]].n THEN "scan" ELSE "recycle"
    /\ UNCHANGED <<query, prodVars, slots, pool, tasks, queue, cancelled, obj,
                   live, enqVars, workVars, cur, curIdx, taken, out, done,
                   histVars>>

\* releaseBatch.  The pool has room for every batch in flight
\* (SlotsAccounted), so its default case, which drops the batch, is never
\* taken.
ReleaseBatch ==
    /\ cpc = "recycle"
    /\ pool' = Append(pool, enq[cur])
    /\ cpc' = "free"
    /\ UNCHANGED <<query, prodVars, slots, tasks, queue, cancelled, obj, live,
                   enqVars, workVars, cur, curIdx, taken, out, done, histVars>>

\* releaseSlot blocks while the channel is full.
ReleaseSlot ==
    /\ cpc = "free"
    /\ slots < InFlight
    /\ slots' = slots + 1
    /\ cur' = 0
    /\ cpc' = "recv"
    /\ UNCHANGED <<query, prodVars, pool, tasks, queue, cancelled, obj, live,
                   enqVars, workVars, curIdx, taken, out, done, histVars>>

\* Fault: the batch and its slot are given back on receipt.
ReceiveBatchReleasing ==
    /\ cpc = "recv"
    /\ queue # <<>>
    /\ queue' = Tail(queue)
    /\ cur' = Head(queue)
    /\ curIdx' = 0
    /\ taken' = taken + 1
    /\ done' = (enq[Head(queue)] = EOF)
    /\ IF enq[Head(queue)] = EOF
       THEN cpc' = "idle" /\ UNCHANGED <<pool, slots>>
       ELSE cpc' = "scan" /\ pool' = Append(pool, enq[Head(queue)])
                         /\ slots' = slots + 1
    /\ UNCHANGED <<query, prodVars, tasks, cancelled, obj, live,
                   enqVars, workVars, out, histVars>>

\* nextRow receives a batch; the EOF batch ends the scan.
ReceiveBatch ==
    /\ cpc = "recv"
    /\ queue # <<>>
    /\ queue' = Tail(queue)
    /\ cur' = Head(queue)
    /\ curIdx' = 0
    /\ taken' = taken + 1
    /\ done' = (enq[Head(queue)] = EOF)
    /\ cpc' = IF enq[Head(queue)] = EOF THEN "idle" ELSE "scan"
    /\ UNCHANGED <<query, prodVars, slots, pool, tasks, cancelled, obj, live,
                   enqVars, workVars, out, histVars>>

\* nextRow looks at the next row slot: it skips one that is not valid, returns
\* FALSE when the limit is reached and the row otherwise.
ScanRow ==
    /\ cpc = "scan"
    /\ LET b == enq[cur]
           r == obj[b].rows[curIdx + 1]
       IN IF r = NoRow
          THEN /\ cpc' = IF curIdx + 1 < obj[b].n THEN "scan" ELSE "recycle"
               /\ UNCHANGED out
          ELSE /\ cpc' = "idle"
               /\ out' = IF limit # NoLimit /\ Len(out) >= limit
                         THEN out ELSE Append(out, r)
    /\ curIdx' = curIdx + 1
    /\ UNCHANGED <<query, prodVars, slots, pool, tasks, queue, cancelled, obj,
                   live, enqVars, workVars, cur, taken, done, histVars>>

\* The caller closes the query: close cancels the context ...
CallClose ==
    /\ cpc = "idle"
    /\ cancelled' = TRUE
    /\ cpc' = "wait"
    /\ UNCHANGED <<query, prodVars, slots, pool, tasks, queue, obj, live,
                   enqVars, workVars, cur, curIdx, taken, out, done, histVars>>

\* ... waits for every goroutine (the enqueueing ones are in producerWG), and
\* drains the pool and the batches channel.
FinishClose ==
    /\ cpc = "wait"
    /\ ppc = "done"
    /\ \A k \in 1..Len(epc) : epc[k] \in {"done", "dead"}
    /\ \A w \in Workers : wpc[w] = "exit"
    /\ pool' = <<>>
    /\ queue' = <<>>
    /\ cpc' = "closed"
    /\ UNCHANGED <<query, prodVars, slots, tasks, cancelled, obj, live,
                   enqVars, workVars, cur, curIdx, taken, out, done, histVars>>

NextRow == ReleaseBatch \/ ReleaseSlot \/ ReceiveBatch \/ ScanRow
Consumer == CallNext \/ NextRow \/ CallClose \/ FinishClose
------------------------------------------------------------------------------
(* newFastScan *)

\* The tokens newFastScan puts into the slots channel.
InitialTokens == InFlight

Init ==
    /\ table \in Tables /\ limit \in Limits
    /\ ppc = "slot" /\ pgNo = 0 /\ rowNo = 0 /\ fill = 0
    /\ pb = CHOOSE b \in Batches : TRUE
    /\ slots = InitialTokens
    /\ pool = <<>> /\ tasks = <<>> /\ queue = <<>>
    /\ cancelled = FALSE
    /\ obj = [b \in Batches |-> NewBatch(0)]
    /\ live = {}
    /\ enq = <<>> /\ epc = <<>>
    /\ wpc = [w \in Workers |-> "recv"]
    /\ wtask = [w \in Workers |-> NoTask]
    /\ cpc = "idle" /\ cur = 0 /\ curIdx = 0 /\ taken = 0
    /\ out = <<>> /\ done = FALSE
    /\ panicked = FALSE /\ stale = FALSE

\* A panic takes the whole program down.
Next ==
    /\ ~panicked
    /\ \/ Producer
       \/ \E k \in 1..Len(epc) : Enqueuer(k)
       \/ \E w \in Workers : Worker(w)
       \/ Consumer

Spec == Init /\ [][Next]_vars

(* Every goroutine that can take a step eventually takes one: the Go         *)
(* scheduler is preemptive and starves no runnable goroutine.  Nothing is    *)
(* assumed of the caller: it may stop calling Next and may never call Close; *)
(* but a call it has made goes on.                                           *)
Fairness ==
    /\ WF_vars(~panicked /\ Producer)
    /\ WF_vars(~panicked /\ \E k \in 1..Len(epc) : Enqueuer(k))
    /\ \A w \in Workers : WF_vars(~panicked /\ Worker(w))
    /\ WF_vars(~panicked /\ (NextRow \/ FinishClose))

FairSpec == Spec /\ Fairness
------------------------------------------------------------------------------
(* Properties *)

Elements(s) == {s[i] : i \in 1..Len(s)}

Task == [batch : Batches, gen : Nat, slot : Nat, page : Nat, first : Nat, n : Nat]

BatchFields ==
    [remaining : Int, doneSending : BOOLEAN, readyClosed : BOOLEAN,
     closed : BOOLEAN, n : Nat, gen : Nat, rows : [1..BatchRows -> Nat \X Nat]]

\* The types of the variables (what out holds is the subject of ImplementsScan).
TypeOK ==
    /\ table \in Tables /\ limit \in Limits
    /\ ppc \in {"slot", "take", "remake", "page", "send", "put", "flush",
                "spawn", "eof", "exit", "done"}
    /\ pgNo \in Nat /\ rowNo \in Nat /\ fill \in Nat /\ pb \in Batches
    /\ slots \in 0..InFlight
    /\ pool \in Seq(Batches) /\ tasks \in Seq(Task) /\ queue \in Seq(Nat)
    /\ cancelled \in BOOLEAN
    /\ obj \in [Batches -> BatchFields]
    /\ live \subseteq Batches
    /\ enq \in Seq(Batches \cup {EOF})
    /\ epc \in Seq({"prev", "ready", "send", "sent", "done", "dead"})
    /\ wpc \in [Workers -> {"recv", "work", "count", "sending", "remaining",
                            "mark", "exit"}]
    /\ wtask \in [Workers -> Task \cup {NoTask}]
    /\ cpc \in {"idle", "recycle", "free", "recv", "scan", "wait", "closed"}
    /\ cur \in Nat /\ curIdx \in Nat /\ taken \in Nat
    /\ done \in BOOLEAN /\ panicked \in BOOLEAN /\ stale \in BOOLEAN

\* Batches reach the consumer in the order in which the producer finished them,
\* none skipped and none twice, however the workers and the goroutines of
\* enqueueWhen are scheduled ("strictly in order via a prev chain").
DeliveryOrder ==
    /\ cur \in {0, taken}
    /\ \A i \in 1..Len(queue) : queue[i] = taken + i

\* The batches somebody still uses: being filled, or enqueued and not yet back
\* in the pool.
Filling == ppc \in {"remake", "page", "send", "put", "flush", "spawn"}
Pending == {k \in 1..Len(enq) :
               /\ enq[k] # EOF
               /\ k > taken \/ (k = cur /\ cpc # "free")}

\* A batch object has one owner: it is filled by the producer, or enqueued once,
\* or in the pool once; acquireBatch never hands out one that is in use.
SoleOwner ==
    cpc # "closed" =>
        /\ \A k, j \in Pending : k # j => enq[k] # enq[j]
        /\ \A k \in Pending : enq[k] \notin Elements(pool)
        /\ Cardinality(Elements(pool)) = Len(pool)
        /\ (Filling /\ ~cancelled) =>
               /\ pb \notin Elements(pool)
               /\ \A k \in Pending : enq[k] # pb

\* Backpressure: while the producer runs, every token out of the slots channel
\* stands for one batch it fills or has enqueued, or one whose token the consumer
\* is about to return; when produce has returned it may have kept one.  So
\* releaseSlot never blocks the consumer.  However long the table, at most InFlight
\* batches are ever allocated, and the pool has room for each one that comes back.
SlotsAccounted ==
    /\ Cardinality(live) <= InFlight /\ Len(pool) <= InFlight
    /\ cpc # "closed" =>
           LET held == (IF ppc = "take" \/ Filling THEN 1 ELSE 0)
                       + Cardinality(Pending) + (IF cpc = "free" THEN 1 ELSE 0)
           IN IF ppc \in {"eof", "exit", "done"}
              THEN slots + held \in {InFlight - 1, InFlight}
              ELSE slots + held = InFlight

\* No task of the k-th enqueued batch is outstanding, and each row slot that the
\* consumer will look at was written since the batch was allocated.
Processed(k) ==
    LET b == enq[k] IN
        /\ obj[b].remaining = 0
        /\ \A i \in 1..Len(tasks) : tasks[i].batch # b
        /\ \A w \in Workers : wpc[w] \in {"work", "count"} => wtask[w].batch # b
        /\ \A i \in 1..obj[b].n : obj[b].rows[i] # Leftover

\* A batch is handed to the consumer once every task of it has been processed:
\* no worker still writes its rows, and no row slot is left from before.  It
\* holds, and no channel is closed twice, until a worker signals a batch recycled
\* behind its back (stale).
DeliveredProcessed ==
    stale \/ /\ ~panicked
             /\ \A k \in Pending :
                   epc[k] \in {"send", "sent", "done"} => Processed(k)

\* The same without the exception, as the comment of enqueueWhen has it
\* (fastscan.go:431-432).
DeliveredOnceProcessed ==
    \A k \in Pending : epc[k] \in {"send", "sent", "done"} => Processed(k)

\* What the caller sees is the ordered scan: each selected row once, in page
\* order, up to the limit, and the end only after the last one; for every step
\* as long as no stale signal occurred.
Scan == INSTANCE OrderedScan WITH
            phase <- IF cancelled THEN "closed" ELSE IF done THEN "eof" ELSE "open"
ImplementsScan == Scan!Init /\ [][stale' \/ Scan!Next]_(Scan!scanVars)

\* Close returns: cancelling reaches every goroutine wherever it waits, even
\* after a stale signal.
CloseReturns == cpc = "wait" ~> (cpc = "closed" \/ panicked)

\* A caller waiting in Next gets a batch: the slots, the two bounded channels
\* and the chain of goroutines never wait for each other in a circle.
NextReturns == cpc = "recv" ~> (cpc # "recv" \/ stale)
==============================================================================
