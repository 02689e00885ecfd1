----------------------------- MODULE Al1LinkProofs -----------------------------
(***************************************************************************)
(* For every timing, queue and number of starts within LinkAssumption.     *)
(* Whatever fails, no frame buffer leaks but those a failed start deletes  *)
(* with its queue, and the sequence numbers skip exactly the frames the    *)
(* queue refused: BaseInv.  As long as tx_task can be created              *)
(* al1_link_stop frees nothing a task still uses, two starts never meet,   *)
(* and the link is shut down in a bounded number of steps: LinkInv, which  *)
(* adds that rx_task does not outlive its start either.                    *)
(***************************************************************************)
EXTENDS Al1Link, TLAPS, FiniteSetTheorems

\* The flag is up while the link is, and the resources are those of the last start.
Life ==
    /\ running <=> main.pc \in {"create_rx", "create_tx", "up"}
    /\ main.pc = "down" => res = 0
    /\ main.pc # "down" => res = starts /\ starts > 0

\* How long al1_link_stop may have waited for a task that is still there.
WaitedFor(t) == CASE t.pc = "wait" -> t.age
                  [] t.pc = "busy" -> Timeout + t.age
                  [] OTHER         -> Timeout + Busy

\* A task is of the last start, it blocks on its resources, and it is there
\* neither before it was created nor after the link is down.
Current(t, g) ==
    /\ g = starts /\ t.on = starts
    /\ main.pc \in {"create_tx", "up", "delay"}
    /\ t.age <= Limit(t.pc)
    /\ main.pc = "delay" => main.age <= WaitedFor(t)

TxStaffed == \A g \in Start : Alive(tx[g]) => Current(tx[g], g) /\ main.pc # "create_tx"
RxStaffed == \A g \in Start : Alive(rx[g]) => Current(rx[g], g)

\* What is queued behind a finished start has a tx_task to free it.
Drained ==
    /\ main.pc = "up" => tx[starts].pc \in {"loop", "wait", "busy"}
    /\ main.pc = "delay" => Alive(tx[starts]) \/ tx_queue = <<>>
    /\ main.pc = "down" => tx_queue = <<>>

Writing == \E g \in Start : tx[g].pc = "busy"

Owned == heap = Len(tx_queue) + (IF Writing THEN 1 ELSE 0) + spilt

BaseInv == TypeOK /\ Life /\ TxStaffed /\ Drained /\ Owned
LinkInv == BaseInv /\ RxStaffed /\ misused = FALSE

-----------------------------------------------------------------------------
(***************************************************************************)
(* A numbering with wrap-around stays in range.                            *)
(***************************************************************************)
LEMMA SeqAfterType == \A n \in Number : SeqAfter(n) \in Number
<1> SUFFICES ASSUME NEW n \in Number PROVE SeqAfter(n) \in Number
  OBVIOUS
<1>1. SeqMod \in Nat /\ SeqMod > 0
  BY LinkAssumption DEF LinkAssumption
<1>2. n + 1 \in Nat
  BY <1>1 DEF Number
<1>3. (n + 1) % SeqMod \in 0 .. SeqMod - 1
  BY <1>1, <1>2, SMT
<1> QED BY <1>3 DEF SeqAfter, Number

(***************************************************************************)
(* A task that moves on within the link's life stays one of the last start *)
(* and in time: t becomes u, and it enters a wait only while the flag is   *)
(* up and a callback or a write only from a wait.                          *)
(***************************************************************************)
LEMMA MovesOn ==
    ASSUME TypeOK, Life, NEW g \in Start, NEW t \in Task, Alive(t), Current(t, g),
           NEW pc \in {"loop", "wait", "busy", "drain"},
           pc = "wait" => running, pc = "busy" => t.pc = "wait"
    PROVE  Runs(pc) \in Task /\ Alive(Runs(pc)) /\ Current(Runs(pc), g)
<1> USE LinkAssumption DEF LinkAssumption
<1>1. /\ starts \in Nat /\ starts = g /\ res = g /\ res = starts /\ main.age \in Nat
      /\ main.pc \in {"create_tx", "up", "delay"}
  BY SMT DEF TypeOK, Life, Current, Start
<1>2. Runs(pc) \in Task /\ Alive(Runs(pc))
  BY <1>1, SMT DEF Runs, Task, Alive, Start
<1>3. Limit(pc) \in Nat
  BY SMT DEF Limit
<1>4. t.age \in Nat /\ t.pc \in {"alloc", "loop", "wait", "busy", "drain"}
  BY SMT DEF Task, Alive
<1>5. main.pc = "delay" => main.age <= Timeout + Busy /\ (t.pc = "wait" => main.age <= Timeout)
  BY <1>1, <1>4, SMT DEF Current, Limit, WaitedFor
<1>6. main.pc = "delay" => pc # "wait"
  BY <1>1, Zenon DEF Life
<1>7. main.pc = "delay" => main.age <= WaitedFor(Runs(pc))
  BY <1>1, <1>5, <1>6, SMT DEF WaitedFor, Runs
<1> QED BY <1>1, <1>2, <1>3, <1>7, SMT DEF Current, Runs

\* A task that moves has a task's type.
LEMMA RunsType ==
    ASSUME TypeOK, NEW pc \in {"alloc", "loop", "wait", "busy", "drain", "gone"}
    PROVE  Runs(pc) \in Task
  BY LinkAssumption, SMT DEF LinkAssumption, TypeOK, Runs, Task, Start

\* Whatever is used, the history variable stays a truth value.
LEMMA UsesType ==
    ASSUME TypeOK, NEW t, Uses(t) \/ Uses(res) \/ UNCHANGED misused
    PROVE  misused' \in BOOLEAN
  BY Zenon DEF TypeOK, Uses

\* rx_task touches only its own entry.
LEMMA RxBase ==
    ASSUME BaseInv, NEW g \in Start, RxRuns(g)
    PROVE  BaseInv'
<1> USE DEF BaseInv
<1>1. /\ UNCHANGED <<running, starts, res, main, tx, bufs>>
      /\ Uses(rx[g].on) \/ Uses(res) \/ UNCHANGED misused
  BY DEF RxRuns, RxAllocates, RxLoop, RxReads, RxFeeds
<1>2. PICK pc \in {"loop", "wait", "busy", "gone"} : rx' = [rx EXCEPT ![g] = Runs(pc)]
  BY SMT DEF RxRuns, RxAllocates, RxLoop, RxReads, RxFeeds, RxIs
<1>3. Runs(pc) \in Task
  BY RunsType
<1>4. rx' \in [Start -> Task]
  BY <1>2, <1>3 DEF TypeOK
<1>5. TypeOK'
  <2>1. UNCHANGED <<running, starts, res, main, tx, tx_seq, sent, lost, tx_queue, heap, spilt>>
    BY <1>1 DEF bufs, numbers
  <2>2. misused' \in BOOLEAN
    BY <1>1, UsesType
  <2> QED BY <1>4, <2>1, <2>2, Zenon DEF TypeOK
<1>6. Life' /\ TxStaffed' /\ Drained' /\ Owned'
  BY <1>1 DEF Life, TxStaffed, Current, Drained, Owned, Writing, bufs, numbers
<1> QED BY <1>5, <1>6

(***************************************************************************)
(* tx_task: only the last start writes.                                    *)
(***************************************************************************)
LEMMA TxMoves ==
    ASSUME BaseInv, NEW g \in Start, Alive(tx[g]),
           UNCHANGED <<running, starts, res, main, rx>>,
           NEW pc \in {"loop", "wait", "busy", "drain", "gone"},
           tx' = [tx EXCEPT ![g] = Runs(pc)],
           pc = "wait" => running, pc = "busy" => tx[g].pc = "wait"
    PROVE  /\ tx' \in [Start -> Task] /\ TxStaffed'
           /\ g = starts /\ tx'[starts] = Runs(pc)
           /\ Writing <=> tx[g].pc = "busy"
           /\ Writing' <=> pc = "busy"
<1> USE DEF BaseInv
<1>1. tx \in [Start -> Task] /\ tx[g] \in Task /\ Current(tx[g], g) /\ main.pc # "create_tx"
  BY DEF TypeOK, TxStaffed
<1>2. /\ Runs(pc) \in Task
      /\ Alive(Runs(pc)) => Current(Runs(pc), g)
  BY <1>1, MovesOn, RunsType, SMT DEF Alive, Runs
<1>4. tx' \in [Start -> Task] /\ \A h \in Start : tx'[h] = IF h = g THEN Runs(pc) ELSE tx[h]
  BY <1>1, <1>2, Zenon
<1>5. \A h \in Start : \A t : Current(t, h)' <=> Current(t, h)
  BY DEF Current
<1>6. TxStaffed'
  BY <1>1, <1>2, <1>4, <1>5 DEF TxStaffed
<1>7. g = starts
  BY <1>1 DEF Current
<1>8. \A h \in Start : tx[h].pc = "busy" => h = g
  BY <1>7 DEF TxStaffed, Current, Alive
<1>9. Writing <=> tx[g].pc = "busy"
  BY <1>8 DEF Writing
<1>10. Writing' <=> pc = "busy"
  BY <1>4, <1>8 DEF Writing, Runs
<1> QED BY <1>4, <1>6, <1>7, <1>9, <1>10

\* A frame taken off the queue leaves a queue.
LEMMA TakeOneType ==
    ASSUME TypeOK, TakeOne
    PROVE  /\ tx_queue' \in Seq([seq : Number, lost : Number])
           /\ Len(tx_queue') = Len(tx_queue) - 1 /\ Len(tx_queue) \in Nat /\ Len(tx_queue) > 0
           /\ Len(tx_queue') <= TxQueueLen
           /\ sent' \in Number /\ UNCHANGED <<tx_seq, lost, spilt>>
<1> DEFINE Frame == [seq : Number, lost : Number]
<1>1. tx_queue \in Seq(Frame) /\ tx_queue # <<>> /\ tx_queue' = Tail(tx_queue)
      /\ Len(tx_queue) <= TxQueueLen /\ TxQueueLen \in Nat
  BY LinkAssumption, SMT DEF LinkAssumption, TypeOK, TakeOne
<1> HIDE DEF Frame
<1>2. /\ Tail(tx_queue) \in Seq(Frame) /\ Head(tx_queue) \in Frame
      /\ Len(Tail(tx_queue)) = Len(tx_queue) - 1 /\ Len(tx_queue) \in Nat /\ Len(tx_queue) > 0
  BY <1>1, SMT
<1>3. Len(tx_queue) - 1 <= TxQueueLen
  BY <1>1, <1>2, SMT
<1> QED BY <1>1, <1>2, <1>3 DEF TakeOne, Frame

\* tx_task keeps the invariant: what it takes off the queue it frees.
LEMMA TxStep ==
    ASSUME BaseInv, NEW g \in Start, TxRuns(g)
    PROVE  BaseInv'
<1> USE DEF BaseInv
<1>1. /\ UNCHANGED <<running, starts, res, main, rx, tx_seq, lost, spilt>>
      /\ Alive(tx[g])
      /\ Uses(tx[g].on) \/ Uses(res) \/ UNCHANGED misused
  BY SMT DEF TxRuns, TxLoop, TxReceives, TxWrites, TxDrains, TxIs, Alive, TakeOne, bufs, numbers
<1>2. Current(tx[g], g) /\ g = starts
  BY <1>1, SMT DEF TxStaffed, Current
<1>3. heap \in Nat /\ Len(tx_queue) \in Nat /\ spilt \in Nat /\ spilt' = spilt
      /\ Life' /\ misused' \in BOOLEAN
  BY <1>1, UsesType, SMT DEF TypeOK, Life
<1>4. SUFFICES /\ tx' \in [Start -> Task] /\ TxStaffed' /\ Drained' /\ Owned' /\ heap' \in Nat
               /\ tx_queue' \in Seq([seq : Number, lost : Number]) /\ Len(tx_queue') <= TxQueueLen
               /\ sent' \in Number
  BY <1>1, <1>3, Zenon DEF TypeOK
<1>5. CASE TxLoop(g)
  <2>1. PICK pc \in {"wait", "drain"} :
          /\ tx' = [tx EXCEPT ![g] = Runs(pc)] /\ (pc = "wait" <=> running)
          /\ tx[g].pc = "loop" /\ UNCHANGED <<tx_queue, heap, sent>>
    BY <1>5, SMT DEF TxLoop, TxIs, bufs, numbers, TypeOK
  <2>2. /\ tx' \in [Start -> Task] /\ TxStaffed'
        /\ tx'[starts] = Runs(pc) /\ ~Writing /\ ~Writing'
    BY <1>1, <2>1, TxMoves
  <2>3. Drained'
    BY <1>1, <1>2, <2>1, <2>2, SMT DEF Drained, Life, Runs, Alive
  <2>4. Owned'
    BY <1>3, <2>1, <2>2 DEF Owned
  <2> QED BY <2>1, <2>2, <2>3, <2>4 DEF TypeOK
<1>6. CASE TxReceives(g) /\ TakeOne
  <2>1. /\ tx' = [tx EXCEPT ![g] = Runs("busy")] /\ tx[g].pc = "wait" /\ UNCHANGED heap
    BY <1>6, SMT DEF TxReceives, TakeOne, TxIs
  <2>2. /\ tx' \in [Start -> Task] /\ TxStaffed'
        /\ tx'[starts] = Runs("busy") /\ ~Writing /\ Writing'
    BY <1>1, <2>1, TxMoves
  <2>3. /\ tx_queue' \in Seq([seq : Number, lost : Number])
        /\ Len(tx_queue') = Len(tx_queue) - 1 /\ Len(tx_queue') <= TxQueueLen /\ sent' \in Number
    BY <1>6, TakeOneType
  <2>4. Drained'
    <3>1. tx_queue # <<>>
      BY <1>6 DEF TakeOne
    <3> QED BY <1>1, <2>2, <3>1, SMT DEF Drained, Runs, Alive
  <2>5. Owned'
    BY <1>3, <2>1, <2>2, <2>3, SMT DEF Owned
  <2> QED BY <2>1, <2>2, <2>3, <2>4, <2>5 DEF TypeOK
<1>7. CASE TxReceives(g) /\ tx_queue = <<>>
  <2>1. /\ tx' = [tx EXCEPT ![g] = Runs("loop")] /\ tx[g].pc = "wait"
        /\ UNCHANGED <<heap, tx_queue, sent>>
    BY <1>7, SMT DEF TxReceives, TakeOne, TxIs, bufs, numbers
  <2>2. /\ tx' \in [Start -> Task] /\ TxStaffed'
        /\ tx'[starts] = Runs("loop") /\ ~Writing /\ ~Writing'
    BY <1>1, <2>1, TxMoves
  <2>3. Drained'
    BY <1>1, <1>7, <2>1, <2>2, SMT DEF Drained, Runs, Alive
  <2>4. Owned'
    BY <1>3, <2>1, <2>2 DEF Owned
  <2> QED BY <2>1, <2>2, <2>3, <2>4 DEF TypeOK
<1>8. CASE TxWrites(g)
  <2>1. /\ tx' = [tx EXCEPT ![g] = Runs("loop")] /\ tx[g].pc = "busy" /\ heap' = heap - 1
        /\ UNCHANGED <<tx_queue, sent>>
    BY <1>8, SMT DEF TxWrites, TxIs, numbers
  <2>2. /\ tx' \in [Start -> Task] /\ TxStaffed'
        /\ tx'[starts] = Runs("loop") /\ Writing /\ ~Writing'
    BY <1>1, <2>1, TxMoves
  <2>3. Drained'
    BY <1>1, <2>1, <2>2, SMT DEF Drained, Runs, Alive
  <2>4. Owned' /\ heap' \in Nat
    BY <1>3, <2>1, <2>2, SMT DEF Owned
  <2> QED BY <2>1, <2>2, <2>3, <2>4 DEF TypeOK
<1>9. CASE TxDrains(g) /\ TakeOne
  <2>1. UNCHANGED tx /\ heap' = heap - 1
    BY <1>9, SMT DEF TxDrains, TakeOne
  <2>2. /\ tx_queue' \in Seq([seq : Number, lost : Number]) /\ Len(tx_queue) > 0
        /\ Len(tx_queue') = Len(tx_queue) - 1 /\ Len(tx_queue') <= TxQueueLen /\ sent' \in Number
    BY <1>9, TakeOneType
  <2>3. TxStaffed' /\ (Writing' <=> Writing)
    BY <1>1, <2>1 DEF TxStaffed, Current, Writing
  <2>4. Owned' /\ heap' \in Nat
    <3> DEFINE W == IF Writing THEN 1 ELSE 0
    <3>1. W \in {0, 1} /\ W' = W
      BY <2>3
    <3>2. heap = Len(tx_queue) + W + spilt
      BY DEF Owned
    <3> HIDE DEF W
    <3>3. heap' = Len(tx_queue') + W' + spilt' /\ heap' \in Nat
      BY <1>3, <2>1, <2>2, <3>1, <3>2, SMT
    <3> QED BY <3>3 DEF Owned, W
  <2>5. Drained'
    <3>1. tx_queue # <<>>
      BY <1>9 DEF TakeOne
    <3> QED BY <1>1, <2>1, <3>1, SMT DEF Drained
  <2> QED BY <2>1, <2>2, <2>3, <2>4, <2>5 DEF TypeOK
<1>10. CASE TxDrains(g) /\ tx_queue = <<>>
  <2>1. /\ tx' = [tx EXCEPT ![g] = Runs("gone")] /\ tx[g].pc = "drain"
        /\ UNCHANGED <<heap, tx_queue, sent>>
    BY <1>10, SMT DEF TxDrains, TakeOne, TxIs, bufs, numbers
  <2>2. /\ tx' \in [Start -> Task] /\ TxStaffed'
        /\ tx'[starts] = Runs("gone") /\ ~Writing /\ ~Writing'
    BY <1>1, <2>1, TxMoves
  <2>3. Drained'
    BY <1>1, <1>2, <1>10, <2>1, <2>2, SMT DEF Drained
  <2>4. Owned'
    BY <1>3, <2>1, <2>2 DEF Owned
  <2> QED BY <2>1, <2>2, <2>3, <2>4 DEF TypeOK
<1> QED BY <1>5, <1>6, <1>7, <1>8, <1>9, <1>10 DEF TxRuns, TxReceives, TxDrains

(***************************************************************************)
(* al1_link_send: no task and no start or stop moves.                      *)
(***************************************************************************)
LEMMA SendStep == ASSUME BaseInv, al1_link_send PROVE BaseInv'
<1> USE DEF BaseInv
<1>1. /\ running /\ UNCHANGED <<running, starts, res, main, rx, tx, sent, spilt>>
      /\ tx_seq' = SeqAfter(tx_seq) /\ misused' \in BOOLEAN
  BY SMT DEF al1_link_send, tasks, Uses, TypeOK
<1>2. main.pc \in {"create_rx", "create_tx", "up"} /\ Life' /\ TxStaffed' /\ Writing' = Writing
  BY <1>1 DEF Life, TxStaffed, Current, Writing
<1>3. /\ heap \in Nat /\ spilt \in Nat /\ tx_seq \in Number /\ lost \in Number /\ TxQueueLen \in Nat
      /\ tx_queue \in Seq([seq : Number, lost : Number]) /\ Len(tx_queue) \in Nat
      /\ Len(tx_queue) <= TxQueueLen
  BY LinkAssumption, SMT DEF LinkAssumption, TypeOK
<1>4. 0 \in Number
  BY LinkAssumption, SMT DEF LinkAssumption, Number
<1> DEFINE W == IF Writing THEN 1 ELSE 0
<1>5. W \in {0, 1} /\ W' = W /\ heap = Len(tx_queue) + W + spilt
  BY <1>2 DEF Owned
<1> HIDE DEF W
<1>6. /\ tx_queue' \in Seq([seq : Number, lost : Number]) /\ Len(tx_queue') <= TxQueueLen
      /\ lost' \in Number /\ heap' \in Nat
      /\ heap' = Len(tx_queue') + W + spilt
  <2>1. CASE Len(tx_queue) < TxQueueLen
    <3>1. /\ tx_queue' = Append(tx_queue, [seq |-> tx_seq, lost |-> lost])
          /\ lost' = 0 /\ heap' = heap + 1
      BY <2>1 DEF al1_link_send, Queued
    <3>2. [seq |-> tx_seq, lost |-> lost] \in [seq : Number, lost : Number]
      BY <1>3
    <3>3. tx_queue' \in Seq([seq : Number, lost : Number]) /\ Len(tx_queue') = Len(tx_queue) + 1
      BY <1>3, <3>1, <3>2, SMT
    <3> QED BY <1>3, <1>4, <1>5, <2>1, <3>1, <3>3, SMT
  <2>2. CASE ~(Len(tx_queue) < TxQueueLen)
    <3>1. lost' = SeqAfter(lost) /\ UNCHANGED <<tx_queue, heap>>
      BY <2>2 DEF al1_link_send, Refused
    <3> QED BY <1>3, <1>5, <3>1, SeqAfterType
  <2> QED BY <2>1, <2>2
<1>7. TypeOK'
  <2>1. tx_seq' \in Number
    BY <1>1, <1>3, SeqAfterType
  <2> QED BY <1>1, <1>3, <1>6, <2>1, Zenon DEF TypeOK
<1>8. Drained'
  BY <1>1, <1>2, SMT DEF Drained
<1>9. Owned'
  BY <1>1, <1>5, <1>6 DEF Owned, W
<1> QED BY <1>2, <1>7, <1>8, <1>9

(***************************************************************************)
(* Starting and stopping, while the buffers rest.                          *)
(***************************************************************************)
\* main has its type wherever it goes.
LEMMA MainType ==
    ASSUME NEW pc \in {"down", "create_rx", "create_tx", "fail", "up", "delay"}
    PROVE  [pc |-> pc, age |-> 0] \in [pc : {"down", "create_rx", "create_tx", "fail", "up", "delay"},
                                      age : 0 .. StopDelay]
  BY LinkAssumption, SMT DEF LinkAssumption

\* al1_link_start finds nobody there.
LEMMA StartStep == ASSUME BaseInv, al1_link_start PROVE BaseInv'
<1> USE DEF BaseInv
<1>1. /\ main.pc = "down" /\ starts' = starts + 1 /\ starts \in Nat /\ starts < MaxStarts
      /\ res = 0 /\ running = FALSE /\ MaxStarts \in Nat
      /\ \/ res' = starts' /\ running' = TRUE /\ main' = [pc |-> "create_rx", age |-> 0]
         \/ UNCHANGED <<res, running, main>>
      /\ tx_seq' = 0 /\ sent' = SeqMod - 1 /\ lost' = 0
      /\ UNCHANGED <<rx, tx, tx_queue, heap, spilt, misused>>
  BY LinkAssumption, SMT DEF LinkAssumption, al1_link_start, TypeOK, Life, MainAt, tasks
<1>2. \A g \in Start : ~Alive(tx[g])
  BY <1>1 DEF TxStaffed, Current
<1>3. TypeOK'
  <2>1. 0 \in Number /\ SeqMod - 1 \in Number
    BY LinkAssumption, SMT DEF LinkAssumption, Number
  <2>2. starts' \in 0 .. MaxStarts
    BY <1>1, SMT
  <2>3. res' \in {0, starts'} /\ running' \in BOOLEAN
    BY <1>1, Zenon
  <2>4. main' \in [pc : {"down", "create_rx", "create_tx", "fail", "up", "delay"}, age : 0 .. StopDelay]
    BY <1>1, MainType DEF TypeOK
  <2> QED BY <1>1, <2>1, <2>2, <2>3, <2>4, Zenon DEF TypeOK
<1>4. Life'
  BY <1>1, SMT DEF Life
<1>5. TxStaffed'
  BY <1>1, <1>2 DEF TxStaffed
<1>6. Drained'
  BY <1>1, SMT DEF Drained
<1>7. Owned'
  BY <1>1 DEF Owned, Writing
<1> QED BY <1>1, <1>3, <1>4, <1>5, <1>6, <1>7

\* Each task of a start is created once, on its resources.
LEMMA CreateStep == ASSUME BaseInv, CreateRx \/ CreateTx PROVE BaseInv'
<1> USE DEF BaseInv
<1>1. /\ main.pc \in {"create_rx", "create_tx"} /\ running = TRUE /\ res = starts /\ starts \in Start
      /\ UNCHANGED <<running, starts, res, tx_seq, tx_queue, heap, spilt, sent, lost, misused>>
  BY SMT DEF CreateRx, CreateTx, TypeOK, Life, Start, bufs, numbers
<1>2. Runs("loop") \in Task /\ Runs("alloc") \in Task
  BY RunsType
<1>3. \A pc \in {"loop", "alloc"} : Runs(pc).on = starts /\ Runs(pc).age = 0 /\ Runs(pc).pc = pc
  BY <1>1 DEF Runs
<1>4. \A pc \in {"loop", "alloc"} : Runs(pc).age <= Limit(Runs(pc).pc)
  BY <1>3, SMT DEF Limit
<1>5. CASE CreateRx
  <2>1. /\ main.pc = "create_rx" /\ main' = [pc |-> "create_tx", age |-> 0]
        /\ rx' = [rx EXCEPT ![starts] = Runs("alloc")] /\ UNCHANGED tx
    BY <1>5 DEF CreateRx, MainAt
  <2>2. \A g \in Start : ~Alive(tx[g])
    BY <2>1 DEF TxStaffed, Current
  <2>3. rx' \in [Start -> Task]
        /\ \A g \in Start : rx'[g] = IF g = starts THEN Runs("alloc") ELSE rx[g]
    BY <1>1, <1>2, <2>1, Zenon DEF TypeOK
  <2>4. TypeOK'
    BY <1>1, <2>1, <2>3, MainType, Zenon DEF TypeOK
  <2>5. Life'
    BY <1>1, <2>1, SMT DEF Life
  <2>6. TxStaffed'
    BY <1>1, <1>3, <1>4, <2>1, <2>2, <2>3 DEF TxStaffed, Current
  <2>7. Drained' /\ Owned'
    BY <1>1, <2>1, SMT DEF Drained, Owned, Writing
  <2> QED BY <1>1, <2>4, <2>5, <2>6, <2>7
<1>6. CASE CreateTx
  <2>1. /\ main.pc = "create_tx" /\ main' = [pc |-> "up", age |-> 0]
        /\ tx' = [tx EXCEPT ![starts] = Runs("loop")] /\ UNCHANGED rx
    BY <1>6 DEF CreateTx, MainAt
  <2>2. \A g \in Start : ~Alive(tx[g])
    BY <2>1 DEF TxStaffed, Current
  <2>3. tx' \in [Start -> Task]
        /\ \A g \in Start : tx'[g] = IF g = starts THEN Runs("loop") ELSE tx[g]
    BY <1>1, <1>2, <2>1, Zenon DEF TypeOK
  <2>4. TypeOK'
    BY <1>1, <2>1, <2>3, MainType, Zenon DEF TypeOK
  <2>5. Life'
    BY <1>1, <2>1, SMT DEF Life
  <2>6. TxStaffed'
    BY <1>1, <1>3, <1>4, <2>1, <2>2, <2>3 DEF TxStaffed, Current
  <2>7. Drained'
    BY <1>1, <1>3, <2>1, <2>3, SMT DEF Drained
  <2>8. ~Writing /\ ~Writing'
    BY <1>3, <2>2, <2>3, SMT DEF Writing, Alive
  <2>9. Owned'
    BY <1>1, <2>8 DEF Owned
  <2> QED BY <1>1, <2>4, <2>5, <2>6, <2>7, <2>9
<1> QED BY <1>5, <1>6

\* When al1_link_stop has waited StopDelay no task it waited for is left.
LEMMA OutlastsTasks ==
    ASSUME NEW g \in Start, NEW t \in Task, Current(t, g), main.pc = "delay", main.age = StopDelay
    PROVE  ~Alive(t)
<1>1. main.age <= WaitedFor(t) /\ t.age <= Limit(t.pc) /\ t.age \in Nat
  BY DEF Current, Task
<1> QED BY <1>1, LinkAssumption, SMT DEF LinkAssumption, WaitedFor, Limit, Alive

(***************************************************************************)
(* A start that fails has no tx_task yet, and spills what was sent before; *)
(* al1_link_stop waits long enough, and so no tx_task and no queued frame  *)
(* is left when the resources go.                                          *)
(***************************************************************************)
LEMMA EndStep ==
    ASSUME BaseInv, CreateFails \/ FailDriver \/ al1_link_stop \/ StopFrees
    PROVE  BaseInv'
<1> USE DEF BaseInv
<1>1. UNCHANGED <<starts, rx, tx, tx_seq, heap, sent, lost, misused>> /\ Writing' = Writing
  BY SMT DEF CreateFails, FailDriver, al1_link_stop, StopFrees, FreeAll, tasks, bufs, numbers, Writing
<1>2. \A g \in Start : tx[g] \in Task
  BY DEF TypeOK
<1>3. CASE CreateFails
  <2>1. /\ main.pc \in {"create_rx", "create_tx"} /\ running' = FALSE
        /\ main' = [pc |-> "fail", age |-> 0]
        /\ UNCHANGED <<res, tx_queue, spilt>>
    BY <1>3, LinkAssumption, SMT DEF LinkAssumption, CreateFails, MainAt, bufs, TypeOK
  <2>2. \A g \in Start : ~Alive(tx[g])
    BY <2>1 DEF TxStaffed, Current
  <2>3. TypeOK'
    BY <1>1, <2>1, MainType, Zenon DEF TypeOK
  <2>4. Life' /\ TxStaffed'
    BY <1>1, <2>1, <2>2, SMT DEF Life, TxStaffed
  <2>5. Drained' /\ Owned'
    BY <1>1, <2>1, SMT DEF Drained, Owned
  <2> QED BY <1>1, <2>3, <2>4, <2>5
<1>4. CASE al1_link_stop
  <2>1. /\ main.pc = "up" /\ running' = FALSE /\ main' = [pc |-> "delay", age |-> 0]
        /\ UNCHANGED <<res, tx_queue, spilt>>
    BY <1>4 DEF al1_link_stop, MainAt, bufs
  <2>2. TypeOK'
    BY <1>1, <2>1, MainType, Zenon DEF TypeOK
  <2>3. Life'
    BY <1>1, <2>1, SMT DEF Life
  <2>4. \A t \in Task : WaitedFor(t) \in Nat
    BY LinkAssumption, SMT DEF LinkAssumption, WaitedFor, Task
  <2>5. TxStaffed'
    <3>1. ASSUME NEW g \in Start, NEW t \in Task, Current(t, g) PROVE Current(t, g)'
      BY <1>1, <2>1, <2>4, <3>1, SMT DEF Current
    <3> QED BY <1>1, <1>2, <2>1, <3>1 DEF TxStaffed
  <2>6. Drained' /\ Owned'
    BY <1>1, <2>1, SMT DEF Drained, Owned, Alive
  <2> QED BY <1>1, <2>2, <2>3, <2>5, <2>6
<1>5. CASE FailDriver \/ StopFrees
  <2>1. /\ res' = 0 /\ tx_queue' = <<>> /\ main' = [pc |-> "down", age |-> 0] /\ UNCHANGED running
        /\ main.pc \in {"fail", "delay"} /\ (main.pc = "delay" => main.age = StopDelay)
    BY <1>5, SMT DEF FailDriver, StopFrees, FreeAll, MainDown
  <2>3. \A g \in Start : ~Alive(tx[g])
    BY <1>2, <2>1, OutlastsTasks DEF TxStaffed, Current
  <2>4. spilt' = spilt + Len(tx_queue) /\ spilt \in Nat /\ Len(tx_queue) \in Nat
    <3>1. main.pc = "delay" => starts \in Start
      BY SMT DEF TypeOK, Life, Start
    <3>2. spilt \in Nat /\ Len(tx_queue) \in Nat
      BY SMT DEF TypeOK
    <3>3. CASE FailDriver
      BY <3>2, <3>3 DEF FailDriver
    <3>4. CASE StopFrees
      <4>1. tx_queue = <<>> /\ spilt' = spilt
        BY <2>3, <3>1, <3>4, SMT DEF Drained, StopFrees
      <4> QED BY <3>2, <4>1
    <3> QED BY <1>5, <3>2, <3>3, <3>4
  <2>5. TypeOK'
    <3>1. /\ tx_queue' \in Seq([seq : Number, lost : Number]) /\ Len(tx_queue') <= TxQueueLen
          /\ spilt' \in Nat
      BY <2>1, <2>4, LinkAssumption, SMT DEF LinkAssumption
    <3> QED BY <1>1, <2>1, <3>1, MainType, Zenon DEF TypeOK
  <2>6. Life' /\ TxStaffed'
    BY <1>1, <2>1, <2>3, SMT DEF Life, TxStaffed
  <2>7. Drained'
    BY <2>1, SMT DEF Drained
  <2>8. Owned'
    <3> DEFINE W == IF Writing THEN 1 ELSE 0
    <3>1. W \in {0, 1} /\ W' = W /\ heap = Len(tx_queue) + W + spilt /\ heap' = heap
      BY <1>1 DEF Owned
    <3>2. Len(tx_queue') = 0
      BY <2>1, SMT
    <3> HIDE DEF W
    <3>3. heap' = Len(tx_queue') + W' + spilt'
      BY <2>4, <3>1, <3>2, SMT
    <3> QED BY <3>3 DEF Owned, W
  <2> QED BY <1>1, <2>5, <2>6, <2>7, <2>8
<1> QED BY <1>3, <1>4, <1>5

\* A task that may wait a tick ages by one, within its limit.
LEMMA GrowsOlder ==
    ASSUME NEW t \in Task, MayWait(t)
    PROVE  /\ Older(t) \in Task /\ Older(t).pc = t.pc /\ Older(t).on = t.on
           /\ Alive(t) => /\ t.pc \in {"wait", "busy"}
                          /\ Older(t).age = t.age + 1 /\ t.age + 1 <= Limit(t.pc)
<1>1. CASE t.pc \in {"none", "gone"}
  BY <1>1 DEF Older, Alive
<1>2. CASE t.pc \in {"wait", "busy"}
  <2>1. t.age \in Nat /\ t.age < Limit(t.pc)
    BY <1>2, SMT DEF MayWait, Task
  <2>2. Limit(t.pc) \in Nat /\ Limit(t.pc) <= Timeout + Busy
    BY <1>2, LinkAssumption, SMT DEF LinkAssumption, Limit
  <2>3. t.age + 1 \in 0 .. (Timeout + Busy)
    BY <2>1, <2>2, LinkAssumption, SMT DEF LinkAssumption
  <2>4. Older(t) = [t EXCEPT !.age = @ + 1]
    BY <1>2 DEF Older
  <2>5. Older(t) \in Task /\ Older(t).pc = t.pc /\ Older(t).on = t.on /\ Older(t).age = t.age + 1
    BY <2>3, <2>4, SMT DEF Task
  <2> QED BY <1>2, <2>1, <2>2, <2>5, SMT
<1>3. CASE t.pc \in {"alloc", "loop", "drain"}
  BY <1>3, SMT DEF MayWait, Limit, Task
<1> QED BY <1>1, <1>2, <1>3 DEF Task

\* And it stays one of the last start.
LEMMA StaysCurrent ==
    ASSUME TypeOK, NEW g \in Start, NEW t \in Task, MayWait(t), Alive(t), Current(t, g),
           UNCHANGED starts, main'.pc = main.pc, main.pc = "delay" => main'.age = main.age + 1
    PROVE  Current(Older(t), g)'
<1>1. /\ Older(t).pc = t.pc /\ Older(t).on = t.on
      /\ t.pc \in {"wait", "busy"} /\ Older(t).age = t.age + 1 /\ t.age + 1 <= Limit(t.pc)
  BY GrowsOlder
<1>2. main.pc = "delay" => main.age + 1 <= WaitedFor(Older(t))
  <2>1. t.age \in Nat /\ main.age \in Nat /\ Timeout \in Nat
    BY LinkAssumption, SMT DEF LinkAssumption, TypeOK, Task
  <2>2. main.pc = "delay" => main.age <= WaitedFor(t)
    BY DEF Current
  <2> QED BY <1>1, <2>1, <2>2, SMT DEF WaitedFor
<1> QED BY <1>1, <1>2, SMT DEF Current

\* Time passes only while every task that is left is within its timeout.
LEMMA TickStep == ASSUME BaseInv, Tick PROVE BaseInv'
<1> USE DEF BaseInv
<1>1. /\ UNCHANGED <<running, starts, res, tx_seq, tx_queue, heap, spilt, sent, lost, misused>>
      /\ \A g \in Start : MayWait(rx[g]) /\ MayWait(tx[g])
      /\ rx' = [g \in Start |-> Older(rx[g])]
      /\ tx' = [g \in Start |-> Older(tx[g])]
  BY DEF Tick, bufs, numbers
<1>2. /\ main'.pc = main.pc
      /\ main' \in [pc : {"down", "create_rx", "create_tx", "fail", "up", "delay"}, age : 0 .. StopDelay]
      /\ main.pc = "delay" => main'.age = main.age + 1
  <2>1. /\ main \in [pc : {"down", "create_rx", "create_tx", "fail", "up", "delay"}, age : 0 .. StopDelay]
        /\ StopDelay \in Nat
    BY LinkAssumption DEF LinkAssumption, TypeOK
  <2>2. CASE main.pc = "delay"
    <3>1. main.age < StopDelay /\ main' = [main EXCEPT !.age = @ + 1]
      BY <2>2 DEF Tick
    <3>2. main.age + 1 \in 0 .. StopDelay
      BY <2>1, <3>1, SMT
    <3> QED BY <2>1, <3>1, <3>2
  <2>3. CASE main.pc # "delay"
    BY <2>1, <2>3 DEF Tick
  <2> QED BY <2>2, <2>3
<1>4. \A g \in Start : rx[g] \in Task /\ tx[g] \in Task
  BY DEF TypeOK
<1>5. rx' \in [Start -> Task] /\ tx' \in [Start -> Task]
  BY <1>1, <1>4, GrowsOlder
<1>6. TypeOK'
  BY <1>1, <1>2, <1>5, Zenon DEF TypeOK
<1>7. Life'
  BY <1>1, <1>2, SMT DEF Life
<1>9. TxStaffed'
  BY <1>1, <1>2, <1>4, GrowsOlder, StaysCurrent DEF TxStaffed, Alive
<1>10. \A g \in Start : rx'[g].pc = rx[g].pc /\ tx'[g].pc = tx[g].pc
  BY <1>1, <1>4, GrowsOlder
<1>11. Drained'
  <2>1. main.pc \in {"up", "delay"} => starts \in Start
    BY SMT DEF TypeOK, Life, Start
  <2> QED BY <1>1, <1>2, <1>10, <2>1, SMT DEF Drained, Alive
<1>12. Owned'
  BY <1>1, <1>10 DEF Owned, Writing
<1> QED BY <1>1, <1>6, <1>7, <1>9, <1>11, <1>12

\* Before the first start there is nothing.
LEMMA InitInv == Init => LinkInv
<1> SUFFICES ASSUME Init PROVE LinkInv
  OBVIOUS
<1> USE LinkAssumption DEF LinkAssumption, Init
<1>1. 0 \in Number /\ SeqMod - 1 \in Number
  BY SMT DEF Number
<1>2. [pc |-> "none", on |-> 0, age |-> 0] \in Task
  BY SMT DEF Task
<1>3. rx \in [Start -> Task] /\ tx \in [Start -> Task]
  BY <1>2
<1>4. tx_queue \in Seq([seq : Number, lost : Number]) /\ Len(tx_queue) = 0
  BY <1>1, SMT
<1>5. TypeOK
  <2>1. starts \in 0 .. MaxStarts /\ heap \in Nat /\ spilt \in Nat /\ Len(tx_queue) <= TxQueueLen
    BY <1>4, SMT
  <2> QED BY <1>1, <1>3, <1>4, <2>1, MainType, Zenon DEF TypeOK, MainDown
<1>6. Life /\ Drained
  BY SMT DEF Life, Drained, MainDown
<1>7. TxStaffed /\ RxStaffed /\ ~Writing
  BY SMT DEF TxStaffed, RxStaffed, Alive, Writing
<1>8. Owned
  BY <1>4, <1>7, SMT DEF Owned
<1> QED BY <1>5, <1>6, <1>7, <1>8 DEF LinkInv, BaseInv

\* Every step keeps the base invariant.
LEMMA NextBase == ASSUME BaseInv, [Next]_vars PROVE BaseInv'
<1>1. CASE UNCHANGED vars
  BY <1>1 DEF vars, tasks, bufs, numbers, BaseInv, TypeOK, Life, TxStaffed, Current, Drained, Owned,
              Writing
<1> QED
  BY <1>1, StartStep, CreateStep, EndStep, RxBase, TxStep, SendStep, TickStep DEF Next

\* The base invariant holds whatever fails: tx_task and the buffers are as they
\* should be even after a start that left an rx_task behind.
THEOREM BaseInvariant == Spec => []BaseInv
<1>1. Init => BaseInv
  BY InitInv DEF LinkInv
<1>2. BaseInv /\ [Next]_vars => BaseInv'
  BY NextBase
<1> QED BY <1>1, <1>2, PTL DEF Spec

-----------------------------------------------------------------------------
(***************************************************************************)
(* With a tx_task for every link that starts, rx_task too is of the last   *)
(* start only, and nothing is used before it is there or after it is gone. *)
(***************************************************************************)

\* A step of a task finds the resources of the last start.
LEMMA UsesOwn ==
    ASSUME LinkInv, NEW t, NEW g, Current(t, g), Uses(t.on) \/ Uses(res) \/ UNCHANGED misused
    PROVE  misused' = FALSE
  BY SMT DEF LinkInv, BaseInv, TypeOK, Life, Current, Uses

LEMMA RxOwn ==
    ASSUME LinkInv, NEW g \in Start, RxRuns(g)
    PROVE  RxStaffed' /\ misused' = FALSE
<1> USE DEF LinkInv, BaseInv
<1>1. /\ UNCHANGED <<running, starts, res, main>>
      /\ Alive(rx[g])
      /\ Uses(rx[g].on) \/ Uses(res) \/ UNCHANGED misused
  BY SMT DEF RxRuns, RxAllocates, RxLoop, RxReads, RxFeeds, RxIs, Alive
<1>2. PICK pc \in {"loop", "wait", "busy", "gone"} :
         /\ rx' = [rx EXCEPT ![g] = Runs(pc)]
         /\ pc = "wait" => running
         /\ pc = "busy" => rx[g].pc = "wait"
  BY SMT DEF RxRuns, RxAllocates, RxLoop, RxReads, RxFeeds, RxIs
<1>3. rx \in [Start -> Task] /\ rx[g] \in Task /\ Current(rx[g], g)
  BY <1>1 DEF TypeOK, RxStaffed
<1>4. Alive(Runs(pc)) => Current(Runs(pc), g)
  BY <1>1, <1>2, <1>3, MovesOn, SMT DEF Alive, Runs
<1>5. misused' = FALSE
  BY <1>1, <1>3, UsesOwn
<1>6. \A h \in Start : rx'[h] = IF h = g THEN Runs(pc) ELSE rx[h]
  BY <1>2, <1>3, Zenon
<1>7. \A h \in Start : \A t : Current(t, h)' <=> Current(t, h)
  BY <1>1 DEF Current
<1>8. RxStaffed'
  BY <1>4, <1>6, <1>7 DEF RxStaffed
<1> QED BY <1>5, <1>8

LEMMA TxOwn ==
    ASSUME LinkInv, NEW g \in Start, TxRuns(g)
    PROVE  RxStaffed' /\ misused' = FALSE
<1>1. /\ UNCHANGED <<running, starts, res, main, rx>> /\ Alive(tx[g])
      /\ Uses(tx[g].on) \/ Uses(res) \/ UNCHANGED misused
  BY SMT DEF TxRuns, TxLoop, TxReceives, TxWrites, TxDrains, Alive
<1>2. Current(tx[g], g)
  BY <1>1 DEF LinkInv, BaseInv, TxStaffed
<1>3. misused' = FALSE
  BY <1>1, <1>2, UsesOwn
<1>4. RxStaffed'
  BY <1>1 DEF LinkInv, RxStaffed, Current
<1> QED BY <1>3, <1>4

LEMMA SendOwn == ASSUME LinkInv, al1_link_send PROVE RxStaffed' /\ misused' = FALSE
<1> USE DEF LinkInv, BaseInv
<1>1. running /\ Uses(res) /\ UNCHANGED <<starts, main, rx>>
  BY DEF al1_link_send, tasks
<1>2. RxStaffed'
  BY <1>1 DEF RxStaffed, Current
<1>3. res # 0
  BY <1>1, SMT DEF Life, TypeOK
<1> QED BY <1>1, <1>2, <1>3, Zenon DEF Uses

\* Every start finds no task of an earlier one, and leaves none when it fails.
LEMMA MainOwn ==
    ASSUME "create_tx" \notin Fails, LinkInv,
           \/ al1_link_start \/ CreateRx \/ CreateTx \/ CreateFails \/ FailDriver
           \/ al1_link_stop \/ StopFrees
    PROVE  RxStaffed' /\ misused' = FALSE
<1> USE DEF LinkInv, BaseInv
<1>1. misused' = FALSE
  BY DEF al1_link_start, CreateRx, CreateTx, CreateFails, FailDriver, al1_link_stop, StopFrees, FreeAll
<1>2. \A g \in Start : rx[g] \in Task
  BY DEF TypeOK
<1>3. CASE al1_link_start \/ CreateFails \/ FailDriver
  <2>1. main.pc \in {"down", "create_rx", "fail"} /\ UNCHANGED rx
    BY <1>3, LinkAssumption, SMT
    DEF LinkAssumption, al1_link_start, CreateFails, FailDriver, FreeAll, tasks, TypeOK
  <2>2. \A g \in Start : ~Alive(rx[g])
    BY <2>1 DEF RxStaffed, Current
  <2> QED BY <1>1, <2>1, <2>2 DEF RxStaffed
<1>4. CASE CreateRx
  <2>1. /\ main.pc = "create_rx" /\ main'.pc = "create_tx" /\ UNCHANGED <<starts, res>>
        /\ rx' = [rx EXCEPT ![starts] = Runs("alloc")]
    BY <1>4 DEF CreateRx, MainAt
  <2>2. \A g \in Start : ~Alive(rx[g])
    BY <2>1 DEF RxStaffed, Current
  <2>3. Runs("alloc").on = starts /\ Runs("alloc").age = 0 /\ Runs("alloc").pc = "alloc"
    BY <2>1 DEF Runs, Life
  <2>4. 0 <= Limit("alloc")
    BY SMT DEF Limit
  <2>5. \A g \in Start : rx'[g] = IF g = starts THEN Runs("alloc") ELSE rx[g]
    BY <2>1, Zenon DEF TypeOK
  <2>6. RxStaffed'
    BY <2>1, <2>2, <2>3, <2>4, <2>5 DEF RxStaffed, Current
  <2> QED BY <1>1, <2>6
<1>5. CASE CreateTx
  <2>1. main.pc = "create_tx" /\ main'.pc = "up" /\ UNCHANGED <<starts, rx>>
    BY <1>5 DEF CreateTx, MainAt
  <2>2. RxStaffed'
    BY <2>1 DEF RxStaffed, Current
  <2> QED BY <1>1, <2>2
<1>6. CASE al1_link_stop
  <2>1. /\ main.pc = "up" /\ main' = [pc |-> "delay", age |-> 0] /\ UNCHANGED <<starts, rx>>
    BY <1>6 DEF al1_link_stop, MainAt, tasks
  <2>2. \A t \in Task : WaitedFor(t) \in Nat
    BY LinkAssumption, SMT DEF LinkAssumption, WaitedFor, Task
  <2>3. ASSUME NEW g \in Start, Current(rx[g], g) PROVE Current(rx[g], g)'
    BY <1>2, <2>1, <2>2, <2>3, SMT DEF Current
  <2>4. RxStaffed'
    BY <2>1, <2>3 DEF RxStaffed
  <2> QED BY <1>1, <2>4
<1>7. CASE StopFrees
  <2>1. main.pc = "delay" /\ main.age = StopDelay /\ UNCHANGED rx
    BY <1>7 DEF StopFrees, FreeAll, tasks
  <2>2. \A g \in Start : ~Alive(rx[g])
    BY <1>2, <2>1, OutlastsTasks DEF RxStaffed
  <2> QED BY <1>1, <2>1, <2>2 DEF RxStaffed
<1> QED BY <1>3, <1>4, <1>5, <1>6, <1>7

LEMMA TickOwn == ASSUME LinkInv, Tick PROVE RxStaffed' /\ misused' = FALSE
<1> USE DEF LinkInv, BaseInv
<1>1. /\ UNCHANGED <<starts, misused>>
      /\ \A g \in Start : MayWait(rx[g])
      /\ rx' = [g \in Start |-> Older(rx[g])]
  BY DEF Tick
<1>2. main'.pc = main.pc /\ (main.pc = "delay" => main'.age = main.age + 1)
  BY LinkAssumption, SMT DEF LinkAssumption, Tick, TypeOK
<1>3. \A g \in Start : rx[g] \in Task
  BY DEF TypeOK
<1>4. RxStaffed'
  BY <1>1, <1>2, <1>3, GrowsOlder, StaysCurrent DEF RxStaffed, Alive
<1> QED BY <1>1, <1>4

LEMMA NextInv == ASSUME "create_tx" \notin Fails, LinkInv, [Next]_vars PROVE LinkInv'
<1>1. BaseInv'
  BY NextBase DEF LinkInv
<1>2. CASE UNCHANGED vars
  BY <1>1, <1>2 DEF vars, tasks, LinkInv, RxStaffed, Current
<1>3. CASE Next
  BY <1>1, <1>3, RxOwn, TxOwn, SendOwn, MainOwn, TickOwn DEF Next, LinkInv
<1> QED BY <1>2, <1>3

\* The whole invariant holds whenever tx_task can be created.
THEOREM LinkInvariant == "create_tx" \notin Fails /\ Spec => []LinkInv
<1> SUFFICES ASSUME "create_tx" \notin Fails PROVE Spec => []LinkInv
  OBVIOUS
<1>1. LinkInv /\ [Next]_vars => LinkInv'
  BY NextInv
<1> QED BY InitInv, <1>1, PTL DEF Spec

(***************************************************************************)
(* At most one task writes, so Owned counts what NoLeak does.              *)
(***************************************************************************)
LEMMA AtMostOne ==
    ASSUME NEW S, NEW e, S \subseteq {e}
    PROVE  Cardinality(S) = IF S = {} THEN 0 ELSE 1
<1>1. CASE S = {}
  BY <1>1, FS_EmptySet
<1>2. CASE S # {}
  BY <1>2, FS_Singleton
<1> QED BY <1>1, <1>2

\* NoLeak follows from the invariant.
LEMMA OwnedNoLeak == BaseInv => NoLeak
<1> SUFFICES ASSUME BaseInv PROVE NoLeak
  OBVIOUS
<1> DEFINE T == {g \in Start : tx[g].pc = "busy"}
<1>1. T \subseteq {starts} /\ (T = {} <=> ~Writing)
  BY DEF BaseInv, TxStaffed, Current, Alive, Writing
<1>2. Cardinality(T) = IF Writing THEN 1 ELSE 0
  BY <1>1, AtMostOne
<1> HIDE DEF T
<1>3. Held = IF Writing THEN 1 ELSE 0
  BY <1>2 DEF Held, T
<1> QED BY <1>3 DEF NoLeak, BaseInv, Owned

\* The link's types hold whatever fails, for any number of starts, any queue and
\* any timing within LinkAssumption.
THEOREM LinkTypeCorrect == Spec => []TypeOK
<1>1. BaseInv => TypeOK
  BY DEF BaseInv
<1> QED BY <1>1, BaseInvariant, PTL

\* The delay of al1_link_stop suffices: no task touches the driver, the queue or
\* the parser once they are freed.
THEOREM NeverUsedAfterFree == "create_tx" \notin Fails /\ Spec => []NoUseAfterFree
<1>1. LinkInv => NoUseAfterFree
  BY DEF LinkInv, NoUseAfterFree
<1> QED BY <1>1, LinkInvariant, PTL

\* No task of an earlier start is left when al1_link_start raises the flag again.
THEOREM AlwaysOneReader == "create_tx" \notin Fails /\ Spec => []OneReader
<1>1. LinkInv => OneReader
  BY DEF LinkInv, BaseInv, TypeOK, OneReader, TxStaffed, RxStaffed, Current
<1> QED BY <1>1, LinkInvariant, PTL

\* Every frame buffer is in the queue or with tx_task, but for those that the
\* failed starts so far deleted with their queues: nothing else that fails leaks.
THEOREM NeverLeaks == Spec => []NoLeak
<1> QED BY OwnedNoLeak, BaseInvariant, PTL

\* With the link down nothing of it is left: no resource, no queued frame, no
\* buffer beyond what a failed start spilt, and no task that could touch them.
DownIsClean ==
    main.pc = "down" => /\ res = 0 /\ tx_queue = <<>> /\ heap = spilt
                        /\ \A g \in Start : ~Alive(rx[g]) /\ ~Alive(tx[g])

\* What al1_link_stop promises about the state it leaves, for every timing.
THEOREM DownAlwaysClean == "create_tx" \notin Fails /\ Spec => []DownIsClean
<1>1. LinkInv => DownIsClean
  <2> SUFFICES ASSUME LinkInv, main.pc = "down"
               PROVE  /\ res = 0 /\ tx_queue = <<>> /\ heap = spilt
                      /\ \A g \in Start : ~Alive(rx[g]) /\ ~Alive(tx[g])
    BY DEF DownIsClean
  <2>1. /\ res = 0 /\ tx_queue = <<>> /\ spilt \in Nat
        /\ \A g \in Start : ~Alive(rx[g]) /\ ~Alive(tx[g])
    BY DEF LinkInv, BaseInv, Life, Drained, RxStaffed, TxStaffed, Current, TypeOK
  <2>2. Len(tx_queue) = 0 /\ ~Writing
    BY <2>1 DEF Writing, Alive
  <2>3. heap = spilt
    BY <2>1, <2>2 DEF LinkInv, BaseInv, Owned
  <2> QED BY <2>1, <2>3
<1> QED BY <1>1, LinkInvariant, PTL

-----------------------------------------------------------------------------
(***************************************************************************)
(* Shutting down.  Left bounds the steps from the delay of al1_link_stop   *)
(* to its end: the ticks to wait, the turns each task still takes before   *)
(* it leaves, and the frames tx_task drains on its way.                    *)
(***************************************************************************)
RxLeft(t) == CASE t.pc = "alloc" -> 4
               [] t.pc = "wait"  -> 3
               [] t.pc = "busy"  -> 2
               [] t.pc = "loop"  -> 1
               [] OTHER          -> 0
TxLeft(t) == CASE t.pc = "wait"  -> 4
               [] t.pc = "busy"  -> 3
               [] t.pc = "loop"  -> 2
               [] t.pc = "drain" -> 1
               [] OTHER          -> 0

Left == (StopDelay - main.age) + RxLeft(rx[starts]) + TxLeft(tx[starts]) + Len(tx_queue)

\* al1_link_stop is on its way: every step of anybody brings its end nearer.
StopAdvances ==
    [][main.pc = "delay" =>
           main'.pc = "down" \/ (main'.pc = "delay" /\ Left' < Left)]_vars

\* What Left is made of.
LEMMA TurnsLeft == \A t : RxLeft(t) \in 0 .. 4 /\ TxLeft(t) \in 0 .. 4
<1>1. \A t : RxLeft(t) \in 0 .. 4
  BY SMT DEF RxLeft
<1>2. \A t : TxLeft(t) \in 0 .. 4
  BY SMT DEF TxLeft
<1> QED BY <1>1, <1>2

LEMMA LeftType == ASSUME TypeOK PROVE StopDelay - main.age \in Nat /\ Len(tx_queue) \in Nat
  BY LinkAssumption, SMT DEF LinkAssumption, TypeOK

\* During the delay a turn of a task that reads the flag leaves it fewer turns.
LEMMA TurnTaken ==
    ASSUME LinkInv, main.pc = "delay", NEW g \in Start, RxRuns(g) \/ TxRuns(g)
    PROVE  /\ UNCHANGED <<main, starts>>
           /\ RxLeft(rx[starts])' + TxLeft(tx[starts])' + Len(tx_queue)'
                < RxLeft(rx[starts]) + TxLeft(tx[starts]) + Len(tx_queue)
<1>1. running = FALSE /\ starts \in Start /\ rx \in [Start -> Task] /\ tx \in [Start -> Task]
  BY SMT DEF LinkInv, BaseInv, TypeOK, Life, Start
<1> DEFINE r == RxLeft(rx[starts])
           t == TxLeft(tx[starts])
           n == Len(tx_queue)
<1>2. r \in Nat /\ t \in Nat /\ n \in Nat
  BY LeftType, TurnsLeft DEF LinkInv, BaseInv
<1>3. CASE RxRuns(g)
  <2>1. Alive(rx[g]) /\ UNCHANGED <<main, starts, tx, tx_queue>>
    BY <1>3 DEF RxRuns, RxAllocates, RxLoop, RxReads, RxFeeds, bufs, Alive
  <2>2. g = starts
    BY <2>1 DEF LinkInv, RxStaffed, Current
  <2>3. r' < r
    <3>1. PICK pc \in {"loop", "busy", "gone"} :
             /\ rx' = [rx EXCEPT ![g] = Runs(pc)]
             /\ \/ rx[g].pc = "alloc"
                \/ rx[g].pc = "wait" /\ pc \in {"busy", "loop"}
                \/ rx[g].pc = "busy" /\ pc = "loop"
                \/ rx[g].pc = "loop" /\ pc = "gone"
      BY <1>1, <1>3, SMT DEF RxRuns, RxAllocates, RxLoop, RxReads, RxFeeds, RxIs
    <3>2. rx'[starts].pc = pc /\ starts' = starts
      BY <1>1, <2>1, <2>2, <3>1 DEF Runs
    <3>3. pc # "alloc" /\ pc # "wait"
      OBVIOUS
    <3> QED BY <2>2, <3>1, <3>2, <3>3, SMT DEF RxLeft
  <2>4. t' = t /\ n' = n
    BY <2>1
  <2>5. r' \in Nat
    BY TurnsLeft
  <2>6. r' + t' + n' < r + t + n
    BY <1>2, <2>3, <2>4, <2>5, SMT
  <2> QED BY <2>1, <2>6 DEF r, t, n
<1>4. CASE TxRuns(g)
  <2>1. Alive(tx[g]) /\ UNCHANGED <<main, starts, rx>>
    BY <1>4 DEF TxRuns, TxLoop, TxReceives, TxWrites, TxDrains, Alive
  <2>2. g = starts
    BY <2>1 DEF LinkInv, BaseInv, TxStaffed, Current
  <2>3. r' = r
    BY <2>1
  <2>4. \/ TakeOne /\ t' <= t
        \/ UNCHANGED tx_queue /\ t' < t
    <3>1. \/ /\ TakeOne /\ UNCHANGED tx
          \/ \E pc \in {"loop", "busy", "drain", "gone"} :
                /\ tx' = [tx EXCEPT ![g] = Runs(pc)]
                /\ \/ TakeOne /\ tx[g].pc = "wait" /\ pc = "busy"
                   \/ UNCHANGED tx_queue /\ tx[g].pc = "wait" /\ pc = "loop"
                   \/ UNCHANGED tx_queue /\ tx[g].pc = "busy" /\ pc = "loop"
                   \/ UNCHANGED tx_queue /\ tx[g].pc = "loop" /\ pc = "drain"
                   \/ UNCHANGED tx_queue /\ tx[g].pc = "drain" /\ pc = "gone"
      BY <1>1, <1>4, SMT DEF TxRuns, TxLoop, TxReceives, TxWrites, TxDrains, TxIs, bufs
    <3>2. CASE TakeOne /\ UNCHANGED tx
      BY <1>2, <2>1, <3>2
    <3>3. ASSUME NEW pc \in {"loop", "busy", "drain", "gone"},
                 tx' = [tx EXCEPT ![g] = Runs(pc)]
          PROVE  tx'[starts].pc = pc /\ starts' = starts
      BY <1>1, <2>1, <2>2, <3>3 DEF Runs
    <3> QED BY <2>2, <3>1, <3>2, <3>3, SMT DEF TxLeft
  <2>5. TakeOne => n' = n - 1
    BY TakeOneType DEF LinkInv, BaseInv
  <2>6. t' \in Nat
    BY TurnsLeft
  <2>7. n' \in Int /\ (UNCHANGED tx_queue => n' = n)
    BY <1>2, <2>4, <2>5
  <2>8. r' + t' + n' < r + t + n
    BY <1>2, <2>3, <2>4, <2>5, <2>6, <2>7
  <2> QED BY <2>1, <2>8 DEF r, t, n
<1> QED BY <1>3, <1>4

\* A tick takes one off the delay and no turn off a task.
LEMMA TickTaken ==
    ASSUME LinkInv, main.pc = "delay", Tick
    PROVE  main'.pc = "delay" /\ Left' < Left
<1>1. /\ UNCHANGED <<starts, tx_queue>> /\ main.age < StopDelay
      /\ main' = [main EXCEPT !.age = @ + 1]
      /\ \A g \in Start : MayWait(rx[g]) /\ MayWait(tx[g])
      /\ rx' = [g \in Start |-> Older(rx[g])] /\ tx' = [g \in Start |-> Older(tx[g])]
  BY DEF Tick, bufs
<1>2. /\ starts \in Start /\ main.age \in Nat /\ StopDelay \in Nat
      /\ rx[starts] \in Task /\ tx[starts] \in Task
  BY LinkAssumption, SMT DEF LinkAssumption, LinkInv, BaseInv, TypeOK, Life, Start
<1>3. main'.pc = "delay" /\ main'.age = main.age + 1
  BY <1>1 DEF LinkInv, BaseInv, TypeOK
<1>4. rx[starts]'.pc = rx[starts].pc /\ tx[starts]'.pc = tx[starts].pc
  BY <1>1, <1>2, GrowsOlder
<1> DEFINE r == RxLeft(rx[starts])
           t == TxLeft(tx[starts])
           n == Len(tx_queue)
<1>5. r' = r /\ t' = t /\ n' = n
  BY <1>1, <1>4 DEF RxLeft, TxLeft
<1>6. r \in Nat /\ t \in Nat /\ n \in Nat
  BY LeftType, TurnsLeft DEF LinkInv, BaseInv
<1> HIDE DEF r, t, n
<1>7. (StopDelay - main'.age) + r' + t' + n' < (StopDelay - main.age) + r + t + n
  BY <1>2, <1>3, <1>5, <1>6
<1> QED BY <1>3, <1>7 DEF Left, r, t, n

\* The provable half of ShutsDown: from the delay of al1_link_stop the number
\* Left, bounded by the delay, the tasks' turns and the queue, falls with every
\* step until the link is down.
THEOREM StopAlwaysAdvances == "create_tx" \notin Fails /\ Spec => StopAdvances
<1> SUFFICES ASSUME "create_tx" \notin Fails PROVE Spec => StopAdvances
  OBVIOUS
<1>1. ASSUME LinkInv, Next, main.pc = "delay"
      PROVE  main'.pc = "down" \/ (main'.pc = "delay" /\ Left' < Left)
  <2>1. ASSUME NEW g \in Start, RxRuns(g) \/ TxRuns(g)
        PROVE  main'.pc = "delay" /\ Left' < Left
    <3> DEFINE work == RxLeft(rx[starts]) + TxLeft(tx[starts]) + Len(tx_queue)
               age  == StopDelay - main.age
    <3>1. UNCHANGED main /\ work' < work
      BY <1>1, <2>1, TurnTaken
    <3>2. /\ RxLeft(rx[starts]) \in Nat /\ TxLeft(tx[starts]) \in Nat
          /\ RxLeft(rx[starts])' \in Nat /\ TxLeft(tx[starts])' \in Nat
      BY TurnsLeft
    <3>3. TypeOK /\ TypeOK'
      BY <1>1, NextInv DEF LinkInv, BaseInv
    <3>4. Len(tx_queue') \in Nat
      BY <3>3 DEF TypeOK
    <3>5. /\ Left = age + work /\ Left' = age' + work' /\ age' = age
          /\ age \in Nat /\ work \in Nat /\ work' \in Nat
      BY <3>1, <3>2, <3>3, <3>4, LeftType DEF Left
    <3> QED BY <1>1, <3>1, <3>5
  <2>2. StopFrees => main'.pc = "down"
    BY DEF StopFrees, FreeAll, MainDown
  <2>3. ~al1_link_send
    BY <1>1, SMT DEF al1_link_send, LinkInv, BaseInv, Life
  <2>4. CASE al1_link_start \/ CreateRx \/ CreateTx \/ CreateFails \/ FailDriver \/ al1_link_stop
    BY <1>1, <2>4, LinkAssumption, SMT
    DEF LinkAssumption, al1_link_start, CreateRx, CreateTx, CreateFails, FailDriver, al1_link_stop
  <2> QED BY <1>1, <2>1, <2>2, <2>3, <2>4, TickTaken DEF Next
<1>2. LinkInv /\ [Next]_vars
        => [main.pc = "delay" => main'.pc = "down" \/ (main'.pc = "delay" /\ Left' < Left)]_vars
  BY <1>1
<1> QED BY <1>2, LinkInvariant, PTL DEF Spec, StopAdvances

(***************************************************************************)
(* The numbers.  What the last frame in the queue, or the last one gone,   *)
(* and the sends refused since add up to is the number that is due next.   *)
(***************************************************************************)
Before(i) == IF i = 1 THEN sent ELSE tx_queue[i - 1].seq
Last      == IF tx_queue = <<>> THEN sent ELSE tx_queue[Len(tx_queue)].seq
Due       == (Last + 1 + lost) % SeqMod

Numbered == \A i \in 1 .. Len(tx_queue) :
                tx_queue[i].seq = (Before(i) + 1 + tx_queue[i].lost) % SeqMod

InStep ==
    /\ Numbered
    /\ main.pc # "down" => tx_seq = Due

\* What a queue that is not empty ends with.
LEMMA LastOf ==
    ASSUME NEW S, NEW q \in Seq(S)
    PROVE  /\ Len(q) = 0 <=> q = <<>>
           /\ q # <<>> => q[Len(q)] \in S
<1>1. Len(q) \in Nat /\ (Len(q) = 0 <=> q = <<>>)
  BY SMT
<1>2. ASSUME q # <<>> PROVE q[Len(q)] \in S
  <2>1. Len(q) \in 1 .. Len(q)
    BY <1>1, <1>2, SMT
  <2> QED BY <2>1, SMT
<1> QED BY <1>1, <1>2

\* One more refused and one number further are the same modulo SeqMod.
LEMMA Catches ==
    ASSUME NEW a \in Number, NEW b \in Number
    PROVE  (a + 1 + SeqAfter(b)) % SeqMod = SeqAfter((a + 1 + b) % SeqMod)
<1> DEFINE M == SeqMod
<1>1. M \in Nat /\ M > 0 /\ a \in 0 .. M - 1 /\ b \in 0 .. M - 1
  BY LinkAssumption DEF LinkAssumption, Number
<1> HIDE DEF M
<1>2. \A x \in 0 .. M - 1 : x % M = x
  BY <1>1, SMT
<1>3. \A x \in M .. 2 * M - 1 : x % M = x - M
  BY <1>1, SMT
<1>4. CASE b = M - 1
  <2>1. (b + 1) % M = 0
    BY <1>1, <1>3, <1>4, SMT
  <2>2. (a + 1 + b) % M = a
    <3>1. a + 1 + b = a + M /\ a + M \in M .. 2 * M - 1
      BY <1>1, <1>4, SMT
    <3> QED BY <1>1, <1>3, <3>1, SMT
  <2>3. a + 1 + 0 = a + 1
    BY <1>1, SMT
  <2> QED BY <2>1, <2>2, <2>3, Zenon DEF SeqAfter, M
<1>5. CASE b # M - 1
  <2>1. (b + 1) % M = b + 1
    BY <1>1, <1>2, <1>5, SMT
  <2>2. CASE a + 1 + b < M
    <3>1. (a + 1 + b) % M = a + 1 + b
      BY <1>1, <1>2, <2>2, SMT
    <3>2. a + 1 + (b + 1) = (a + 1 + b) + 1
      BY <1>1, SMT
    <3> QED BY <2>1, <3>1, <3>2 DEF SeqAfter, M
  <2>3. CASE a + 1 + b >= M
    <3>1. (a + 1 + b) % M = a + 1 + b - M
      BY <1>1, <1>3, <2>3, SMT
    <3>2. a + 1 + (b + 1) \in M .. 2 * M - 1 /\ (a + 1 + b - M) + 1 \in 0 .. M - 1
      BY <1>1, <1>5, <2>3, SMT
    <3>3. (a + 1 + (b + 1)) % M = (a + 1 + (b + 1)) - M
      BY <1>3, <3>2
    <3>4. ((a + 1 + b - M) + 1) % M = (a + 1 + b - M) + 1
      BY <1>2, <3>2
    <3>5. (a + 1 + (b + 1)) - M = (a + 1 + b - M) + 1
      BY <1>1, SMT
    <3> QED BY <2>1, <3>1, <3>3, <3>4, <3>5, Zenon DEF SeqAfter, M
  <2> QED BY <1>1, <2>2, <2>3, SMT
<1> QED BY <1>4, <1>5

\* Taking a frame off makes it the last one gone: the others keep the frame before.
LEMMA TakeInStep ==
    ASSUME BaseInv, InStep, TakeOne, UNCHANGED main
    PROVE  InStep'
<1>1. /\ tx_queue \in Seq([seq : Number, lost : Number]) /\ tx_queue # <<>>
      /\ tx_queue' = Tail(tx_queue) /\ sent' = Head(tx_queue).seq
      /\ UNCHANGED <<tx_seq, lost>>
  BY DEF BaseInv, TypeOK, TakeOne
<1> DEFINE n == Len(tx_queue)
<1>2. /\ n \in Nat \ {0} /\ Len(tx_queue') = n - 1 /\ Head(tx_queue) = tx_queue[1]
      /\ \A i \in 1 .. n - 1 : tx_queue'[i] = tx_queue[i + 1]
      /\ tx_queue' \in Seq([seq : Number, lost : Number])
  BY <1>1, SMT
<1> HIDE DEF n
<1>3. ASSUME NEW i \in 1 .. n - 1 PROVE Before(i)' = Before(i + 1)
  <2>1. CASE i = 1
    BY <1>1, <1>2, <2>1 DEF Before
  <2>2. CASE i # 1
    <3>1. i - 1 \in 1 .. n - 1 /\ (i - 1) + 1 = i /\ (i + 1) - 1 = i /\ i + 1 # 1
      BY <1>2, <2>2, SMT
    <3>2. tx_queue'[i - 1] = tx_queue[i]
      BY <1>2, <3>1
    <3> QED BY <2>2, <3>1, <3>2 DEF Before
  <2> QED BY <2>1, <2>2
<1>4. Numbered'
  <2>1. ASSUME NEW i \in 1 .. n - 1
        PROVE  tx_queue'[i].seq = (Before(i)' + 1 + tx_queue'[i].lost) % SeqMod
    <3>1. i + 1 \in 1 .. n
      BY <1>2, SMT
    <3>2. tx_queue[i + 1].seq = (Before(i + 1) + 1 + tx_queue[i + 1].lost) % SeqMod
      BY <3>1 DEF InStep, Numbered, n
    <3> QED BY <1>2, <1>3, <3>2
  <2> QED BY <1>2, <2>1 DEF Numbered
<1>5. Last' = Last
  <2>1. CASE n = 1
    <3>1. tx_queue' = <<>>
      BY <1>2, <2>1, SMT
    <3> QED BY <1>1, <1>2, <2>1, <3>1 DEF Last, n
  <2>2. CASE n # 1
    <3>1. n - 1 \in 1 .. n - 1 /\ (n - 1) + 1 = n /\ tx_queue' # <<>>
      BY <1>2, <2>2, SMT
    <3> QED BY <1>1, <1>2, <3>1 DEF Last, n
  <2> QED BY <2>1, <2>2
<1>6. Due' = Due
  BY <1>1, <1>5 DEF Due
<1> QED BY <1>1, <1>4, <1>6 DEF InStep

\* A frame that is queued brings the number that was due.
LEMMA QueueInStep ==
    ASSUME BaseInv, InStep, al1_link_send, Len(tx_queue) < TxQueueLen
    PROVE  InStep'
<1> DEFINE f == [seq |-> tx_seq, lost |-> lost]
<1>1. /\ tx_queue \in Seq([seq : Number, lost : Number]) /\ f \in [seq : Number, lost : Number]
      /\ tx_queue' = Append(tx_queue, f) /\ lost' = 0 /\ tx_seq' = SeqAfter(tx_seq)
      /\ UNCHANGED <<main, sent>>
  BY DEF BaseInv, TypeOK, al1_link_send, Queued
<1>2. tx_seq = Due
  BY DEF InStep, al1_link_send, BaseInv, Life
<1> HIDE DEF f
<1>3. PICK n \in Nat : n = Len(tx_queue)
  BY <1>1, SMT
<1>4. /\ Len(tx_queue') = n + 1 /\ tx_queue'[n + 1] = f
      /\ \A i \in 1 .. n : tx_queue'[i] = tx_queue[i]
  BY <1>1, <1>3, SMT
<1>5. f.seq = Due /\ f.lost = lost
  BY <1>2 DEF f
<1>6. \A i \in 1 .. n : Before(i)' = Before(i)
  BY <1>1, <1>3, <1>4, SMT DEF Before
<1>7. Before(n + 1)' = Last
  <2>1. CASE n = 0
    <3>1. tx_queue = <<>>
      BY <1>1, <1>3, <2>1, LastOf
    <3> QED BY <1>1, <2>1, <3>1 DEF Before, Last
  <2>2. CASE n # 0
    <3>1. (n + 1) - 1 = n /\ n \in 1 .. n /\ n + 1 # 1 /\ tx_queue # <<>>
      BY <1>3, <1>4, <2>2, SMT
    <3> QED BY <1>3, <1>4, <3>1 DEF Before, Last
  <2> QED BY <2>1, <2>2
<1>8. Numbered'
  <2>1. ASSUME NEW i \in 1 .. n + 1
        PROVE  tx_queue'[i].seq = (Before(i)' + 1 + tx_queue'[i].lost) % SeqMod
    <3>1. CASE i = n + 1
      BY <1>3, <1>4, <1>5, <1>7, <3>1 DEF Due
    <3>2. CASE i # n + 1
      <4>1. i \in 1 .. n
        BY <1>3, <1>4, <3>2, SMT
      <4>2. tx_queue[i].seq = (Before(i) + 1 + tx_queue[i].lost) % SeqMod
        BY <1>3, <4>1 DEF InStep, Numbered
      <4> QED BY <1>3, <1>4, <1>6, <4>1, <4>2
    <3> QED BY <3>1, <3>2
  <2> QED BY <1>3, <1>4, <2>1 DEF Numbered
<1>9. Last' = Due
  <2>1. tx_queue' # <<>>
    BY <1>3, <1>4, SMT
  <2> QED BY <1>3, <1>4, <1>5, <2>1 DEF Last
<1>10. Due \in Int
  BY LinkAssumption, <1>5, <1>1, SMT DEF LinkAssumption, Number
<1>11. Due' = SeqAfter(Due)
  <2>1. Due + 1 + 0 = Due + 1
    BY <1>10, SMT
  <2> QED BY <1>1, <1>9, <2>1 DEF Due, SeqAfter
<1> QED BY <1>1, <1>2, <1>8, <1>11 DEF InStep

\* Every step keeps the numbers in step.
LEMMA NextInStep ==
    ASSUME BaseInv, InStep, [Next]_vars
    PROVE  InStep'
<1>1. ASSUME UNCHANGED <<numbers, tx_queue>>, main.pc = "down" => main'.pc = "down"
      PROVE  InStep'
  BY <1>1 DEF InStep, numbers, Numbered, Before, Last, Due
<1>2. CASE al1_link_start
  <2>1. /\ tx_queue = <<>> /\ tx_queue' = <<>> /\ tx_seq' = 0
        /\ sent' = SeqMod - 1 /\ lost' = 0
    BY <1>2, SMT DEF al1_link_start, BaseInv, Drained
  <2>2. Due' = 0
    <3>1. SeqMod \in Nat \ {0} /\ SeqMod - 1 + 1 + 0 = SeqMod
      BY LinkAssumption, SMT DEF LinkAssumption
    <3>2. SeqMod % SeqMod = 0
      BY <3>1, SMT
    <3> QED BY <2>1, <3>1, <3>2 DEF Due, Last
  <2>3. Numbered'
    BY <2>1, SMT DEF Numbered
  <2> QED BY <2>1, <2>2, <2>3 DEF InStep
<1>3. CASE FailDriver \/ StopFrees
  <2>1. tx_queue' = <<>> /\ main'.pc = "down"
    BY <1>3, SMT DEF FailDriver, StopFrees, FreeAll, MainDown
  <2> QED BY <2>1, SMT DEF InStep, Numbered
<1>4. CASE CreateRx \/ CreateTx \/ CreateFails \/ al1_link_stop
  <2>1. UNCHANGED <<numbers, tx_queue>> /\ main.pc # "down"
    BY <1>4, LinkAssumption, SMT
       DEF LinkAssumption, CreateRx, CreateTx, CreateFails, al1_link_stop, bufs
  <2> QED BY <1>1, <2>1
<1>5. ASSUME NEW g \in Start, RxRuns(g) PROVE InStep'
  <2>1. UNCHANGED <<numbers, tx_queue, main>>
    BY <1>5 DEF RxRuns, RxAllocates, RxLoop, RxReads, RxFeeds, bufs
  <2> QED BY <1>1, <2>1
<1>6. ASSUME NEW g \in Start, TxRuns(g) PROVE InStep'
  <2>1. UNCHANGED main /\ (TakeOne \/ UNCHANGED <<numbers, tx_queue>>)
    BY <1>6 DEF TxRuns, TxLoop, TxReceives, TxWrites, TxDrains, bufs
  <2> QED BY <1>1, <2>1, TakeInStep
<1>7. CASE al1_link_send /\ ~(Len(tx_queue) < TxQueueLen)
  <2>1. /\ lost' = SeqAfter(lost) /\ tx_seq' = SeqAfter(tx_seq)
        /\ UNCHANGED <<main, tx_queue, sent>>
    BY <1>7 DEF al1_link_send, Refused
  <2>2. tx_seq = Due
    BY <1>7 DEF InStep, al1_link_send, BaseInv, Life
  <2>3. Last \in Number /\ lost \in Number
    <3>1. /\ tx_queue \in Seq([seq : Number, lost : Number]) /\ sent \in Number /\ lost \in Number
      BY DEF BaseInv, TypeOK
    <3>2. CASE tx_queue # <<>>
      <4>1. tx_queue[Len(tx_queue)] \in [seq : Number, lost : Number]
        BY <3>1, <3>2, LastOf
      <4>2. tx_queue[Len(tx_queue)].seq \in Number
        BY <4>1
      <4> QED BY <3>1, <3>2, <4>2 DEF Last
    <3> QED BY <3>1, <3>2 DEF Last
  <2>4. Due' = SeqAfter(Due)
    BY <2>1, <2>3, Catches DEF Due, Last
  <2>5. Numbered'
    BY <2>1 DEF InStep, Numbered, Before
  <2> QED BY <2>1, <2>2, <2>4, <2>5 DEF InStep
<1>8. CASE Tick
  <2>1. UNCHANGED <<numbers, tx_queue>> /\ main'.pc = main.pc
    BY <1>8, SMT DEF Tick, bufs, BaseInv, TypeOK
  <2> QED BY <1>1, <2>1
<1>9. CASE UNCHANGED vars
  BY <1>1, <1>9 DEF vars, bufs
<1> QED BY <1>2, <1>3, <1>4, <1>5, <1>6, <1>7, <1>8, <1>9, QueueInStep DEF Next

\* Frames leave in the order of their numbers, and every gap is as wide as the
\* sends that were refused there, for any length of the queue and any SeqMod.
THEOREM GapsAlwaysDrops == Spec => []GapsAreDrops
<1>1. Init => InStep
  <2> SUFFICES ASSUME Init PROVE InStep
    OBVIOUS
  <2>1. tx_queue = <<>> /\ main.pc = "down"
    BY DEF Init, MainDown
  <2> QED BY <2>1, SMT DEF InStep, Numbered
<1>2. BaseInv /\ InStep => GapsAreDrops
  <2> SUFFICES ASSUME BaseInv, InStep, NEW i \in 1 .. Len(tx_queue)
               PROVE  LET gone == <<[seq |-> sent, lost |-> 0]>> \o tx_queue
                      IN  gone[i + 1].seq = (gone[i].seq + 1 + gone[i + 1].lost) % SeqMod
    BY DEF GapsAreDrops
  <2> DEFINE first == [seq |-> sent, lost |-> 0]
             gone == <<first>> \o tx_queue
             n == Len(tx_queue)
  <2>1. tx_queue \in Seq([seq : Number, lost : Number]) /\ first \in [seq : Number, lost : Number]
    BY LinkAssumption, SMT DEF LinkAssumption, BaseInv, TypeOK, Number
  <2>2. first.seq = sent
    OBVIOUS
  <2> HIDE DEF first
  <2>3. /\ n \in Nat /\ gone[1] = first
        /\ \A j \in 1 .. n : gone[j + 1] = tx_queue[j]
    BY <2>1, SMT
  <2> HIDE DEF gone
  <2>4. gone[i].seq = Before(i)
    <3>1. CASE i = 1
      BY <2>2, <2>3, <3>1 DEF Before
    <3>2. CASE i # 1
      <4>1. i - 1 \in 1 .. n /\ (i - 1) + 1 = i
        BY <2>3, <3>2, SMT
      <4> QED BY <2>3, <3>2, <4>1 DEF Before
    <3> QED BY <3>1, <3>2
  <2>5. tx_queue[i].seq = (Before(i) + 1 + tx_queue[i].lost) % SeqMod
    BY DEF InStep, Numbered
  <2>6. gone[i + 1].seq = (gone[i].seq + 1 + gone[i + 1].lost) % SeqMod
    BY <2>3, <2>4, <2>5
  <2> QED BY <2>6 DEF gone, first
<1>3. BaseInv /\ InStep /\ [Next]_vars => InStep'
  BY NextInStep
<1>4. Spec => []BaseInv
  BY BaseInvariant
<1>5. Spec => []InStep
  BY <1>1, <1>3, <1>4, PTL DEF Spec
<1> QED BY <1>2, <1>4, <1>5, PTL

===============================================================================
