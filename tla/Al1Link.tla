-------------------------------- MODULE Al1Link --------------------------------
(***************************************************************************)
(* The life cycle of the UART link (al1_link.c): al1_link_start,           *)
(* al1_link_send and al1_link_stop against the two tasks they share s_link *)
(* with.  There is no lock: `running` is a plain flag, and al1_link_stop   *)
(* trusts a delay to outlast the tasks' timeouts before it frees the       *)
(* driver, the queue and the parser.                                       *)
(*                                                                         *)
(* The three are allocated together, before `running` is set, and freed    *)
(* together: res is the start they belong to, 0 when there are none.  A    *)
(* task that blocks on them remembers whose they were.  Time passes in     *)
(* ticks; a task that can run does so before the next one.  A frame is its *)
(* sequence number, on one channel; the statistics are left out.           *)
(*                                                                         *)
(* al1_link_send is one step: its only caller is the NimBLE host task,     *)
(* which on the one core of the ESP32-C3 outranks rx_task, tx_task and     *)
(* whoever starts and stops the link, and never blocks in it.  It may come *)
(* between any two steps of theirs.                                        *)
(***************************************************************************)
EXTENDS Naturals, FiniteSets, Sequences

CONSTANTS
    TxQueueLen,   \* AL1_TX_QUEUE_LEN
    Timeout,      \* ticks rx_task and tx_task wait at most, 100 ms
    Busy,         \* ticks a callback or a write to the UART takes at most
    StopDelay,    \* ticks al1_link_stop waits, 200 ms
    SeqMod,       \* sequence numbers of a channel, 256
    MaxStarts,    \* bound: calls of al1_link_start
    Fails         \* what may fail: the calls of xTaskCreate, rx_task's malloc

ASSUME LinkAssumption ==
    /\ TxQueueLen \in Nat \ {0} /\ SeqMod \in Nat \ {0} /\ MaxStarts \in Nat
    /\ Timeout \in Nat /\ Busy \in Nat /\ StopDelay \in Nat
    /\ Timeout + Busy < StopDelay
    /\ Fails \subseteq {"create_rx", "create_tx", "alloc"}

VARIABLES
    running,   \* s_link.running
    starts,    \* calls of al1_link_start so far
    res,       \* s_link.parser, s_link.tx_queue and the UART driver
    main,      \* the task that starts and stops the link: [pc, age]
    rx, tx,    \* the tasks of every start: [pc, on, age]
    tx_seq,    \* s_link.tx_seq, of one channel
    tx_queue,  \* s_link.tx_queue: frames, by number, with the sends lost before
    heap,      \* frame buffers allocated and not freed
    spilt,     \* history: frames in the queues a failed start deleted
    sent,      \* history: the number of the last frame that left the queue
    lost,      \* history: sends refused since a frame was queued, mod SeqMod
    misused    \* history: something freed was used

tasks   == <<rx, tx>>
numbers == <<tx_seq, sent, lost>>
bufs    == <<tx_queue, heap, spilt, numbers>>
vars    == <<running, starts, res, main, tasks, bufs, misused>>

Start    == 1 .. MaxStarts
Number   == 0 .. SeqMod - 1
Task     == [pc  : {"none", "alloc", "loop", "wait", "busy", "drain", "gone"},
             on  : {0} \cup Start,
             age : 0 .. (Timeout + Busy)]
MainDown == [pc |-> "down", age |-> 0]

TypeOK ==
    /\ running \in BOOLEAN
    /\ starts \in 0 .. MaxStarts
    /\ res \in {0, starts}
    /\ main \in [pc : {"down", "create_rx", "create_tx", "fail", "up", "delay"},
                 age : 0 .. StopDelay]
    /\ rx \in [Start -> Task] /\ tx \in [Start -> Task]
    /\ tx_seq \in Number /\ sent \in Number /\ lost \in Number
    /\ tx_queue \in Seq([seq : Number, lost : Number]) /\ Len(tx_queue) <= TxQueueLen
    /\ heap \in Nat /\ spilt \in Nat
    /\ misused \in BOOLEAN

Init ==
    /\ running = FALSE
    /\ starts = 0
    /\ res = 0
    /\ main = MainDown
    /\ rx = [g \in Start |-> [pc |-> "none", on |-> 0, age |-> 0]]
    /\ tx = rx
    /\ tx_seq = 0 /\ sent = SeqMod - 1 /\ lost = 0
    /\ tx_queue = <<>>
    /\ heap = 0 /\ spilt = 0
    /\ misused = FALSE

(***************************************************************************)
(* Starting and stopping.                                                  *)
(***************************************************************************)

MainAt(pc) == main' = [pc |-> pc, age |-> 0]

Runs(pc) == [pc |-> pc, on |-> res, age |-> 0]

\* The numbers start anew.  A failed allocation or a driver that refuses frees
\* what there is: no task exists yet.
al1_link_start ==
    /\ main.pc = "down"
    /\ starts < MaxStarts
    /\ starts' = starts + 1
    /\ \/ res' = starts' /\ running' = TRUE /\ MainAt("create_rx")
       \/ UNCHANGED <<res, running, main>>
    /\ tx_seq' = 0 /\ sent' = SeqMod - 1 /\ lost' = 0
    /\ UNCHANGED <<tasks, tx_queue, heap, spilt, misused>>

CreateRx ==
    /\ main.pc = "create_rx"
    /\ rx' = [rx EXCEPT ![starts] = Runs("alloc")]
    /\ MainAt("create_tx")
    /\ UNCHANGED <<running, starts, res, tx, bufs, misused>>

CreateTx ==
    /\ main.pc = "create_tx"
    /\ tx' = [tx EXCEPT ![starts] = Runs("loop")]
    /\ MainAt("up")
    /\ UNCHANGED <<running, starts, res, rx, bufs, misused>>

CreateFails ==
    /\ main.pc \in Fails
    /\ running' = FALSE
    /\ MainAt("fail")
    /\ UNCHANGED <<starts, res, tasks, bufs, misused>>

\* uart_driver_delete, vQueueDelete and free; the queue's items are not freed.
FreeAll ==
    /\ res' = 0
    /\ tx_queue' = <<>>
    /\ main' = MainDown
    /\ UNCHANGED <<running, starts, tasks, heap, numbers, misused>>

\* What was sent while the tasks were being created goes with the queue.
FailDriver ==
    /\ main.pc = "fail"
    /\ FreeAll
    /\ spilt' = spilt + Len(tx_queue)

al1_link_stop ==
    /\ main.pc = "up"
    /\ running' = FALSE
    /\ MainAt("delay")
    /\ UNCHANGED <<starts, res, tasks, bufs, misused>>

\* faulty: no delay
StopFrees_at_once == main.pc = "delay" /\ FreeAll /\ UNCHANGED spilt

StopFrees == main.pc = "delay" /\ main.age = StopDelay /\ FreeAll /\ UNCHANGED spilt

(***************************************************************************)
(* rx_task.  A task that uses what is no longer there misuses it.          *)
(***************************************************************************)

Uses(whose) == misused' = (misused \/ whose # res \/ res = 0)

RxIs(g, pc) == rx' = [rx EXCEPT ![g] = Runs(pc)]

\* Without memory for a chunk rx_task leaves, and the link stays up without it.
RxAllocates(g) ==
    /\ rx[g].pc = "alloc"
    /\ RxIs(g, "loop") \/ ("alloc" \in Fails /\ RxIs(g, "gone"))
    /\ UNCHANGED <<running, starts, res, main, tx, bufs, misused>>

RxLoop(g) ==
    /\ rx[g].pc = "loop"
    /\ IF running THEN RxIs(g, "wait") /\ Uses(res)
                  ELSE RxIs(g, "gone") /\ UNCHANGED misused
    /\ UNCHANGED <<running, starts, res, main, tx, bufs>>

\* uart_read_bytes returns: with bytes at any time, without after its timeout.
RxReads(g) ==
    /\ rx[g].pc = "wait"
    /\ Uses(rx[g].on)
    /\ \/ RxIs(g, "busy")
       \/ rx[g].age = Timeout /\ RxIs(g, "loop")
    /\ UNCHANGED <<running, starts, res, main, tx, bufs>>

\* The bytes have gone through s_link.parser and its callback.
RxFeeds(g) ==
    /\ rx[g].pc = "busy"
    /\ Uses(rx[g].on)
    /\ RxIs(g, "loop")
    /\ UNCHANGED <<running, starts, res, main, tx, bufs>>

(***************************************************************************)
(* tx_task.                                                                *)
(***************************************************************************)

TxIs(g, pc) == tx' = [tx EXCEPT ![g] = Runs(pc)]

TxLoop(g) ==
    /\ tx[g].pc = "loop"
    /\ IF running THEN TxIs(g, "wait") /\ Uses(res)
                  ELSE TxIs(g, "drain") /\ UNCHANGED misused
    /\ UNCHANGED <<running, starts, res, main, rx, bufs>>

TakeOne ==
    /\ tx_queue # <<>>
    /\ tx_queue' = Tail(tx_queue)
    /\ sent' = Head(tx_queue).seq
    /\ UNCHANGED <<tx_seq, lost, spilt>>

TxReceives(g) ==
    /\ tx[g].pc = "wait"
    /\ Uses(tx[g].on)
    /\ \/ TakeOne /\ TxIs(g, "busy") /\ UNCHANGED heap
       \/ tx_queue = <<>> /\ tx[g].age = Timeout /\ TxIs(g, "loop") /\ UNCHANGED bufs
    /\ UNCHANGED <<running, starts, res, main, rx>>

TxWrites(g) ==
    /\ tx[g].pc = "busy"
    /\ Uses(tx[g].on)
    /\ heap' = heap - 1
    /\ TxIs(g, "loop")
    /\ UNCHANGED <<running, starts, res, main, rx, tx_queue, spilt, numbers>>

TxDrains_not(g) ==                           \* faulty: leaves at once
    /\ tx[g].pc = "drain"
    /\ TxIs(g, "gone")
    /\ UNCHANGED <<running, starts, res, main, rx, bufs, misused>>

TxDrains(g) ==
    /\ tx[g].pc = "drain"
    /\ Uses(tx[g].on)
    /\ \/ TakeOne /\ heap' = heap - 1 /\ UNCHANGED tx
       \/ tx_queue = <<>> /\ TxIs(g, "gone") /\ UNCHANGED bufs
    /\ UNCHANGED <<running, starts, res, main, rx>>

(***************************************************************************)
(* al1_link_send, for a payload that is not too long.                      *)
(***************************************************************************)

SeqAfter(n) == (n + 1) % SeqMod

Queued ==
    /\ tx_queue' = Append(tx_queue, [seq |-> tx_seq, lost |-> lost])
    /\ lost' = 0
    /\ heap' = heap + 1

\* The buffer is freed again, but its number is spent.
Refused ==
    /\ lost' = SeqAfter(lost)
    /\ UNCHANGED <<tx_queue, heap>>

al1_link_send_unbounded ==                   \* faulty: a queue without a limit
    /\ running
    /\ tx_seq' = SeqAfter(tx_seq)
    /\ Uses(res)
    /\ Queued
    /\ UNCHANGED <<running, starts, res, main, tasks, sent, spilt>>

al1_link_send_numbers_queued ==              \* faulty: a refused frame keeps no number
    /\ running
    /\ Uses(res)
    /\ \/ Len(tx_queue) < TxQueueLen /\ Queued /\ tx_seq' = SeqAfter(tx_seq)
       \/ Len(tx_queue) >= TxQueueLen /\ Refused /\ UNCHANGED tx_seq
    /\ UNCHANGED <<running, starts, res, main, tasks, sent, spilt>>

\* Without memory for the frame nothing happens: the number is taken after.
al1_link_send ==
    /\ running
    /\ tx_seq' = SeqAfter(tx_seq)
    /\ Uses(res)
    /\ IF Len(tx_queue) < TxQueueLen THEN Queued ELSE Refused
    /\ UNCHANGED <<running, starts, res, main, tasks, sent, spilt>>

(***************************************************************************)
(* Time.                                                                   *)
(***************************************************************************)

Limit(pc) == CASE pc = "wait" -> Timeout [] pc = "busy" -> Busy [] OTHER -> 0

MayWait(t) == t.pc \in {"none", "gone"} \/ t.age < Limit(t.pc)

Older(t) == IF t.pc \in {"wait", "busy"} THEN [t EXCEPT !.age = @ + 1] ELSE t

Tick ==
    /\ \A g \in Start : MayWait(rx[g]) /\ MayWait(tx[g])
    /\ main.pc \in {"down", "up"} \/ (main.pc = "delay" /\ main.age < StopDelay)
    /\ rx' = [g \in Start |-> Older(rx[g])]
    /\ tx' = [g \in Start |-> Older(tx[g])]
    /\ main' = IF main.pc = "delay" THEN [main EXCEPT !.age = @ + 1] ELSE main
    /\ UNCHANGED <<running, starts, res, bufs, misused>>

-----------------------------------------------------------------------------

RxRuns(g) == RxAllocates(g) \/ RxLoop(g) \/ RxReads(g) \/ RxFeeds(g)
TxRuns(g) == TxLoop(g) \/ TxReceives(g) \/ TxWrites(g) \/ TxDrains(g)

Next ==
    \/ al1_link_start \/ CreateRx \/ CreateTx \/ CreateFails \/ FailDriver
    \/ al1_link_stop \/ StopFrees
    \/ \E g \in Start : RxRuns(g) \/ TxRuns(g)
    \/ al1_link_send
    \/ Tick

Spec == Init /\ [][Next]_vars

\* Time passes and every task gets to run.  Nothing obliges anybody to start,
\* to stop or to send.
Fairness ==
    /\ WF_vars(Tick)
    /\ WF_vars(CreateRx \/ CreateTx \/ CreateFails \/ FailDriver \/ StopFrees)
    /\ \A g \in Start : WF_vars(RxRuns(g)) /\ WF_vars(TxRuns(g))

FairSpec == Spec /\ Fairness

-----------------------------------------------------------------------------

Alive(t) == t.pc \notin {"none", "gone"}

\* Nobody uses the driver, the queue or the parser before they are there or
\* after they were freed: the delay of al1_link_stop outlasts both tasks.
NoUseAfterFree == ~misused

\* Every frame buffer is owned, by the queue or by a tx_task that writes it, and
\* so will be freed: a stop or a full queue leaks none.  A start that fails leaks
\* exactly the frames sent meanwhile, which its queue still held (lines 232-236).
Held == Cardinality({g \in Start : tx[g].pc = "busy"})

NoLeak == heap = Len(tx_queue) + Held + spilt

\* Frames leave the queue in the order of their numbers, from 0 for every start,
\* and a gap is as wide as the sends that were refused there: what the STM32 can
\* tell from SEQ is exactly what the queue had no room for.
GapsAreDrops ==
    LET gone == <<[seq |-> sent, lost |-> 0]>> \o tx_queue
    IN  \A i \in 1 .. Len(tx_queue) :
            gone[i + 1].seq = (gone[i].seq + 1 + gone[i + 1].lost) % SeqMod

\* A start never meets a task of an earlier one that takes the flag it raises
\* for its own: the parser and the queue have one reader each.
OneReader ==
    \A g \in Start : res # 0 /\ g # res => ~Alive(rx[g]) /\ ~Alive(tx[g])

\* al1_link_stop ends with both tasks gone, every resource freed, and every
\* buffer that a failed start has not leaked.
ShutsDown ==
    main.pc = "delay"
        ~> /\ main.pc = "down" /\ res = 0 /\ heap = spilt
           /\ \A g \in Start : ~Alive(rx[g]) /\ ~Alive(tx[g])
===============================================================================
