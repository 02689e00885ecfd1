------------------------------- MODULE ApBridge -------------------------------
(***************************************************************************)
(* The AP bridge (al1_ble_ap_bridge.c): it carries Attentio Protocol       *)
(* frames between the BLE clients and the STM32 and keeps the binding      *)
(* "this connection is the controller" in step with the session the        *)
(* STM32's MICB grants to its one BLE interface.                           *)
(*                                                                         *)
(* Two FreeRTOS tasks share the bridge's static variables without a lock:  *)
(*   host  the NimBLE host task: connections, disconnections, client       *)
(*         frames (gap_event, on_conn_evt, on_ap_frame);                   *)
(*   rx    the link's receive task: frames of the STM32 (on_link_ap).      *)
(* A step of a task here runs up to its next access to what the other      *)
(* task writes.  s_session_id is left out: only a log line reads it.       *)
(* The link's queue, its tx_task and the wire are one FIFO; the MICB and   *)
(* the clients are the environment.                                        *)
(***************************************************************************)
EXTENDS Naturals, Sequences, FiniteSets

CONSTANTS
    Conn,        \* connection handles NimBLE hands out, and hands out again
    NoConn,      \* BLE_HS_CONN_HANDLE_NONE
    MaxConn,     \* AL1_BLE_MAX_CONN
    TxQueueLen,  \* AL1_TX_QUEUE_LEN
    MaxDown,     \* bound: frames of the STM32 the link's receive side holds
    Env          \* the freedoms the environment takes, see Freedoms

\* "pipeline"   clients send while another command is under way
\* "impatient"  a client's link drops while its CLAIM is under way
\* "contend"    clients CLAIM or RELEASE while another one is the controller
\* "reject"     the STM32 may answer a CLAIM with ERROR
\* "loss"       frames are lost on the UART, or the heap has none left
Freedoms == {"pipeline", "impatient", "contend", "reject", "loss"}

ASSUME ConnAssumption  == NoConn \notin Conn
ASSUME BoundAssumption == /\ MaxConn \in Nat \ {0}
                          /\ TxQueueLen \in Nat \ {0}
                          /\ MaxDown \in Nat \ {0, 1}
ASSUME EnvAssumption   == Env \subseteq Freedoms

VARIABLES
    up,                    \* the links NimBLE has open
    s_conns,               \* al1_ble.c's registry
    s_slots,               \* the bridge's reassembler slots
    s_controlling_conn,
    s_pending_claim_conn,
    host,                  \* the host task: [pc, cmd, src]
    rx,                    \* the receive task: [pc, conn, stale]
    tx_queue,              \* commands on their way to the STM32: [cmd, src]
    downlink,              \* frames on their way back: their kinds
    micb,                  \* whose CLAIM the MICB's BLE session rests on
    ousted,                \* history: its last session was ended by a RELEASE
                           \* that was not its holder's
    claimed,               \* history: connections that sent a CLAIM
    ctlStale               \* history: the binding was made for a claimant that
                           \* dropped while rx had its handle in a register

tables  == <<up, s_conns, s_slots>>
binding == <<s_controlling_conn, ctlStale>>
session == <<micb, ousted>>
wire    == <<tx_queue, downlink, session>>
vars    == <<tables, binding, s_pending_claim_conn, host, rx, wire, claimed>>

ConnOrNone == Conn \cup {NoConn}
Slot       == 1 .. MaxConn
Cmd        == {"CLAIM", "RELEASE", "SET", "PING"}
Frame      == [cmd : Cmd, src : ConnOrNone]
Kind       == {"OK", "ERROR", "SESSION_END"}

\* SET stands for the commands of ap_cmd_requires_claim, PING for the others.
requires_claim_never(cmd) == FALSE            \* faulty: an empty list

requires_claim(cmd) == cmd = "SET"

HostIdle == [pc |-> "idle", cmd |-> "PING", src |-> NoConn]
RxIdle   == [pc |-> "idle", conn |-> NoConn, stale |-> FALSE]

TypeOK ==
    /\ up \subseteq Conn
    /\ s_conns \in [Slot -> ConnOrNone]
    /\ s_slots \in [Slot -> ConnOrNone]
    /\ s_controlling_conn \in ConnOrNone
    /\ s_pending_claim_conn \in ConnOrNone
    /\ host \in [pc : {"idle", "check", "forward", "release", "clear"},
                 cmd : Cmd, src : ConnOrNone]
    /\ rx \in [pc : {"idle", "bind_read", "bind", "bind_set", "bind_clear", "end"},
               conn : ConnOrNone, stale : BOOLEAN]
    /\ tx_queue \in Seq(Frame) /\ Len(tx_queue) <= TxQueueLen
    /\ downlink \in Seq(Kind) /\ Len(downlink) <= MaxDown
    /\ micb \in ConnOrNone
    /\ ousted \in BOOLEAN
    /\ claimed \subseteq Conn
    /\ ctlStale \in BOOLEAN

Init ==
    /\ up = {}
    /\ s_conns = [i \in Slot |-> NoConn]
    /\ s_slots = [i \in Slot |-> NoConn]
    /\ s_controlling_conn = NoConn
    /\ s_pending_claim_conn = NoConn
    /\ host = HostIdle
    /\ rx = RxIdle
    /\ tx_queue = << >>
    /\ downlink = << >>
    /\ micb = NoConn
    /\ ousted = FALSE
    /\ claimed = {}
    /\ ctlStale = FALSE

(***************************************************************************)
(* The two handle tables: an unused entry holds NoConn.                    *)
(***************************************************************************)

Tracked(table) == {table[i] : i \in Slot} \ {NoConn}

\* The loops take the first entry that holds old; which one makes no difference.
Replace(table, old, new) ==
    IF \E i \in Slot : table[i] = old
    THEN [table EXCEPT ![CHOOSE i \in Slot : table[i] = old] = new]
    ELSE table

Add(table, c) == Replace(table, NoConn, c)

RemoveMissed(table, c) == table               \* faulty: the entry is not freed

Remove(table, c) == Replace(table, c, NoConn)

(***************************************************************************)
(* What the clients do.                                                    *)
(***************************************************************************)

\* Nothing is under way between the clients and the STM32.
Idle == host = HostIdle /\ rx = RxIdle /\ tx_queue = << >> /\ downlink = << >>

AwaitsClaim(c) ==
    s_pending_claim_conn = c \/ (rx.pc \in {"bind", "bind_set"} /\ rx.conn = c)

MaySend(c, cmd) ==
    /\ "pipeline" \in Env \/ Idle
    /\ \/ "contend" \in Env
       \/ cmd \notin {"CLAIM", "RELEASE"}
       \/ s_controlling_conn \in {c, NoConn}

MayDrop(c) == "impatient" \in Env \/ ~AwaitsClaim(c)

(***************************************************************************)
(* The host task.                                                          *)
(***************************************************************************)

Connect(c) ==
    /\ host = HostIdle
    /\ c \notin up
    /\ Cardinality(up) < MaxConn
    /\ up' = up \cup {c}
    /\ s_conns' = Add(s_conns, c)
    /\ s_slots' = Add(s_slots, c)
    /\ UNCHANGED <<binding, s_pending_claim_conn, host, rx, wire, claimed>>

forget_claim_missed(c) == UNCHANGED s_pending_claim_conn  \* faulty

forget_claim(c) ==
    s_pending_claim_conn' = IF s_pending_claim_conn = c THEN NoConn ELSE s_pending_claim_conn

\* The link of c is gone: BLE_GAP_EVENT_DISCONNECT and on_conn_evt up to the
\* test of line 158.  The test of 155 and the store of 156 are one step: rx only
\* ever writes NoConn to s_pending_claim_conn.
Disconnect(c) ==
    /\ host = HostIdle
    /\ c \in up
    /\ MayDrop(c)
    /\ up' = up \ {c}
    /\ s_conns' = Remove(s_conns, c)
    /\ s_slots' = Remove(s_slots, c)
    /\ forget_claim(c)
    /\ host' = [pc |-> "check", cmd |-> "RELEASE", src |-> c]
    /\ UNCHANGED <<binding, rx, wire, claimed>>

\* The handling of a disconnection is over, but rx may hold the handle.
Gone(c) ==
    /\ claimed' = claimed \ {c}
    /\ rx' = IF rx.pc \in {"bind", "bind_set"} /\ rx.conn = c
             THEN [rx EXCEPT !.stale = TRUE] ELSE rx

release_never == FALSE                        \* faulty: no RELEASE at all

is_controller == s_controlling_conn = host.src

\* Line 158: a RELEASE is forwarded in the name of a controller.
CheckController ==
    /\ host.pc = "check"
    /\ \/ /\ is_controller
          /\ host' = [host EXCEPT !.pc = "release"]
          /\ UNCHANGED <<rx, claimed>>
       \/ /\ ~is_controller
          /\ host' = HostIdle
          /\ Gone(host.src)
    /\ UNCHANGED <<tables, binding, s_pending_claim_conn, wire>>

\* A whole frame of client c has been reassembled: on_ap_frame up to the call
\* of forward_to_stm32.
FrameArrives(c, cmd) ==
    /\ host = HostIdle
    /\ c \in up
    /\ c \in Tracked(s_slots)
    /\ MaySend(c, cmd)

ClaimFrame(c) ==
    /\ FrameArrives(c, "CLAIM")
    /\ s_pending_claim_conn' = c
    /\ host' = [pc |-> "forward", cmd |-> "CLAIM", src |-> c]
    /\ claimed' = claimed \cup {c}
    /\ UNCHANGED <<tables, binding, rx, wire>>

ControllerFrame(c, cmd) ==
    /\ FrameArrives(c, cmd)
    /\ s_controlling_conn = c
    /\ host' = [pc  |-> IF cmd = "RELEASE" THEN "release" ELSE "forward",
                cmd |-> cmd, src |-> c]
    /\ UNCHANGED <<tables, binding, s_pending_claim_conn, rx, wire, claimed>>

\* A frame the gate turns away only makes the bridge notify an error.
OtherFrame(c, cmd) ==
    /\ FrameArrives(c, cmd)
    /\ s_controlling_conn # c
    /\ ~requires_claim(cmd)
    /\ host' = [pc |-> "forward", cmd |-> cmd, src |-> c]
    /\ UNCHANGED <<tables, binding, s_pending_claim_conn, rx, wire, claimed>>

QueuedAlways(f) == tx_queue' = Append(tx_queue, f)  \* faulty: no bound

Queued(f) ==
    \/ Len(tx_queue) < TxQueueLen /\ tx_queue' = Append(tx_queue, f)
    \/ (Len(tx_queue) = TxQueueLen \/ "loss" \in Env) /\ UNCHANGED tx_queue

\* forward_to_stm32: a frame the link refuses is dropped.
Forward ==
    /\ host.pc \in {"forward", "release"}
    /\ Queued([cmd |-> host.cmd, src |-> host.src])
    /\ host' = IF host.pc = "release" THEN [host EXCEPT !.pc = "clear"] ELSE HostIdle
    /\ UNCHANGED <<tables, binding, s_pending_claim_conn, rx, downlink, session, claimed>>

clear_binding_missed == UNCHANGED binding     \* faulty

clear_binding ==
    /\ s_controlling_conn' = NoConn
    /\ ctlStale' = FALSE

Clear ==
    /\ host.pc = "clear"
    /\ clear_binding
    /\ host' = HostIdle
    /\ IF host.src \in up THEN UNCHANGED <<rx, claimed>> ELSE Gone(host.src)
    /\ UNCHANGED <<tables, s_pending_claim_conn, wire>>

(***************************************************************************)
(* The receive task: on_link_ap.                                           *)
(***************************************************************************)

\* A frame arrives and the test of line 192 reads s_pending_claim_conn.  A
\* frame that binds nobody and ends nothing is only notified to clients.
RxTake ==
    /\ rx.pc = "idle"
    /\ downlink # << >>
    /\ downlink' = Tail(downlink)
    /\ rx' = CASE Head(downlink) = "OK" /\ s_pending_claim_conn # NoConn ->
                     [RxIdle EXCEPT !.pc = "bind_read"]
                [] Head(downlink) = "SESSION_END" -> [RxIdle EXCEPT !.pc = "end"]
                [] OTHER -> RxIdle
    /\ UNCHANGED <<tables, binding, s_pending_claim_conn, host, tx_queue, session, claimed>>

\* The second read of s_pending_claim_conn.
BindRead ==
    /\ rx.pc = "bind_read"
    /\ rx' = [rx EXCEPT !.pc = "bind", !.conn = s_pending_claim_conn]
    /\ UNCHANGED <<tables, binding, s_pending_claim_conn, host, wire, claimed>>

\* The two stores that follow: plain stores to two statics, which the compiler
\* may emit in either order.
BindClear ==
    /\ rx.pc \in {"bind", "bind_clear"}
    /\ s_pending_claim_conn' = NoConn
    /\ rx' = IF rx.pc = "bind" THEN [rx EXCEPT !.pc = "bind_set"] ELSE RxIdle
    /\ UNCHANGED <<tables, binding, host, wire, claimed>>

BindSet ==
    /\ rx.pc \in {"bind", "bind_set"}
    /\ s_controlling_conn' = rx.conn
    /\ ctlStale' = rx.stale
    /\ rx' = IF rx.pc = "bind" THEN [rx EXCEPT !.pc = "bind_clear"] ELSE RxIdle
    /\ UNCHANGED <<tables, s_pending_claim_conn, host, wire, claimed>>

EndClear ==
    /\ rx.pc = "end"
    /\ clear_binding
    /\ rx' = RxIdle
    /\ UNCHANGED <<tables, s_pending_claim_conn, host, wire, claimed>>

(***************************************************************************)
(* The link to the STM32 and the MICB behind it.                           *)
(***************************************************************************)

Emit(frames) ==
    /\ Len(downlink) + Len(frames) <= MaxDown
    /\ downlink' = downlink \o frames

MicbClaim(c) ==
    \/ micb' = c /\ ousted' = FALSE /\ Emit(<<"OK">>)
    \/ "reject" \in Env /\ UNCHANGED session /\ Emit(<<"ERROR">>)

\* Every client looks like the one BLE interface to the MICB: it ends the
\* session whoever the RELEASE is from.  Whether and when SESSION_END(RELEASED)
\* follows is not settled by this repository.
MicbRelease(c) ==
    IF micb = NoConn
    THEN UNCHANGED session /\ Emit(<<"ERROR">>)
    ELSE /\ micb' = NoConn
         /\ ousted' = (c # micb)
         /\ \/ Emit(<<"OK">>)
            \/ Emit(<<"SESSION_END", "OK">>)
            \/ Emit(<<"OK", "SESSION_END">>)

MicbOther(cmd) ==
    /\ UNCHANGED session
    /\ Emit(<<IF requires_claim(cmd) /\ micb = NoConn THEN "ERROR" ELSE "OK">>)

\* tx_task writes the oldest frame to the wire and the MICB handles it.
TxTask ==
    /\ tx_queue # << >>
    /\ tx_queue' = Tail(tx_queue)
    /\ LET f == Head(tx_queue)
       IN  \/ f.cmd = "CLAIM" /\ MicbClaim(f.src)
           \/ f.cmd = "RELEASE" /\ MicbRelease(f.src)
           \/ f.cmd \in {"SET", "PING"} /\ MicbOther(f.cmd)
    /\ UNCHANGED <<tables, binding, s_pending_claim_conn, host, rx, claimed>>

\* A takeover by USB, or the device powered off.
SessionEnds ==
    /\ micb # NoConn
    /\ micb' = NoConn /\ ousted' = FALSE
    /\ Emit(<<"SESSION_END">>)
    /\ UNCHANGED <<tables, binding, s_pending_claim_conn, host, rx, tx_queue, claimed>>

Lose ==
    /\ "loss" \in Env
    /\ \/ tx_queue # << >> /\ tx_queue' = Tail(tx_queue) /\ UNCHANGED downlink
       \/ downlink # << >> /\ downlink' = Tail(downlink) /\ UNCHANGED tx_queue
    /\ UNCHANGED <<tables, binding, s_pending_claim_conn, host, rx, session, claimed>>

-----------------------------------------------------------------------------

HostRuns == CheckController \/ Forward \/ Clear
RxRuns   == RxTake \/ BindRead \/ BindClear \/ BindSet \/ EndClear

ClientActs ==
    \E c \in Conn :
        \/ Connect(c)
        \/ Disconnect(c)
        \/ ClaimFrame(c)
        \/ \E cmd \in {"RELEASE", "SET", "PING"} :
               ControllerFrame(c, cmd) \/ OtherFrame(c, cmd)

Next == ClientActs \/ HostRuns \/ RxRuns \/ TxTask \/ SessionEnds \/ Lose

Spec == Init /\ [][Next]_vars

\* The two tasks and tx_task block only on their queues, and the MICB answers.
\* Nothing obliges a client to act, a session to end or a frame to be lost.
Fairness == WF_vars(HostRuns) /\ WF_vars(RxRuns) /\ WF_vars(TxTask)

FairSpec == Spec /\ Fairness

-----------------------------------------------------------------------------
(***************************************************************************)
(* Properties of the bridge whatever the environment does.                 *)
(***************************************************************************)

HasNoDuplicates(table) ==
    \A i, j \in Slot : table[i] = table[j] /\ table[i] # NoConn => i = j

\* al1_ble.c's registry and the bridge's slots, kept by separate loops, both
\* hold exactly the open links, each once: no link is ever left untracked, and
\* no entry of a dropped link is left behind to swallow a reused handle.
TablesAgree ==
    /\ Tracked(s_conns) = up /\ HasNoDuplicates(s_conns)
    /\ Tracked(s_slots) = up /\ HasNoDuplicates(s_slots)

\* The connection an OK is awaited for is open and sent a CLAIM in this life of
\* its handle: a handle NimBLE reuses never inherits a claim.
PendingIsLive == s_pending_claim_conn \in claimed \cup {NoConn}

\* Control is never gained without asking: the controller sent a CLAIM in this
\* life of its handle, which lasts until its disconnection has been handled,
\* save for the binding of a claimant whose disconnection was handled between
\* lines 193 and 195 (ctlStale).
ControlWasClaimed == s_controlling_conn \in claimed \cup {NoConn} \/ ctlStale

\* A binding made for a claimant that had dropped (ctlStale) counts as none.
\* None is ever made while claimants wait for their answer (NeverStale).
NeverStale == ~ctlStale

\* The link that is gone while its disconnection is still being handled.
Closing == IF host.pc \in {"check", "release", "clear"} THEN {host.src} ELSE {}

Session == INSTANCE ControlSession WITH
               open <- up \cup Closing,
               asked <- claimed,
               controller <- IF ctlStale THEN NoConn ELSE s_controlling_conn

\* The bridge keeps what ControlSession promises the clients, however its two
\* tasks interleave: every step of the code is a step of it or changes nothing.
SessionSpec == Session!Spec

(***************************************************************************)
(* Properties that hold when clients wait until nothing is under way and   *)
(* the STM32 grants every CLAIM, though clients CLAIM and RELEASE while    *)
(* another one is the controller (Env = {"contend"}).                      *)
(***************************************************************************)

\* Once everything under way has been handled the bridge's controller is the
\* connection the MICB's session was granted to: no session has a holder the
\* bridge does not know, and only where a RELEASE that was not the holder's
\* ended a session may the bridge believe in one that is over.
Agreement ==
    Idle => /\ s_pending_claim_conn = NoConn
            /\ s_controlling_conn = micb \/ (micb = NoConn /\ ousted)

NextIs(cmd) == tx_queue # << >> /\ Head(tx_queue).cmd = cmd

\* "one client cannot drive the device while another holds control": a
\* claim-requiring command the MICB is about to obey is its session's holder's.
SetsComeFromHolder == NextIs("SET") /\ micb # NoConn => Head(tx_queue).src = micb

ReleaseQueued == \E i \in 1 .. Len(tx_queue) : tx_queue[i].cmd = "RELEASE"

\* "On disconnect of the controller, the bridge synthesizes a RELEASE so the
\* MICB session does not leak": at every moment at which the MICB's session
\* rests on a link that is gone, its RELEASE is in the host task's hands or in
\* the link's queue.
SessionNeverLeaks ==
    micb \notin up \cup {NoConn} => host.pc \in {"check", "release"} \/ ReleaseQueued

\* And that RELEASE gets through: a session whose holder has gone is ended.
DroppedHolderIsReleased == \A c \in Conn : (micb = c /\ c \notin up) ~> (micb # c)

(***************************************************************************)
(* What the source's comments say, and the code does not keep up.          *)
(***************************************************************************)

\* Lines 19-20, "so the MICB session does not leak on a radio drop": a session
\* does not outlive the last link.
SessionEndsWithLinks == (micb # NoConn /\ up = {}) ~> (micb = NoConn \/ up # {})
===============================================================================
