------------------------------ MODULE ApDelivery ------------------------------
(***************************************************************************)
(* How a frame of the STM32 reaches the BLE clients: the routing of        *)
(* al1_ble_ap_bridge_on_link_ap and the loops of al1_ble_notify_all and    *)
(* al1_ble_notify_conn, in the link's receive task, while the host task    *)
(* opens and closes links, changes the binding and notifies errors itself. *)
(*                                                                         *)
(* The receive task moves access by access.  A handler of the host task is *)
(* one step: it outranks the receive task, and waits for nothing between   *)
(* its accesses to what is modelled here (ApBridge takes them apart).      *)
(* Commands on their way to the STM32 are left out, so the STM32 may send  *)
(* any frame at any time.  Lengths count units of the least notification.  *)
(***************************************************************************)
EXTENDS Integers, SequencesExt

CONSTANTS
    Conn,        \* connection handles
    NoConn,      \* BLE_HS_CONN_HANDLE_NONE
    MaxConn,     \* AL1_BLE_MAX_CONN
    MaxLen,      \* bound: the longest frame
    MaxChunk     \* bound: the largest ATT_MTU - 3; the least is 1

ASSUME DeliveryAssumption ==
    /\ NoConn \notin Conn
    /\ {MaxConn, MaxLen, MaxChunk} \subseteq Nat \ {0}

VARIABLES
    s_conns,               \* the registry
    room,                  \* ATT_MTU - 3 of each open link, 0 for the others
    s_controlling_conn,
    s_pending_claim_conn,
    rx,                    \* the receive task, see RxType
    got,                   \* history: the chunks each client got since the
                           \* frame arrived, as [off, n]
    erred,                 \* history: how many of them it had at its last error
    meant,                 \* history: the clients it is for
    holed                  \* history: those a chunk of it did not reach

binding == <<s_controlling_conn, s_pending_claim_conn>>
links   == <<s_conns, room>>
inbox   == <<got, erred>>
vars    == <<links, binding, rx, inbox, meant, holed>>

ConnOrNone == Conn \cup {NoConn}
Slot       == 1 .. MaxConn
Piece      == [off : 0 .. MaxLen - 1, n : 1 .. MaxChunk]

\* pc is what the task does next, then what when al1_ble_notify_conn returns;
\* slot is al1_ble_notify_all's i, the rest are al1_ble_notify_conn's; conn is
\* also what it read of the pending claim.
RxType == [pc    : {"idle", "bind", "clear", "set", "tell", "route", "all", "mtu", "chunk",
                     "unbind"},
           then  : {"idle", "all", "unbind"},
           slot  : 1 .. MaxConn + 1,
           conn  : ConnOrNone,
           len   : 0 .. MaxLen,
           off   : 0 .. MaxLen + MaxChunk,
           chunk : 0 .. MaxChunk]

RxIdle == [pc |-> "idle", then |-> "idle", slot |-> 1, conn |-> NoConn,
           len |-> 0, off |-> 0, chunk |-> 0]

up == {c \in Conn : room[c] > 0}

TypeOK ==
    /\ s_conns \in [Slot -> ConnOrNone]
    /\ room \in [Conn -> 0 .. MaxChunk]
    /\ s_controlling_conn \in ConnOrNone
    /\ s_pending_claim_conn \in ConnOrNone
    /\ rx \in RxType
    /\ got \in [Conn -> Seq(Piece)]
    /\ erred \in [Conn -> Nat]
    /\ meant \subseteq Conn
    /\ holed \subseteq Conn

Init ==
    /\ s_conns = [i \in Slot |-> NoConn]
    /\ room = [c \in Conn |-> 0]
    /\ s_controlling_conn = NoConn
    /\ s_pending_claim_conn = NoConn
    /\ rx = RxIdle
    /\ got = [c \in Conn |-> << >>] /\ erred = [c \in Conn |-> 0]
    /\ meant = {}
    /\ holed = {}

(***************************************************************************)
(* The host task.                                                          *)
(***************************************************************************)

Empties(c) == got' = [got EXCEPT ![c] = << >>] /\ erred' = [erred EXCEPT ![c] = 0]

IsFirst(i, c) == s_conns[i] = c /\ \A j \in 1 .. i - 1 : s_conns[j] # c

Connect(c) ==
    /\ c \notin up
    /\ \E i \in Slot : IsFirst(i, NoConn) /\ s_conns' = [s_conns EXCEPT ![i] = c]
    /\ room' = [room EXCEPT ![c] = 1]
    /\ Empties(c)
    /\ UNCHANGED <<binding, rx, meant, holed>>

\* faulty: the entries behind it move up
Freed_compacts(i) ==
    [j \in Slot |-> IF j < i THEN s_conns[j] ELSE IF j < MaxConn THEN s_conns[j + 1] ELSE NoConn]

Freed(i) == [s_conns EXCEPT ![i] = NoConn]

Unless(c, handle) == IF handle = c THEN NoConn ELSE handle

Disconnect(c) ==
    /\ c \in up
    /\ \E i \in Slot : IsFirst(i, c) /\ s_conns' = Freed(i)
    /\ room' = [room EXCEPT ![c] = 0]
    /\ s_controlling_conn' = Unless(c, s_controlling_conn)
    /\ s_pending_claim_conn' = Unless(c, s_pending_claim_conn)
    /\ Empties(c)
    /\ meant' = meant \ {c}
    /\ UNCHANGED <<rx, holed>>

\* The peers exchange MTUs; the event is only logged.
Negotiate(c) ==
    /\ c \in up
    /\ \E r \in room[c] .. MaxChunk : room' = [room EXCEPT ![c] = r]
    /\ UNCHANGED <<s_conns, binding, rx, inbox, meant, holed>>

\* A CLAIM between the receive task's two reads of the pending claimant takes
\* over the OK that is being handled.
Claim(c) ==
    /\ c \in up
    /\ s_pending_claim_conn' = c
    /\ meant' = IF rx.pc = "bind" THEN {c} ELSE meant
    /\ UNCHANGED <<links, s_controlling_conn, rx, inbox, holed>>

\* A controller that releases gives up what is not addressed to it yet.
Release(c) ==
    /\ c \in up
    /\ s_controlling_conn = c
    /\ s_controlling_conn' = NoConn
    /\ meant' = IF rx.pc \in {"tell", "route"} THEN meant \ {c} ELSE meant
    /\ UNCHANGED <<links, s_pending_claim_conn, rx, inbox, holed>>

\* A claim-requiring command of another client: reject_not_controller, whose
\* error fits into one chunk.
Reject(c) ==
    /\ c \in up
    /\ s_controlling_conn # c
    /\ erred' = [erred EXCEPT ![c] = Len(got[c])]
    /\ UNCHANGED <<links, binding, rx, got, meant, holed>>

(***************************************************************************)
(* The receive task: al1_ble_ap_bridge_on_link_ap.                         *)
(***************************************************************************)

Goes(pc, len) == rx' = [RxIdle EXCEPT !.pc = pc, !.len = len]

Returns == Goes("idle", rx.len)

\* The binding may be of a link that is gone (see BindSet): the frame is then for
\* nobody.
RxTake(kind, len) ==
    /\ rx.pc = "idle"
    /\ \/ /\ kind = "OK" /\ s_pending_claim_conn # NoConn
          /\ Goes("bind", len) /\ meant' = {s_pending_claim_conn}
       \/ /\ kind = "SESSION_END" /\ s_controlling_conn # NoConn
          /\ Goes("tell", len) /\ meant' = {s_controlling_conn} \cap up
       \/ /\ kind = "SESSION_END" /\ s_controlling_conn = NoConn
          /\ Goes("unbind", len) /\ meant' = {}
       \/ /\ kind = "OTHER" \/ (kind = "OK" /\ s_pending_claim_conn = NoConn)
          /\ s_controlling_conn # NoConn
          /\ Goes("route", len) /\ meant' = {s_controlling_conn} \cap up
       \/ /\ kind = "OTHER" \/ (kind = "OK" /\ s_pending_claim_conn = NoConn)
          /\ s_controlling_conn = NoConn
          /\ Goes("all", len) /\ meant' = up
    /\ got' = [c \in Conn |-> << >>] /\ erred' = [c \in Conn |-> 0]
    /\ holed' = {}
    /\ UNCHANGED <<links, binding>>

\* al1_ble_notify_conn is called.
Notify(c, then) == rx' = [rx EXCEPT !.pc = "mtu", !.conn = c, !.then = then]

BindRead ==
    /\ rx.pc = "bind"
    /\ rx' = [rx EXCEPT !.pc = "clear", !.conn = s_pending_claim_conn]
    /\ UNCHANGED <<links, binding, inbox, meant, holed>>

\* Whatever is pending by now, a newer claim included.
BindClear ==
    /\ rx.pc = "clear"
    /\ s_pending_claim_conn' = NoConn
    /\ rx' = [rx EXCEPT !.pc = "set"]
    /\ UNCHANGED <<links, s_controlling_conn, inbox, meant, holed>>

\* The claimant may have gone since it was read.
BindSet ==
    /\ rx.pc = "set"
    /\ s_controlling_conn' = rx.conn
    /\ Notify(rx.conn, "idle")
    /\ UNCHANGED <<links, s_pending_claim_conn, inbox, meant, holed>>

\* The second read of s_controlling_conn.
Address ==
    /\ rx.pc \in {"tell", "route"}
    /\ Notify(s_controlling_conn, IF rx.pc = "tell" THEN "unbind" ELSE "idle")
    /\ UNCHANGED <<links, binding, inbox, meant, holed>>

Unbind ==
    /\ rx.pc = "unbind"
    /\ s_controlling_conn' = NoConn
    /\ Returns
    /\ UNCHANGED <<links, s_pending_claim_conn, inbox, meant, holed>>

\* One turn of al1_ble_notify_all's loop.
NotifyAll ==
    /\ rx.pc = "all"
    /\ \/ rx.slot > MaxConn /\ Returns
       \/ /\ rx.slot <= MaxConn
          /\ s_conns[rx.slot] = NoConn
          /\ rx' = [rx EXCEPT !.slot = @ + 1]
       \/ /\ rx.slot <= MaxConn
          /\ s_conns[rx.slot] # NoConn
          /\ rx' = [rx EXCEPT !.slot = @ + 1, !.pc = "mtu", !.then = "all",
                              !.conn = s_conns[rx.slot]]
    /\ UNCHANGED <<links, binding, inbox, meant, holed>>

(***************************************************************************)
(* al1_ble_notify_conn.                                                    *)
(***************************************************************************)

chunk_unguarded(c) == IF c \in up THEN room[c] ELSE 0      \* faulty

\* The MTU of a link that is gone is unknown: the least chunk.
chunk_for(c) == IF c \in up THEN room[c] ELSE 1

ReadMtu ==
    /\ rx.pc = "mtu"
    /\ rx' = [rx EXCEPT !.pc = "chunk", !.off = 0, !.chunk = chunk_for(rx.conn)]
    /\ UNCHANGED <<links, binding, inbox, meant, holed>>

this_chunk_uncapped == rx.len - rx.off        \* faulty: ignores the MTU

this_chunk == IF rx.len - rx.off > rx.chunk THEN rx.chunk ELSE rx.len - rx.off

\* al1_gatt_notify fails for a link that is gone or without a buffer; the loop
\* goes on to the next chunk all the same.
SendChunk ==
    /\ rx.pc = "chunk"
    /\ rx.off < rx.len
    /\ \/ /\ rx.conn \in up
          /\ got' = [got EXCEPT ![rx.conn] = Append(@, [off |-> rx.off, n |-> this_chunk])]
          /\ UNCHANGED holed
       \/ /\ holed' = holed \cup ({rx.conn} \cap Conn)
          /\ UNCHANGED got
    /\ rx' = [rx EXCEPT !.off = @ + rx.chunk]
    /\ UNCHANGED <<links, binding, erred, meant>>

Notified ==
    /\ rx.pc = "chunk"
    /\ rx.off >= rx.len
    /\ \/ rx.then = "idle" /\ Returns
       \/ rx.then # "idle" /\ rx' = [rx EXCEPT !.pc = rx.then]
    /\ UNCHANGED <<links, binding, inbox, meant, holed>>

-----------------------------------------------------------------------------

HostActs ==
    \E c \in Conn :
        \/ Connect(c) \/ Disconnect(c) \/ Negotiate(c)
        \/ Claim(c) \/ Release(c) \/ Reject(c)

RxRuns ==
    \/ BindRead \/ BindClear \/ BindSet \/ Address \/ Unbind
    \/ NotifyAll \/ ReadMtu \/ SendChunk \/ Notified

Next ==
    \/ HostActs
    \/ RxRuns
    \/ \E kind \in {"OK", "SESSION_END", "OTHER"}, len \in 1 .. MaxLen : RxTake(kind, len)

\* The receive task waits for nothing once it has a frame.
Spec == Init /\ [][Next]_vars /\ WF_vars(RxRuns)

-----------------------------------------------------------------------------

\* Where one chunk ends the next begins, from the frame's start to its end.
Covers(pieces, len) ==
    /\ pieces # << >>
    /\ pieces[1].off = 0
    /\ \A i \in 1 .. Len(pieces) - 1 : pieces[i + 1].off = pieces[i].off + pieces[i].n
    /\ Last(pieces).off + Last(pieces).n = len

\* Whether the receive task is through with c: no call for it is under way or
\* still to come.
ServedBy(c) ==
    \/ rx.pc \in {"idle", "unbind"}
    \/ rx.pc = "all" /\ \A i \in Slot : s_conns[i] = c => i < rx.slot

\* A client a frame is for gets it whole, once and in order, whatever the other
\* clients do meanwhile and however often its MTU changes; only its own
\* disconnection, its own RELEASE or a failing notification can cost it a part.
Delivered == \A c \in meant \ holed : ServedBy(c) => Covers(got[c], rx.len)

\* ble_smoke.py line 173, "feed() returns the list of whole frames": the chunks
\* of a frame arrive with nothing in between, as the client's reassembler needs.
Contiguous == \A c \in Conn : erred[c] \in {0, Len(got[c])}

\* A frame occupies the receive task for a bounded time, whatever the host task
\* does to the registry it walks.
ReceiverReturns == []<>(rx.pc = "idle")
===============================================================================
