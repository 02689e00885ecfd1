-------------------------------- MODULE BleHost --------------------------------
(***************************************************************************)
(* Bringing BLE up and keeping the device reachable (app_main in main.c,   *)
(* al1_ble.c): app_main starts the NimBLE host and only then registers the *)
(* bridge's callbacks, while the host task already synchronises with the   *)
(* controller, advertises and takes connections.  NimBLE stops advertising *)
(* by itself at every connection; the GAP event handler has to resume it.  *)
(*                                                                         *)
(* NimBLE is the environment: it holds the links and the advertising state *)
(* and calls the handlers, one at a time.  A handler is one step.  The     *)
(* registry and the bridge's slots are sets here (ApBridge has the tables  *)
(* and the binding, of which a pending claim is all that is needed here).  *)
(***************************************************************************)
EXTENDS Naturals, FiniteSets

CONSTANTS
    Conn,        \* connection handles
    NoConn,      \* BLE_HS_CONN_HANDLE_NONE
    MaxConn      \* AL1_BLE_MAX_CONN, and the links NimBLE can hold

ASSUME HostAssumption == NoConn \notin Conn /\ MaxConn \in Nat \ {0}

VARIABLES
    app,                   \* what app_main does next
    synced,                \* NimBLE: the host is in step with the controller
    adv,                   \* NimBLE: it advertises
    up,                    \* NimBLE: open links
    s_conns,               \* al1_ble.c's registry
    s_conn_cb, s_rx_cb,    \* whether the callbacks are registered
    s_slots,               \* the bridge's slots
    s_pending_claim_conn,  \* the one part of the binding the host task sets
    denied,                \* history: NimBLE turned the last attempt down
    early                  \* history: links opened before s_conn_cb was set

radio     == <<synced, adv, denied>>
links     == <<up, s_conns, s_slots, early>>
callbacks == <<s_conn_cb, s_rx_cb>>
vars      == <<app, radio, links, callbacks, s_pending_claim_conn>>

FlagsOK ==
    /\ synced \in BOOLEAN /\ adv \in BOOLEAN /\ denied \in BOOLEAN
    /\ s_conn_cb \in BOOLEAN /\ s_rx_cb \in BOOLEAN

TypeOK ==
    /\ app \in {"start", "reset", "set_conn_cb", "set_rx_cb", "done", "failed"}
    /\ FlagsOK
    /\ up \subseteq Conn /\ Cardinality(up) <= MaxConn
    /\ s_conns \subseteq Conn /\ s_slots \subseteq Conn /\ early \subseteq Conn
    /\ s_pending_claim_conn \in Conn \cup {NoConn}

Init ==
    /\ app = "start"
    /\ synced = FALSE /\ adv = FALSE /\ denied = FALSE
    /\ up = {} /\ s_conns = {} /\ s_slots = {} /\ early = {}
    /\ s_conn_cb = FALSE /\ s_rx_cb = FALSE
    /\ s_pending_claim_conn = NoConn

(***************************************************************************)
(* app_main.                                                               *)
(***************************************************************************)

\* faulty: al1_ble_ap_bridge_init sets its state after the callbacks
step_after_callbacks_first(pc) ==
    [start |-> "set_conn_cb", set_conn_cb |-> "set_rx_cb",
     set_rx_cb |-> "reset", reset |-> "done"][pc]

step_after(pc) ==
    [start |-> "reset", reset |-> "set_conn_cb",
     set_conn_cb |-> "set_rx_cb", set_rx_cb |-> "done"][pc]

\* al1_ble_start; when it fails the host task is never created, and the bridge
\* not initialised.  What it erases are bonds, which BleBonds adds.
Start ==
    /\ app = "start"
    /\ app' \in {step_after("start"), "failed"}
    /\ UNCHANGED <<radio, links, callbacks, s_pending_claim_conn>>

\* al1_ble_ap_bridge_init: first its state, then the callbacks.
ResetBinding ==
    /\ app = "reset"
    /\ s_pending_claim_conn' = NoConn
    /\ app' = step_after("reset")
    /\ UNCHANGED <<radio, links, callbacks>>

al1_ble_set_conn_evt_cb ==
    /\ app = "set_conn_cb"
    /\ s_conn_cb' = TRUE
    /\ app' = step_after("set_conn_cb")
    /\ UNCHANGED <<radio, links, s_rx_cb, s_pending_claim_conn>>

al1_ble_set_rx_cb ==
    /\ app = "set_rx_cb"
    /\ s_rx_cb' = TRUE
    /\ app' = step_after("set_rx_cb")
    /\ UNCHANGED <<radio, links, s_conn_cb, s_pending_claim_conn>>

(***************************************************************************)
(* The host task.                                                          *)
(***************************************************************************)

HostTaskRuns == app \notin {"start", "failed"}

\* al1_ble_advertise with the links open after the event.  Each of its three
\* calls may be turned down; NimBLE has to be in step and able to hold one more
\* link.  What advertises already goes on: adv_start fails, and nothing stops.
Advertises(still, open) ==
    \/ still /\ adv' = TRUE /\ denied' = FALSE
    \/ ~still /\ synced /\ Cardinality(open) < MaxConn /\ adv' = TRUE /\ denied' = FALSE
    \/ ~still /\ adv' = FALSE /\ denied' = (synced /\ Cardinality(open) < MaxConn)

\* al1_ble_on_sync; without an address there is no advertising.
Sync ==
    /\ HostTaskRuns
    /\ ~synced
    /\ synced' = TRUE
    /\ adv' \in BOOLEAN
    /\ denied' = ~adv'
    /\ UNCHANGED <<app, links, callbacks, s_pending_claim_conn>>

Connect(c) ==
    /\ adv
    /\ c \notin up
    /\ up' = up \cup {c}
    /\ s_conns' = s_conns \cup {c}
    /\ s_slots' = IF s_conn_cb THEN s_slots \cup {c} ELSE s_slots
    /\ early' = IF s_conn_cb THEN early ELSE early \cup {c}
    /\ Advertises(FALSE, up')
    /\ UNCHANGED <<app, synced, callbacks, s_pending_claim_conn>>

\* faulty: no advertising after an attempt that failed
resumes_not == adv' = FALSE /\ denied' = FALSE

resumes == Advertises(FALSE, up)

\* A central's attempt to connect fails.
ConnectFails ==
    /\ adv
    /\ resumes
    /\ UNCHANGED <<app, synced, links, callbacks, s_pending_claim_conn>>

\* Advertising ended for another reason.
AdvComplete ==
    /\ adv
    /\ Advertises(FALSE, up)
    /\ UNCHANGED <<app, synced, links, callbacks, s_pending_claim_conn>>

forget_slots_missed(gone) == UNCHANGED s_slots     \* faulty

forget_slots(gone) == s_slots' = IF s_conn_cb THEN s_slots \ gone ELSE s_slots

\* The handling of BLE_GAP_EVENT_DISCONNECT for links that are gone, save for
\* the advertising.
Forget(gone) ==
    /\ up' = up \ gone
    /\ s_conns' = s_conns \ gone
    /\ forget_slots(gone)
    /\ early' = early \ gone
    /\ s_pending_claim_conn' = IF s_conn_cb /\ s_pending_claim_conn \in gone
                               THEN NoConn ELSE s_pending_claim_conn

Disconnect(c) ==
    /\ c \in up
    /\ Forget({c})
    /\ Advertises(adv, up')
    /\ UNCHANGED <<app, synced, callbacks>>

\* The controller is reset: NimBLE breaks every link, and nobody can advertise
\* until al1_ble_on_sync is called again.  al1_ble_on_reset itself only logs.
Reset ==
    /\ synced
    /\ synced' = FALSE /\ adv' = FALSE /\ denied' = FALSE
    /\ Forget(up)
    /\ UNCHANGED <<app, callbacks>>

\* A client writes a CLAIM: al1_ble_dispatch_write, on_ble_write, on_ap_frame.
Claim(c) ==
    /\ c \in up
    /\ s_rx_cb
    /\ c \in s_slots
    /\ s_pending_claim_conn' = c
    /\ UNCHANGED <<app, radio, links, callbacks>>

-----------------------------------------------------------------------------

AppMain == Start \/ ResetBinding \/ al1_ble_set_conn_evt_cb \/ al1_ble_set_rx_cb

Next ==
    \/ AppMain
    \/ Sync \/ Reset \/ ConnectFails \/ AdvComplete
    \/ \E c \in Conn : Connect(c) \/ Disconnect(c) \/ Claim(c)

Spec == Init /\ [][Next]_vars

-----------------------------------------------------------------------------

\* "Keep advertising so additional centrals can still connect": the device can
\* be found whenever it could hold one more link, after every event and after a
\* reset of the controller.  Only NimBLE turning an attempt down silences it,
\* and then until the next event: nothing tries again.
KeepsAdvertising == synced /\ Cardinality(up) < MaxConn => adv \/ denied

\* "One reassembler per active connection": every open link has a slot, and no
\* slot outlives its link, save for the links opened before app_main registered
\* the bridge, whose writes are dropped until they reconnect.
LinksAreServed ==
    /\ s_conns = up
    /\ s_slots = up \ early

\* Initialising the bridge while clients already connect takes nothing away:
\* no claim is forgotten but with its link, or replaced but by a newer one.
ClaimsSurviveInit ==
    [][\A c \in up \cap up' : s_pending_claim_conn = c => s_pending_claim_conn' \in up]_vars
===============================================================================
