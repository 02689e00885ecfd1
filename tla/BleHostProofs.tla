----------------------------- MODULE BleHostProofs -----------------------------
(***************************************************************************)
(* The properties of BleHost, for any number of handles and links.         *)
(***************************************************************************)
EXTENDS BleHost, FiniteSetTheorems, TLAPS

\* NimBLE advertises only while it could hold one more link, and has none
\* unless it is in step with the controller.
RadioInv ==
    /\ IsFiniteSet(up)
    /\ adv => synced /\ Cardinality(up) < MaxConn
    /\ ~synced => up = {}

\* The callbacks are registered one after the other; a link is early because the
\* first of them was missing, a claim comes in through the second.
CallbackInv ==
    /\ s_conn_cb <=> app \in {"set_rx_cb", "done"}
    /\ s_rx_cb <=> app = "done"
    /\ early \subseteq up
    /\ ~s_conn_cb => s_slots = {}
    /\ s_pending_claim_conn # NoConn => s_rx_cb /\ s_pending_claim_conn \in up

IInv == TypeOK /\ RadioInv /\ KeepsAdvertising /\ LinksAreServed /\ CallbackInv

\* What al1_ble_ap_bridge_init does after what.
LEMMA StepsOfInit ==
    /\ step_after("start") = "reset"
    /\ step_after("reset") = "set_conn_cb"
    /\ step_after("set_conn_cb") = "set_rx_cb"
    /\ step_after("set_rx_cb") = "done"
BY DEF step_after

\* Forgetting links that are gone keeps what relates links, slots and claims.
LEMMA Forgetting ==
    ASSUME IInv, NEW gone, Forget(gone), UNCHANGED <<app, callbacks>>
    PROVE  /\ up' \subseteq up /\ up' = up \ gone
           /\ IsFiniteSet(up') /\ Cardinality(up') <= Cardinality(up)
           /\ up' \subseteq Conn /\ s_conns' \subseteq Conn
           /\ s_slots' \subseteq Conn /\ early' \subseteq Conn
           /\ s_pending_claim_conn' \in Conn \cup {NoConn}
           /\ LinksAreServed'
           /\ CallbackInv'
<1>1. IsFiniteSet(up') /\ Cardinality(up') <= Cardinality(up)
    BY FS_Subset DEF IInv, RadioInv, Forget
<1>2. CASE s_conn_cb
    BY <1>1, <1>2 DEF IInv, TypeOK, LinksAreServed, CallbackInv, Forget, forget_slots, callbacks
<1>3. CASE ~s_conn_cb
    BY <1>1, <1>3 DEF IInv, TypeOK, LinksAreServed, CallbackInv, Forget, forget_slots, callbacks
<1> QED  BY <1>2, <1>3

LEMMA InitInv == Init => IInv
<1> SUFFICES ASSUME Init PROVE IInv
    OBVIOUS
<1>1. IsFiniteSet(up) /\ Cardinality(up) = 0
    BY FS_EmptySet DEF Init
<1>2. FlagsOK
    BY Zenon DEF Init, FlagsOK
<1>3. TypeOK
    BY <1>1, <1>2, HostAssumption DEF Init, TypeOK
<1>4. RadioInv /\ KeepsAdvertising
    BY <1>1 DEF Init, RadioInv, KeepsAdvertising
<1>5. LinksAreServed /\ CallbackInv
    BY DEF Init, LinksAreServed, CallbackInv
<1> QED  BY <1>3, <1>4, <1>5 DEF IInv

LEMMA StepInv == IInv /\ [Next]_vars => IInv'
<1> SUFFICES ASSUME IInv, [Next]_vars PROVE IInv'
    OBVIOUS
<1> USE DEF IInv
<1>0. /\ Cardinality(up) \in Nat
      /\ MaxConn \in Nat \ {0}
      /\ FlagsOK
    BY FS_CardinalityType, HostAssumption DEF RadioInv, TypeOK
<1>1. CASE AppMain
    <2>1. FlagsOK'
        BY <1>1
        DEF AppMain, Start, ResetBinding, al1_ble_set_conn_evt_cb, al1_ble_set_rx_cb,
            TypeOK, FlagsOK, radio, callbacks
    <2>2. TypeOK'
        BY <1>1, <2>1, StepsOfInit
        DEF AppMain, Start, ResetBinding, al1_ble_set_conn_evt_cb, al1_ble_set_rx_cb,
            TypeOK, links
    <2>3. CallbackInv'
        BY <1>1, StepsOfInit
        DEF AppMain, Start, ResetBinding, al1_ble_set_conn_evt_cb, al1_ble_set_rx_cb,
            CallbackInv, links, callbacks
    <2>4. RadioInv' /\ KeepsAdvertising' /\ LinksAreServed'
        BY <1>1
        DEF AppMain, Start, ResetBinding, al1_ble_set_conn_evt_cb, al1_ble_set_rx_cb,
            RadioInv, KeepsAdvertising, LinksAreServed, radio, links
    <2> QED  BY <2>2, <2>3, <2>4
<1>2. CASE Sync
    <2>1. synced' = TRUE /\ adv' \in BOOLEAN /\ denied' = ~adv'
        BY <1>2 DEF Sync
    <2>2. UNCHANGED <<app, up, s_conns, s_slots, early, s_conn_cb, s_rx_cb, s_pending_claim_conn>>
        BY <1>2 DEF Sync, links, callbacks
    <2>3. RadioInv' /\ KeepsAdvertising'
        <3>1. up = {} /\ Cardinality(up) = 0
            BY <1>2, FS_EmptySet DEF Sync, RadioInv
        <3>2. Cardinality(up') < MaxConn
            BY <3>1, <2>2, <1>0
        <3>3. IsFiniteSet(up')
            BY <2>2 DEF RadioInv
        <3> QED  BY <2>1, <3>2, <3>3, Zenon DEF RadioInv, KeepsAdvertising
    <2>4. FlagsOK'
        BY <2>1, <2>2 DEF TypeOK, FlagsOK
    <2> QED  BY <2>2, <2>3, <2>4 DEF TypeOK, LinksAreServed, CallbackInv
<1>3. CASE ConnectFails \/ AdvComplete
    <2>1. Advertises(FALSE, up)
        BY <1>3 DEF ConnectFails, AdvComplete, resumes
    <2>2. UNCHANGED <<app, synced, up, s_conns, s_slots, early, s_conn_cb, s_rx_cb, s_pending_claim_conn>>
        BY <1>3 DEF ConnectFails, AdvComplete, links, callbacks
    <2>3. /\ adv' \in BOOLEAN /\ denied' \in BOOLEAN
          /\ adv' => synced' /\ Cardinality(up') < MaxConn
          /\ KeepsAdvertising'
        BY <2>1, <2>2, <1>0 DEF Advertises, KeepsAdvertising, FlagsOK
    <2>4. FlagsOK'
        BY <2>2, <2>3 DEF TypeOK, FlagsOK
    <2>5. RadioInv'
        BY <2>2, <2>3, Zenon DEF RadioInv
    <2> QED  BY <2>2, <2>3, <2>4, <2>5 DEF TypeOK, LinksAreServed, CallbackInv
<1>4. ASSUME NEW c \in Conn, Connect(c) PROVE IInv'
    <2>1. /\ adv /\ c \notin up /\ up' = up \cup {c}
          /\ Advertises(FALSE, up')
          /\ UNCHANGED <<app, synced, s_conn_cb, s_rx_cb, s_pending_claim_conn>>
        BY <1>4 DEF Connect, callbacks
    <2>2. IsFiniteSet(up') /\ Cardinality(up') = Cardinality(up) + 1
        BY <2>1, FS_AddElement DEF RadioInv
    <2>3. Cardinality(up') <= MaxConn
        BY <2>1, <2>2, <1>0 DEF RadioInv
    <2>4. /\ adv' \in BOOLEAN /\ denied' \in BOOLEAN
          /\ adv' => synced' /\ Cardinality(up') < MaxConn
          /\ KeepsAdvertising'
        BY <2>1, <1>0 DEF Advertises, KeepsAdvertising, FlagsOK
    <2>5. /\ s_conns' \subseteq Conn /\ s_slots' \subseteq Conn /\ early' \subseteq Conn
          /\ LinksAreServed' /\ CallbackInv'
        BY <1>4, <2>1 DEF Connect, TypeOK, LinksAreServed, CallbackInv
    <2>6. FlagsOK'
        BY <2>1, <2>4 DEF TypeOK, FlagsOK
    <2>7. RadioInv'
        BY <2>1, <2>2, <2>4, Zenon DEF RadioInv
    <2> QED  BY <2>1, <2>3, <2>4, <2>5, <2>6, <2>7 DEF TypeOK
<1>5. ASSUME NEW c \in Conn, Disconnect(c) PROVE IInv'
    <2>1. /\ Forget({c})
          /\ Advertises(adv, up')
          /\ UNCHANGED <<app, synced, callbacks>>
        BY <1>5 DEF Disconnect
    <2>2. /\ IsFiniteSet(up') /\ Cardinality(up') <= Cardinality(up)
          /\ up' \subseteq Conn /\ s_conns' \subseteq Conn
          /\ s_slots' \subseteq Conn /\ early' \subseteq Conn
          /\ s_pending_claim_conn' \in Conn \cup {NoConn}
          /\ LinksAreServed' /\ CallbackInv'
        BY <2>1, Forgetting
    <2>3. Cardinality(up') \in Nat
        BY <2>2, FS_CardinalityType
    <2>4. adv => synced /\ Cardinality(up') < MaxConn
        BY <2>2, <2>3, <1>0 DEF RadioInv
    <2>5. /\ adv' \in BOOLEAN /\ denied' \in BOOLEAN
          /\ adv' => synced' /\ Cardinality(up') < MaxConn
          /\ KeepsAdvertising'
        BY <2>1, <2>4, <1>0 DEF Advertises, KeepsAdvertising, FlagsOK
    <2>6. Cardinality(up') <= MaxConn
        BY <2>2, <2>3, <1>0 DEF TypeOK
    <2>7. FlagsOK'
        BY <2>1, <2>5 DEF TypeOK, FlagsOK, callbacks
    <2>8. RadioInv'
        <3>1. ~synced' => up' = {}
            BY <2>1 DEF RadioInv, Forget
        <3> QED  BY <2>2, <2>5, <3>1, Zenon DEF RadioInv
    <2> QED  BY <2>1, <2>2, <2>5, <2>6, <2>7, <2>8 DEF TypeOK
<1>6. CASE Reset
    <2>1. /\ Forget(up) /\ synced' = FALSE /\ adv' = FALSE /\ denied' = FALSE
          /\ UNCHANGED <<app, callbacks>>
        BY <1>6 DEF Reset
    <2>2. /\ IsFiniteSet(up') /\ Cardinality(up') <= Cardinality(up)
          /\ up' \subseteq Conn /\ s_conns' \subseteq Conn
          /\ s_slots' \subseteq Conn /\ early' \subseteq Conn
          /\ s_pending_claim_conn' \in Conn \cup {NoConn}
          /\ LinksAreServed' /\ CallbackInv'
        BY <2>1, Forgetting
    <2>3. Cardinality(up') \in Nat
        BY <2>2, FS_CardinalityType
    <2>4. Cardinality(up') <= MaxConn
        BY <2>2, <2>3, <1>0 DEF TypeOK
    <2>5. FlagsOK'
        BY <2>1 DEF TypeOK, FlagsOK, callbacks
    <2>6. RadioInv' /\ KeepsAdvertising'
        BY <2>1, <2>2, Zenon DEF RadioInv, KeepsAdvertising, Forget
    <2> QED  BY <2>1, <2>2, <2>4, <2>5, <2>6 DEF TypeOK
<1>7. ASSUME NEW c \in Conn, Claim(c) PROVE IInv'
    <2>1. UNCHANGED <<app, synced, adv, denied, up, s_conns, s_slots, early, s_conn_cb, s_rx_cb>>
        BY <1>7 DEF Claim, radio, links, callbacks
    <2>2. FlagsOK' /\ RadioInv' /\ KeepsAdvertising' /\ LinksAreServed'
        BY <2>1 DEF TypeOK, FlagsOK, RadioInv, KeepsAdvertising, LinksAreServed
    <2>3. CallbackInv'
        BY <1>7, <2>1 DEF Claim, CallbackInv
    <2>4. TypeOK'
        BY <1>7, <2>1, <2>2 DEF Claim, TypeOK
    <2> QED  BY <2>2, <2>3, <2>4
<1>8. CASE UNCHANGED vars
    <2>1. UNCHANGED <<app, synced, adv, denied, up, s_conns, s_slots, early,
                      s_conn_cb, s_rx_cb, s_pending_claim_conn>>
        BY <1>8 DEF vars, radio, links, callbacks
    <2>2. FlagsOK' /\ RadioInv' /\ KeepsAdvertising' /\ LinksAreServed'
        BY <2>1 DEF TypeOK, FlagsOK, RadioInv, KeepsAdvertising, LinksAreServed
    <2> QED  BY <2>1, <2>2 DEF TypeOK, CallbackInv
<1> QED
    BY <1>1, <1>2, <1>3, <1>4, <1>5, <1>6, <1>7, <1>8 DEF Next

LEMMA Invariant == Spec => []IInv
BY InitInv, StepInv, PTL DEF Spec

\* Every variable keeps its type, and there are never more links than NimBLE can
\* hold: al1_ble_advertise does not ask for one too many.
THEOREM TypeCorrect == Spec => []TypeOK
<1>1. IInv => TypeOK
    BY DEF IInv
<1> QED  BY Invariant, <1>1, PTL

\* For any number of handles and links: after every event the device can be
\* found, unless NimBLE turned the last attempt down.
THEOREM AlwaysKeepsAdvertising == Spec => []KeepsAdvertising
<1>1. IInv => KeepsAdvertising
    BY DEF IInv
<1> QED  BY Invariant, <1>1, PTL

\* Every open link has a slot at the bridge but for those that were opened
\* before its callback was registered, in the window app_main leaves.
THEOREM AlwaysServed == Spec => []LinksAreServed
<1>1. IInv => LinksAreServed
    BY DEF IInv
<1> QED  BY Invariant, <1>1, PTL

\* No step forgets a claim but with its link.
LEMMA ClaimKept ==
    ASSUME IInv, [Next]_vars,
           NEW c \in up \cap up', s_pending_claim_conn = c
    PROVE  s_pending_claim_conn' \in up
<1>1. c \in Conn /\ c # NoConn
    BY HostAssumption DEF IInv, TypeOK
<1>2. CASE ResetBinding
    BY <1>1, <1>2 DEF ResetBinding, IInv, CallbackInv
<1>3. ASSUME NEW gone, Forget(gone) PROVE s_pending_claim_conn' \in up
    BY <1>3 DEF Forget
<1>4. ASSUME NEW d \in Conn, Claim(d) PROVE s_pending_claim_conn' \in up
    BY <1>4 DEF Claim
<1>5. CASE UNCHANGED s_pending_claim_conn
    BY <1>5
<1> QED
    BY <1>2, <1>3, <1>4, <1>5
    DEF Next, AppMain, Start, al1_ble_set_conn_evt_cb, al1_ble_set_rx_cb, Sync, Reset,
        ConnectFails, AdvComplete, Connect, Disconnect, vars

\* al1_ble_ap_bridge_init forgets no claim: its assignments precede the
\* callbacks through which claims come in.
THEOREM AlwaysSurvive == Spec => ClaimsSurviveInit
<1> DEFINE Kept == \A c \in up \cap up' : s_pending_claim_conn = c => s_pending_claim_conn' \in up
<1>1. IInv /\ [Next]_vars => [Kept]_vars
    BY ClaimKept
<1> QED  BY Invariant, <1>1, PTL DEF Spec, ClaimsSurviveInit
===============================================================================
