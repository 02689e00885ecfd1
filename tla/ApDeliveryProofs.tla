--------------------------- MODULE ApDeliveryProofs ---------------------------
(***************************************************************************)
(* TypeOK and Delivered of ApDelivery, and that a frame occupies the       *)
(* receive task for a bounded number of steps, for any handles, slots and  *)
(* lengths.                                                                *)
(***************************************************************************)
EXTENDS ApDelivery, SequenceTheorems, TLAPS

\* Every open link has one slot, and every slot in use an open link.
RegistryInv ==
    /\ \A i \in Slot : s_conns[i] \in up \cup {NoConn}
    /\ \A i, j \in Slot : s_conns[i] = s_conns[j] /\ s_conns[i] # NoConn => i = j
    /\ \A c \in up : \E i \in Slot : s_conns[i] = c

\* The pending claimant and the clients a frame is for are open links; the
\* controller need not be one.
BindingInv ==
    /\ s_pending_claim_conn \in up \cup {NoConn}
    /\ meant \subseteq up

Calling == rx.pc \in {"mtu", "chunk"}

\* Whom the receive task is about to notify, or is notifying.
TargetInv ==
    /\ rx.pc = "bind" => meant \subseteq {s_pending_claim_conn}
    /\ rx.pc \in {"clear", "set"} => meant \subseteq {rx.conn}
    /\ rx.pc \in {"tell", "route"} => meant \subseteq {s_controlling_conn}
    /\ Calling /\ rx.then # "all" => meant \subseteq {rx.conn}
    /\ Calling /\ rx.then = "all" /\ rx.conn \in meant =>
           rx.slot > 1 /\ s_conns[rx.slot - 1] = rx.conn
    /\ rx.pc # "idle" => rx.len >= 1
    /\ rx.pc = "chunk" => rx.chunk >= 1

\* The call of al1_ble_notify_conn for c is still to come.
Ahead(c) ==
    \/ rx.pc \in {"bind", "clear", "set", "tell", "route"}
    \/ /\ rx.pc = "all" \/ (Calling /\ rx.then = "all")
       /\ \E i \in Slot : s_conns[i] = c /\ i >= rx.slot

Serving(c) == Calling /\ rx.conn = c

\* How much of its frame c has.
HasUpTo(c, n) == IF n = 0 THEN got[c] = << >> ELSE Covers(got[c], n)

sent == IF rx.pc = "mtu" THEN 0 ELSE IF rx.off < rx.len THEN rx.off ELSE rx.len

ProgressInv ==
    /\ rx.pc = "bind" => \A c \in Conn : got[c] = << >>
    /\ \A c \in meant \ holed :
        /\ Ahead(c) => got[c] = << >>
        /\ ~Ahead(c) /\ Serving(c) => HasUpTo(c, sent)
        /\ ~Ahead(c) /\ ~Serving(c) => Covers(got[c], rx.len)

IInv == TypeOK /\ RegistryInv /\ BindingInv /\ TargetInv /\ ProgressInv

\* The fields of rx, and what follows from the assumption on the bounds.
LEMMA RxFields ==
    ASSUME TypeOK
    PROVE  /\ rx.pc \in {"idle", "bind", "clear", "set", "tell", "route", "all", "mtu", "chunk",
                          "unbind"}
           /\ rx.then \in {"idle", "all", "unbind"}
           /\ rx.slot \in 1 .. MaxConn + 1
           /\ rx.conn \in ConnOrNone
           /\ rx.len \in 0 .. MaxLen
           /\ rx.off \in 0 .. MaxLen + MaxChunk
           /\ rx.chunk \in 0 .. MaxChunk
           /\ MaxConn \in Nat \ {0} /\ MaxLen \in Nat \ {0} /\ MaxChunk \in Nat \ {0}
           /\ NoConn \notin Conn
           /\ up \subseteq Conn
BY DeliveryAssumption DEF TypeOK, RxType, up

\* A chunk appended to what covers a frame up to its offset covers it to its end.
LEMMA CoversMore ==
    ASSUME NEW s \in Seq(Piece), NEW off \in 0 .. MaxLen - 1, NEW n \in 1 .. MaxChunk,
           IF off = 0 THEN s = << >> ELSE Covers(s, off)
    PROVE  Covers(Append(s, [off |-> off, n |-> n]), off + n)
<1> DEFINE p == [off |-> off, n |-> n]
           t == Append(s, p)
           k == Len(s)
<1>1. p \in Piece /\ p.off = off /\ p.n = n
    BY DEF Piece
<1>2. /\ k \in Nat /\ Len(t) = k + 1
      /\ \A i \in 1 .. k : t[i] = s[i]
      /\ t[k + 1] = p
    <2>1. k \in Nat
        BY LenProperties
    <2>2. Len(t) = k + 1 /\ (\A i \in 1 .. k : t[i] = s[i]) /\ t[k + 1] = p
        BY <1>1, AppendProperties
    <2> QED  BY <2>1, <2>2
<1>3. /\ k = 0 => off = 0
      /\ k # 0 => s[1].off = 0 /\ s[k].off + s[k].n = off
      /\ \A i \in 1 .. k - 1 : s[i + 1].off = s[i].off + s[i].n
    <2>1. CASE off = 0
        BY <2>1, LenProperties, EmptySeq
    <2>2. CASE off # 0
        BY <2>2, EmptySeq DEF Covers, Last
    <2> QED  BY <2>1, <2>2
<1>4. t # << >>
    BY <1>2, EmptySeq
<1> HIDE DEF p, t, k
<1>5. t[1].off = 0
    <2>1. CASE k = 0
        BY <2>1, <1>1, <1>2, <1>3
    <2>2. CASE k # 0
        BY <2>2, <1>2, <1>3
    <2> QED  BY <2>1, <2>2
<1>6. ASSUME NEW i \in 1 .. Len(t) - 1 PROVE t[i + 1].off = t[i].off + t[i].n
    <2>1. CASE i = k
        BY <2>1, <1>1, <1>2, <1>3
    <2>2. CASE i # k
        BY <2>2, <1>2, <1>3
    <2> QED  BY <2>1, <2>2
<1>7. Last(t).off + Last(t).n = off + n
    BY <1>1, <1>2 DEF Last
<1> QED  BY <1>4, <1>5, <1>6, <1>7, Zenon DEF Covers, t, p

\* A step of the host task that adds no recipient and leaves those there are
\* their slot and their chunks.
LEMMA Undisturbed ==
    ASSUME IInv, UNCHANGED <<rx, holed>>, meant' \subseteq meant,
           \A c \in meant' : got'[c] = got[c],
           \A c \in meant', i \in Slot : s_conns'[i] = c <=> s_conns[i] = c
    PROVE  /\ \A c \in meant' \ holed' :
                /\ Ahead(c)' => got'[c] = << >>
                /\ ~Ahead(c)' /\ Serving(c)' => HasUpTo(c, sent)'
                /\ ~Ahead(c)' /\ ~Serving(c)' => Covers(got'[c], rx'.len)
           /\ Calling' /\ rx'.then = "all" /\ rx'.conn \in meant' =>
                  rx'.slot > 1 /\ s_conns'[rx'.slot - 1] = rx'.conn
<1>1. ASSUME NEW c \in meant' PROVE Ahead(c)' = Ahead(c)
    BY <1>1 DEF Ahead, Calling
<1>2. ASSUME NEW c \in meant' PROVE (Serving(c)' = Serving(c)) /\ (HasUpTo(c, sent)' = HasUpTo(c, sent))
    BY <1>2 DEF Serving, Calling, HasUpTo, sent
<1>3. Calling /\ rx.then = "all" /\ rx.conn \in meant => rx.slot - 1 \in Slot
    BY RxFields DEF IInv, TargetInv, Slot
<1>4. Calling' /\ rx'.then = "all" /\ rx'.conn \in meant' =>
          rx'.slot > 1 /\ s_conns'[rx'.slot - 1] = rx'.conn
    BY <1>3 DEF IInv, TargetInv, Calling
<1> QED  BY <1>1, <1>2, <1>4 DEF IInv, ProgressInv

LEMMA InitInv == Init => IInv
<1> SUFFICES ASSUME Init PROVE IInv
    OBVIOUS
<1>1. RxIdle \in RxType
    BY DeliveryAssumption DEF RxType, RxIdle, ConnOrNone
<1>2. TypeOK
    BY <1>1, DeliveryAssumption, EmptySeq DEF Init, TypeOK, ConnOrNone
<1>3. RegistryInv /\ BindingInv
    BY DEF Init, RegistryInv, BindingInv, up
<1>4. TargetInv /\ ProgressInv
    BY DEF Init, TargetInv, ProgressInv, Calling, RxIdle
<1> QED  BY <1>2, <1>3, <1>4 DEF IInv

LEMMA ConnectInv == ASSUME IInv, NEW c \in Conn, Connect(c) PROVE IInv'
<1> USE DEF IInv
<1>1. PICK i \in Slot : IsFirst(i, NoConn) /\ s_conns' = [s_conns EXCEPT ![i] = c]
    BY DEF Connect
<1>2. /\ c \notin up /\ up' = up \cup {c}
      /\ s_conns[i] = NoConn /\ NoConn \notin Conn
      /\ \A j \in Slot : s_conns'[j] = IF j = i THEN c ELSE s_conns[j]
    BY <1>1, RxFields DEF Connect, IsFirst, TypeOK, up
<1>3. /\ UNCHANGED <<s_controlling_conn, s_pending_claim_conn, rx, meant, holed>>
      /\ \A d \in Conn : got'[d] = IF d = c THEN << >> ELSE got[d]
    BY DEF Connect, Empties, TypeOK, binding
<1>4. TypeOK'
    <2>1. got' \in [Conn -> Seq(Piece)] /\ erred' \in [Conn -> Nat]
        BY EmptySeq DEF Connect, Empties, TypeOK
    <2>2. s_conns' \in [Slot -> ConnOrNone]
        BY <1>1 DEF TypeOK, ConnOrNone
    <2>3. room' \in [Conn -> 0 .. MaxChunk]
        <3>1. 1 \in 0 .. MaxChunk /\ room' = [room EXCEPT ![c] = 1]
            BY RxFields DEF Connect
        <3> QED  BY <3>1 DEF TypeOK
    <2> QED  BY <2>1, <2>2, <2>3, <1>3 DEF TypeOK
<1>5. RegistryInv'
    <2>1. \A j \in Slot : s_conns'[j] \in up' \cup {NoConn}
        BY <1>2 DEF RegistryInv
    <2>2. \A j, k \in Slot : s_conns'[j] = s_conns'[k] /\ s_conns'[j] # NoConn => j = k
        BY <1>2 DEF RegistryInv
    <2>3. ASSUME NEW d \in up' PROVE \E j \in Slot : s_conns'[j] = d
        <3>1. CASE d = c
            BY <3>1, <1>2
        <3>2. CASE d # c
            <4>1. PICK j \in Slot : s_conns[j] = d
                BY <3>2, <1>2 DEF RegistryInv
            <4>2. d # NoConn
                BY <2>3, <1>2 DEF up
            <4> QED  BY <4>1, <4>2, <1>2
        <3> QED  BY <3>1, <3>2
    <2> QED  BY <2>1, <2>2, <2>3 DEF RegistryInv
<1>6. BindingInv'
    BY <1>2, <1>3 DEF BindingInv
<1>7. \A d \in meant' : d \in Conn /\ d # c
    BY <1>2, <1>3 DEF BindingInv, up
<1>8. \A d \in meant', j \in Slot : s_conns'[j] = d <=> s_conns[j] = d
    BY <1>2, <1>7
<1>9. TargetInv' /\ ProgressInv'
    BY Undisturbed, <1>3, <1>7, <1>8 DEF TargetInv, ProgressInv, Calling
<1> QED  BY <1>4, <1>5, <1>6, <1>9

LEMMA DisconnectInv == ASSUME IInv, NEW c \in Conn, Disconnect(c) PROVE IInv'
<1> USE DEF IInv
<1>1. PICK i \in Slot : IsFirst(i, c) /\ s_conns' = [s_conns EXCEPT ![i] = NoConn]
    BY DEF Disconnect, Freed
<1>2. /\ c \in up /\ up' = up \ {c} /\ c # NoConn
      /\ s_conns[i] = c
      /\ \A j \in Slot : s_conns'[j] = IF j = i THEN NoConn ELSE s_conns[j]
    BY <1>1, RxFields DEF Disconnect, IsFirst, TypeOK, up
<1>3. /\ UNCHANGED <<rx, holed>> /\ meant' = meant \ {c}
      /\ s_controlling_conn' = Unless(c, s_controlling_conn)
      /\ s_pending_claim_conn' = Unless(c, s_pending_claim_conn)
      /\ \A d \in Conn : got'[d] = IF d = c THEN << >> ELSE got[d]
    BY DEF Disconnect, Empties, TypeOK
<1>4. TypeOK'
    <2>1. got' \in [Conn -> Seq(Piece)] /\ erred' \in [Conn -> Nat]
        BY EmptySeq DEF Disconnect, Empties, TypeOK
    <2>2. s_conns' \in [Slot -> ConnOrNone]
        BY <1>1 DEF TypeOK, ConnOrNone
    <2>3. room' \in [Conn -> 0 .. MaxChunk]
        <3>1. 0 \in 0 .. MaxChunk /\ room' = [room EXCEPT ![c] = 0]
            BY RxFields DEF Disconnect
        <3> QED  BY <3>1 DEF TypeOK
    <2> QED  BY <2>1, <2>2, <2>3, <1>3 DEF TypeOK, Unless, ConnOrNone
<1>5. RegistryInv'
    <2>1. \A j \in Slot : s_conns'[j] \in up' \cup {NoConn}
        BY <1>2 DEF RegistryInv
    <2>2. \A j, k \in Slot : s_conns'[j] = s_conns'[k] /\ s_conns'[j] # NoConn => j = k
        BY <1>2 DEF RegistryInv
    <2>3. ASSUME NEW d \in up' PROVE \E j \in Slot : s_conns'[j] = d
        <3>1. PICK j \in Slot : s_conns[j] = d
            BY <1>2 DEF RegistryInv
        <3> QED  BY <3>1, <1>2
    <2> QED  BY <2>1, <2>2, <2>3 DEF RegistryInv
<1>6. BindingInv'
    BY <1>2, <1>3 DEF BindingInv, Unless
<1>7. \A d \in meant' : d \in Conn /\ d # c /\ d # NoConn
    BY <1>3, RxFields DEF BindingInv
<1>8. \A d \in meant', j \in Slot : s_conns'[j] = d <=> s_conns[j] = d
    BY <1>2, <1>7
<1>9. /\ \A d \in meant' \ holed' :
            /\ Ahead(d)' => got'[d] = << >>
            /\ ~Ahead(d)' /\ Serving(d)' => HasUpTo(d, sent)'
            /\ ~Ahead(d)' /\ ~Serving(d)' => Covers(got'[d], rx'.len)
      /\ Calling' /\ rx'.then = "all" /\ rx'.conn \in meant' =>
             rx'.slot > 1 /\ s_conns'[rx'.slot - 1] = rx'.conn
    BY Undisturbed, <1>3, <1>7, <1>8
<1>10. TargetInv'
    BY <1>3, <1>9 DEF TargetInv, Calling, Unless
<1>11. ProgressInv'
    BY <1>3, <1>9 DEF ProgressInv
<1> QED  BY <1>4, <1>5, <1>6, <1>10, <1>11

LEMMA NegotiateInv == ASSUME IInv, NEW c \in Conn, Negotiate(c) PROVE IInv'
<1> USE DEF IInv
<1>1. PICK r \in room[c] .. MaxChunk : room' = [room EXCEPT ![c] = r]
    BY DEF Negotiate
<1>2. UNCHANGED <<s_conns, s_controlling_conn, s_pending_claim_conn, rx, got, erred, meant, holed>>
    BY DEF Negotiate, binding, inbox
<1>3. room' \in [Conn -> 0 .. MaxChunk] /\ up' = up
    BY <1>1, RxFields DEF Negotiate, TypeOK, up
<1>4. TypeOK' /\ RegistryInv' /\ BindingInv'
    BY <1>2, <1>3 DEF TypeOK, RegistryInv, BindingInv
<1>5. TargetInv' /\ ProgressInv'
    BY Undisturbed, <1>2 DEF TargetInv, ProgressInv, Calling
<1> QED  BY <1>4, <1>5

LEMMA ClaimInv == ASSUME IInv, NEW c \in Conn, Claim(c) PROVE IInv'
<1> USE DEF IInv
<1>1. /\ UNCHANGED <<s_conns, room, s_controlling_conn, rx, got, erred, holed>>
      /\ c \in up /\ s_pending_claim_conn' = c
      /\ meant' = IF rx.pc = "bind" THEN {c} ELSE meant
    BY DEF Claim, links, inbox
<1>2. up' = up
    BY <1>1 DEF up
<1>3. TypeOK' /\ RegistryInv' /\ BindingInv'
    BY <1>1, <1>2 DEF TypeOK, RegistryInv, BindingInv, ConnOrNone
<1>4. CASE rx.pc = "bind"
    <2>1. TargetInv'
        BY <1>1, <1>4 DEF TargetInv, Calling
    <2>2. \A d \in meant' \ holed' : got'[d] = << >> /\ Ahead(d)'
        BY <1>1, <1>4 DEF ProgressInv, Ahead
    <2>3. rx'.pc = "bind" => \A d \in Conn : got'[d] = << >>
        BY <1>1 DEF ProgressInv
    <2> QED  BY <1>3, <2>1, <2>2, <2>3 DEF ProgressInv
<1>5. CASE rx.pc # "bind"
    <2>1. TargetInv' /\ ProgressInv'
        BY Undisturbed, <1>1, <1>5 DEF TargetInv, ProgressInv, Calling
    <2> QED  BY <1>3, <2>1
<1> QED  BY <1>4, <1>5

LEMMA ReleaseInv == ASSUME IInv, NEW c \in Conn, Release(c) PROVE IInv'
<1> USE DEF IInv
<1>1. /\ UNCHANGED <<s_conns, room, s_pending_claim_conn, rx, got, erred, holed>>
      /\ s_controlling_conn = c /\ s_controlling_conn' = NoConn
      /\ meant' = IF rx.pc \in {"tell", "route"} THEN meant \ {c} ELSE meant
    BY DEF Release, links, inbox
<1>2. up' = up
    BY <1>1 DEF up
<1>3. TypeOK' /\ RegistryInv' /\ BindingInv'
    BY <1>1, <1>2 DEF TypeOK, RegistryInv, BindingInv, ConnOrNone
<1>4. TargetInv' /\ ProgressInv'
    BY Undisturbed, <1>1 DEF TargetInv, ProgressInv, Calling
<1> QED  BY <1>3, <1>4

LEMMA RejectInv == ASSUME IInv, NEW c \in Conn, Reject(c) PROVE IInv'
<1> USE DEF IInv
<1>1. /\ UNCHANGED <<s_conns, room, s_controlling_conn, s_pending_claim_conn, rx, got, meant, holed>>
      /\ erred' = [erred EXCEPT ![c] = Len(got[c])]
    BY DEF Reject, links, binding
<1>2. erred' \in [Conn -> Nat] /\ up' = up
    BY <1>1, LenProperties DEF TypeOK, up
<1>3. TypeOK' /\ RegistryInv' /\ BindingInv'
    BY <1>1, <1>2 DEF TypeOK, RegistryInv, BindingInv
<1>4. TargetInv' /\ ProgressInv'
    BY Undisturbed, <1>1 DEF TargetInv, ProgressInv, Calling
<1> QED  BY <1>3, <1>4

\* What is not of the receive task's own state stays as it is.
LEMMA OnlyRx ==
    ASSUME IInv, UNCHANGED <<links, binding, got, erred>>,
           rx' \in RxType, meant' \subseteq up, holed' \subseteq Conn
    PROVE  TypeOK' /\ RegistryInv' /\ BindingInv' /\ up' = up
<1>1. up' = up
    BY DEF up, links
<1> QED  BY <1>1, RxFields DEF IInv, TypeOK, RegistryInv, BindingInv, links, binding

LEMMA GoesTo ==
    ASSUME TypeOK, NEW len \in 0 .. MaxLen,
           NEW pc \in {"idle", "bind", "tell", "route", "all", "unbind"}, Goes(pc, len)
    PROVE  /\ rx' \in RxType
           /\ rx'.pc = pc /\ rx'.len = len /\ rx'.slot = 1
<1>1. /\ 1 \in 1 .. MaxConn + 1 /\ 0 \in 0 .. MaxChunk /\ 0 \in 0 .. MaxLen + MaxChunk
      /\ NoConn \in ConnOrNone
    BY RxFields DEF ConnOrNone
<1>2. rx' = [pc |-> pc, then |-> "idle", slot |-> 1, conn |-> NoConn,
             len |-> len, off |-> 0, chunk |-> 0]
    BY DEF Goes, RxIdle
<1> QED  BY <1>1, <1>2 DEF RxType

LEMMA TakeInv ==
    ASSUME IInv, NEW kind \in {"OK", "SESSION_END", "OTHER"}, NEW len \in 1 .. MaxLen,
           RxTake(kind, len)
    PROVE  IInv'
<1> USE DEF IInv
<1>1. /\ UNCHANGED <<links, binding>> /\ holed' = {}
      /\ got' = [c \in Conn |-> << >>] /\ erred' = [c \in Conn |-> 0]
    BY DEF RxTake
<1>2. len \in 0 .. MaxLen
    BY RxFields
<1>3. \E pc \in {"bind", "tell", "route", "all", "unbind"} :
        /\ Goes(pc, len)
        /\ pc = "bind" => meant' = {s_pending_claim_conn} /\ s_pending_claim_conn # NoConn
        /\ pc \in {"tell", "route"} => meant' = {s_controlling_conn} \cap up
        /\ pc = "all" => meant' = up
        /\ pc = "unbind" => meant' = {}
    BY DEF RxTake
<1>4. PICK pc \in {"bind", "tell", "route", "all", "unbind"} :
        /\ Goes(pc, len)
        /\ pc = "bind" => meant' = {s_pending_claim_conn} /\ s_pending_claim_conn # NoConn
        /\ pc \in {"tell", "route"} => meant' = {s_controlling_conn} \cap up
        /\ pc = "all" => meant' = up
        /\ pc = "unbind" => meant' = {}
    BY <1>3
<1>5. /\ rx' \in RxType
      /\ rx'.pc = pc /\ rx'.len = len /\ rx'.slot = 1
    BY <1>2, <1>4, GoesTo
<1>6. meant' \subseteq up
    BY <1>4 DEF BindingInv
<1>7. up' = up
    BY <1>1 DEF up, links
<1>8. TypeOK'
    <2>1. got' \in [Conn -> Seq(Piece)] /\ erred' \in [Conn -> Nat]
        BY <1>1, EmptySeq
    <2>2. meant' \subseteq Conn /\ holed' \subseteq Conn
        BY <1>1, <1>6 DEF up
    <2> QED  BY <1>1, <1>5, <2>1, <2>2 DEF TypeOK, links, binding
<1>9. RegistryInv' /\ BindingInv'
    BY <1>1, <1>6, <1>7 DEF RegistryInv, BindingInv, links, binding
<1>10. TargetInv'
    BY <1>1, <1>4, <1>5 DEF TargetInv, Calling, binding
<1>11. \A c \in meant' : Ahead(c)'
    <2> SUFFICES ASSUME NEW c \in meant' PROVE Ahead(c)'
        OBVIOUS
    <2>1. CASE pc \in {"bind", "tell", "route"}
        BY <2>1, <1>5 DEF Ahead
    <2>2. CASE pc = "all"
        <3>1. PICK i \in Slot : s_conns'[i] = c
            BY <1>6, <1>7, <1>9 DEF RegistryInv
        <3>2. i >= rx'.slot
            BY <1>5 DEF Slot
        <3> QED  BY <2>2, <3>1, <3>2, <1>5 DEF Ahead
    <2>3. CASE pc = "unbind"
        BY <2>3, <1>4
    <2> QED  BY <2>1, <2>2, <2>3
<1>12. \A c \in Conn : got'[c] = << >>
    BY <1>1
<1>13. ProgressInv'
    BY <1>6, <1>11, <1>12 DEF ProgressInv, up
<1> QED  BY <1>8, <1>9, <1>10, <1>13

\* A frame for one client: its call begins.
LEMMA NotifyTo ==
    ASSUME TypeOK, NEW c \in ConnOrNone, NEW then \in {"idle", "unbind"}, Notify(c, then)
    PROVE  /\ rx' \in RxType
           /\ rx'.pc = "mtu" /\ rx'.conn = c /\ rx'.then = then
           /\ rx'.len = rx.len
BY DEF TypeOK, Notify, RxType

LEMMA OneCall ==
    ASSUME IInv, NEW c \in ConnOrNone, NEW then \in {"idle", "unbind"}, Notify(c, then),
           rx.pc \in {"set", "tell", "route"}, meant \subseteq {c},
           UNCHANGED <<got, meant, holed>>
    PROVE  TargetInv' /\ ProgressInv'
<1>1. /\ rx'.pc = "mtu" /\ rx'.conn = c /\ rx'.then \in {"idle", "unbind"}
      /\ rx'.len = rx.len
    BY NotifyTo DEF IInv
<1>2. TargetInv'
    BY <1>1 DEF IInv, TargetInv, Calling
<1>3. \A d \in meant' \ holed' : got'[d] = << >> /\ ~Ahead(d)' /\ Serving(d)'
    BY <1>1 DEF IInv, ProgressInv, Ahead, Serving, Calling
<1>4. sent' = 0
    BY <1>1 DEF sent
<1> QED  BY <1>1, <1>2, <1>3, <1>4 DEF ProgressInv, HasUpTo

LEMMA BindReadInv == ASSUME IInv, BindRead PROVE IInv'
<1> USE DEF IInv
<1>1. /\ rx.pc = "bind" /\ rx' = [rx EXCEPT !.pc = "clear", !.conn = s_pending_claim_conn]
      /\ UNCHANGED <<links, binding, got, erred, meant, holed>>
    BY DEF BindRead, inbox
<1>2. /\ rx' \in RxType
      /\ rx'.pc = "clear" /\ rx'.conn = s_pending_claim_conn /\ rx'.len = rx.len
    BY <1>1 DEF TypeOK, RxType
<1>3. meant' \subseteq up /\ holed' \subseteq Conn
    BY <1>1 DEF BindingInv, TypeOK
<1>4. TypeOK' /\ RegistryInv' /\ BindingInv'
    BY <1>1, <1>2, <1>3, OnlyRx
<1>5. TargetInv'
    BY <1>1, <1>2 DEF TargetInv, Calling
<1>6. ProgressInv'
    BY <1>1, <1>2 DEF ProgressInv, Ahead
<1> QED  BY <1>4, <1>5, <1>6

LEMMA BindClearInv == ASSUME IInv, BindClear PROVE IInv'
<1> USE DEF IInv
<1>1. /\ rx.pc = "clear" /\ rx' = [rx EXCEPT !.pc = "set"] /\ s_pending_claim_conn' = NoConn
      /\ UNCHANGED <<s_conns, room, s_controlling_conn, got, erred, meant, holed>>
    BY DEF BindClear, links, inbox
<1>2. /\ rx' \in RxType
      /\ rx'.pc = "set" /\ rx'.conn = rx.conn /\ rx'.len = rx.len
    BY <1>1 DEF TypeOK, RxType
<1>3. up' = up
    BY <1>1 DEF up
<1>4. TypeOK' /\ RegistryInv' /\ BindingInv'
    BY <1>1, <1>2, <1>3 DEF TypeOK, RegistryInv, BindingInv, ConnOrNone
<1>5. TargetInv'
    BY <1>1, <1>2 DEF TargetInv, Calling
<1>6. ProgressInv'
    BY <1>1, <1>2 DEF ProgressInv, Ahead
<1> QED  BY <1>4, <1>5, <1>6

LEMMA BindSetInv == ASSUME IInv, BindSet PROVE IInv'
<1> USE DEF IInv
<1>1. /\ Notify(rx.conn, "idle") /\ rx.pc = "set" /\ s_controlling_conn' = rx.conn
      /\ UNCHANGED <<s_conns, room, s_pending_claim_conn, got, erred, meant, holed>>
    BY DEF BindSet, links, inbox
<1>2. rx.conn \in ConnOrNone
    BY RxFields
<1>3. rx' \in RxType
    BY <1>1, <1>2, NotifyTo
<1>4. up' = up
    BY <1>1 DEF up
<1>5. TypeOK' /\ RegistryInv' /\ BindingInv'
    BY <1>1, <1>2, <1>3, <1>4 DEF TypeOK, RegistryInv, BindingInv
<1>6. TargetInv' /\ ProgressInv'
    BY <1>1, <1>2, OneCall DEF TargetInv
<1> QED  BY <1>5, <1>6

LEMMA AddressInv == ASSUME IInv, Address PROVE IInv'
<1> USE DEF IInv
<1>1. PICK then \in {"idle", "unbind"} :
        /\ Notify(s_controlling_conn, then) /\ rx.pc \in {"tell", "route"}
        /\ UNCHANGED <<links, binding, got, erred, meant, holed>>
    BY DEF Address, inbox
<1>2. s_controlling_conn \in ConnOrNone
    BY DEF TypeOK
<1>3. rx' \in RxType
    BY <1>1, <1>2, NotifyTo
<1>4. meant' \subseteq up /\ holed' \subseteq Conn
    BY <1>1 DEF BindingInv, TypeOK
<1>5. TypeOK' /\ RegistryInv' /\ BindingInv'
    BY <1>1, <1>3, <1>4, OnlyRx
<1>6. TargetInv' /\ ProgressInv'
    BY <1>1, <1>2, OneCall DEF TargetInv
<1> QED  BY <1>5, <1>6

\* The task is done with a frame, or has only the binding to clear.
LEMMA Finished ==
    ASSUME IInv, NEW pc \in {"idle", "unbind"}, rx'.pc = pc, rx'.len = rx.len,
           pc = "unbind" => rx.len >= 1,
           UNCHANGED <<got, meant, holed>>,
           \A c \in meant \ holed : Covers(got[c], rx.len)
    PROVE  TargetInv' /\ ProgressInv'
BY DEF TargetInv, ProgressInv, Calling, Ahead, Serving

LEMMA UnbindInv == ASSUME IInv, Unbind PROVE IInv'
<1> USE DEF IInv
<1>1. /\ rx.pc = "unbind" /\ s_controlling_conn' = NoConn /\ Goes("idle", rx.len)
      /\ UNCHANGED <<s_conns, room, s_pending_claim_conn, got, erred, meant, holed>>
    BY DEF Unbind, Returns, links, inbox
<1>2. /\ rx' \in RxType
      /\ rx'.pc = "idle" /\ rx'.len = rx.len
    BY <1>1, RxFields, GoesTo
<1>3. up' = up
    BY <1>1 DEF up
<1>4. TypeOK' /\ RegistryInv' /\ BindingInv'
    BY <1>1, <1>2, <1>3 DEF TypeOK, RegistryInv, BindingInv, ConnOrNone
<1>5. \A c \in meant \ holed : Covers(got[c], rx.len)
    BY <1>1 DEF ProgressInv, Ahead, Serving, Calling
<1>6. TargetInv' /\ ProgressInv'
    BY <1>1, <1>2, <1>5, Finished
<1> QED  BY <1>4, <1>6

LEMMA NotifyAllInv == ASSUME IInv, NotifyAll PROVE IInv'
<1> USE DEF IInv
<1>1. rx.pc = "all" /\ UNCHANGED <<links, binding, got, erred, meant, holed>>
    BY DEF NotifyAll, inbox
<1>2. meant' \subseteq up /\ holed' \subseteq Conn /\ s_conns' = s_conns
    BY <1>1 DEF BindingInv, TypeOK, links
<1>3. \A c \in meant : c \in Conn /\ c # NoConn /\ \E i \in Slot : s_conns[i] = c
    BY RxFields DEF BindingInv, RegistryInv
<1>4. CASE rx.slot > MaxConn /\ Returns
    <2>1. /\ rx' \in RxType
          /\ rx'.pc = "idle" /\ rx'.len = rx.len
        BY <1>4, RxFields, GoesTo DEF Returns
    <2>2. \A c \in meant \ holed : ~Ahead(c) /\ ~Serving(c)
        BY <1>1, <1>4, RxFields DEF Ahead, Serving, Calling, Slot
    <2>3. \A c \in meant \ holed : Covers(got[c], rx.len)
        BY <2>2 DEF ProgressInv
    <2>4. TargetInv' /\ ProgressInv'
        BY <2>1, <2>3, <1>1, Finished
    <2>5. TypeOK' /\ RegistryInv' /\ BindingInv'
        BY <2>1, <1>1, <1>2, OnlyRx
    <2> QED  BY <2>4, <2>5
<1>5. CASE rx.slot <= MaxConn /\ s_conns[rx.slot] = NoConn /\ rx' = [rx EXCEPT !.slot = @ + 1]
    <2>1. /\ rx' \in RxType
          /\ rx'.pc = "all" /\ rx'.len = rx.len /\ rx'.slot = rx.slot + 1
        <3>1. rx.slot + 1 \in 1 .. MaxConn + 1
            BY <1>5, RxFields
        <3> QED  BY <3>1, <1>1, <1>5 DEF TypeOK, RxType
    <2>2. TypeOK' /\ RegistryInv' /\ BindingInv'
        BY <2>1, <1>1, <1>2, OnlyRx
    <2>3. TargetInv'
        BY <2>1, <1>1 DEF TargetInv, Calling
    <2>4. \A c \in meant : Ahead(c)' = Ahead(c)
        <3> SUFFICES ASSUME NEW c \in meant PROVE Ahead(c)' = Ahead(c)
            OBVIOUS
        <3>1. \A i \in Slot : s_conns[i] = c => (i >= rx.slot + 1 <=> i >= rx.slot)
            BY <1>3, <1>5, RxFields DEF Slot
        <3> QED  BY <3>1, <2>1, <1>1, <1>2 DEF Ahead, Calling
    <2>5. \A c \in meant : ~Serving(c) /\ ~Serving(c)'
        BY <2>1, <1>1 DEF Serving, Calling
    <2>6. ProgressInv'
        BY <2>1, <2>4, <2>5, <1>1 DEF ProgressInv
    <2> QED  BY <2>2, <2>3, <2>6
<1>6. CASE /\ rx.slot <= MaxConn /\ s_conns[rx.slot] # NoConn
           /\ rx' = [rx EXCEPT !.slot = @ + 1, !.pc = "mtu", !.then = "all",
                               !.conn = s_conns[rx.slot]]
    <2>1. rx.slot \in Slot /\ s_conns[rx.slot] \in ConnOrNone
        BY <1>6, RxFields DEF TypeOK, Slot
    <2>2. /\ rx' \in RxType
          /\ rx'.pc = "mtu" /\ rx'.len = rx.len /\ rx'.slot = rx.slot + 1
          /\ rx'.then = "all" /\ rx'.conn = s_conns[rx.slot]
        <3>1. rx.slot + 1 \in 1 .. MaxConn + 1
            BY <1>6, RxFields
        <3> QED  BY <3>1, <2>1, <1>6 DEF TypeOK, RxType
    <2>3. TypeOK' /\ RegistryInv' /\ BindingInv'
        BY <2>2, <1>1, <1>2, OnlyRx
    <2>4. TargetInv'
        <3>1. rx'.slot > 1 /\ rx'.slot - 1 = rx.slot
            BY <2>2, RxFields
        <3> QED  BY <3>1, <2>2, <1>1, <1>2 DEF TargetInv, Calling
    <2>5. ASSUME NEW c \in meant \ holed
          PROVE  IF c = s_conns[rx.slot] THEN ~Ahead(c)' /\ Serving(c)' /\ got[c] = << >>
                 ELSE Ahead(c)' = Ahead(c) /\ ~Serving(c)' /\ ~Serving(c)
        <3>1. CASE c = s_conns[rx.slot]
            <4>1. \A i \in Slot : s_conns[i] = c => i = rx.slot
                BY <3>1, <2>1, <1>6 DEF RegistryInv
            <4>2. ~Ahead(c)' /\ Serving(c)'
                BY <4>1, <3>1, <2>2, <1>2, RxFields DEF Ahead, Serving, Calling, Slot
            <4>3. Ahead(c)
                BY <3>1, <2>1, <1>1, RxFields DEF Ahead, Slot
            <4> QED  BY <3>1, <4>2, <4>3, <2>5 DEF ProgressInv
        <3>2. CASE c # s_conns[rx.slot]
            <4>1. \A i \in Slot : s_conns[i] = c => (i >= rx.slot + 1 <=> i >= rx.slot)
                BY <3>2, RxFields DEF Slot
            <4>2. Ahead(c)' = Ahead(c)
                BY <4>1, <2>2, <1>1, <1>2 DEF Ahead, Calling
            <4>3. ~Serving(c)' /\ ~Serving(c)
                BY <3>2, <2>2, <1>1 DEF Serving, Calling
            <4> QED  BY <3>2, <4>2, <4>3
        <3> QED  BY <3>1, <3>2
    <2>6. sent' = 0
        BY <2>2 DEF sent
    <2>7. ProgressInv'
        BY <2>2, <2>5, <2>6, <1>1 DEF ProgressInv, HasUpTo
    <2> QED  BY <2>3, <2>4, <2>7
<1> QED  BY <1>4, <1>5, <1>6 DEF NotifyAll

LEMMA ReadMtuInv == ASSUME IInv, ReadMtu PROVE IInv'
<1> USE DEF IInv
<1>1. rx.pc = "mtu" /\ UNCHANGED <<links, binding, got, erred, meant, holed>>
    BY DEF ReadMtu, inbox
<1>2. chunk_for(rx.conn) \in 1 .. MaxChunk
    <2>1. 1 \in 1 .. MaxChunk
        BY RxFields
    <2>2. \A c \in up : room[c] \in 1 .. MaxChunk
        BY RxFields DEF TypeOK, up
    <2> QED  BY <2>1, <2>2 DEF chunk_for
<1>3. rx' = [rx EXCEPT !.pc = "chunk", !.off = 0, !.chunk = chunk_for(rx.conn)]
    BY DEF ReadMtu
<1>4. /\ rx' \in RxType
      /\ rx'.pc = "chunk" /\ rx'.off = 0 /\ rx'.chunk >= 1
      /\ rx'.then = rx.then /\ rx'.slot = rx.slot /\ rx'.conn = rx.conn /\ rx'.len = rx.len
    <2>1. rx' \in RxType
        <3>1. chunk_for(rx.conn) \in 0 .. MaxChunk /\ 0 \in 0 .. MaxLen + MaxChunk
            BY <1>2, RxFields
        <3> QED  BY <3>1, <1>3 DEF TypeOK, RxType
    <2>2. chunk_for(rx.conn) >= 1
        BY <1>2
    <2> QED  BY <2>1, <2>2, <1>3 DEF TypeOK, RxType
<1>5. meant' \subseteq up /\ holed' \subseteq Conn /\ s_conns' = s_conns
    BY <1>1 DEF BindingInv, TypeOK, links
<1>6. TypeOK' /\ RegistryInv' /\ BindingInv'
    BY <1>1, <1>4, <1>5, OnlyRx
<1>7. TargetInv'
    BY <1>1, <1>4, <1>5 DEF TargetInv, Calling
<1>8. \A c \in meant : Ahead(c)' = Ahead(c) /\ Serving(c)' = Serving(c)
    BY <1>1, <1>4, <1>5 DEF Ahead, Serving, Calling
<1>9. sent = 0 /\ sent' = 0
    BY <1>1, <1>4, RxFields DEF sent, TargetInv
<1>10. ProgressInv'
    BY <1>1, <1>4, <1>8, <1>9 DEF ProgressInv, HasUpTo
<1> QED  BY <1>6, <1>7, <1>10

LEMMA SendChunkInv == ASSUME IInv, SendChunk PROVE IInv'
<1> USE DEF IInv
<1>1. /\ rx.pc = "chunk" /\ rx.off < rx.len
      /\ rx' = [rx EXCEPT !.off = @ + rx.chunk]
      /\ UNCHANGED <<links, binding, erred, meant>>
    BY DEF SendChunk
<1>2. /\ rx' \in RxType
      /\ rx'.pc = "chunk" /\ rx'.off = rx.off + rx.chunk /\ rx'.chunk = rx.chunk
      /\ rx'.then = rx.then /\ rx'.slot = rx.slot /\ rx'.conn = rx.conn /\ rx'.len = rx.len
    <2>1. rx.off + rx.chunk \in 0 .. MaxLen + MaxChunk
        BY <1>1, RxFields
    <2> QED  BY <2>1, <1>1 DEF TypeOK, RxType
<1>3. up' = up /\ s_conns' = s_conns
    BY <1>1 DEF up, links
<1>4. /\ rx.off \in 0 .. MaxLen - 1
      /\ this_chunk \in 1 .. MaxChunk
      /\ sent = rx.off /\ sent' = rx.off + this_chunk
      /\ rx.off + this_chunk \in Nat \ {0}
    <2>1. rx.chunk \in 1 .. MaxChunk /\ rx.off \in Nat /\ rx.len \in Nat /\ rx.len <= MaxLen
        BY <1>1, RxFields DEF TargetInv
    <2> QED  BY <2>1, <1>1, <1>2, RxFields DEF this_chunk, sent
<1>5. /\ got' \in [Conn -> Seq(Piece)] /\ holed' \subseteq Conn /\ holed \subseteq holed'
      /\ \A c \in Conn : c # rx.conn => got'[c] = got[c]
      /\ rx.conn \in Conn \ holed' =>
             got'[rx.conn] = Append(got[rx.conn], [off |-> rx.off, n |-> this_chunk])
    <2>1. CASE /\ rx.conn \in up
               /\ got' = [got EXCEPT ![rx.conn] = Append(@, [off |-> rx.off, n |-> this_chunk])]
               /\ UNCHANGED holed
        <3>1. [off |-> rx.off, n |-> this_chunk] \in Piece
            BY <1>4 DEF Piece
        <3>2. rx.conn \in Conn /\ got[rx.conn] \in Seq(Piece)
            BY <2>1, RxFields DEF TypeOK
        <3>3. Append(got[rx.conn], [off |-> rx.off, n |-> this_chunk]) \in Seq(Piece)
            BY <3>1, <3>2, AppendProperties
        <3>4. got' \in [Conn -> Seq(Piece)]
            BY <2>1, <3>3 DEF TypeOK
        <3> QED  BY <2>1, <3>2, <3>4 DEF TypeOK
    <2>2. CASE holed' = holed \cup ({rx.conn} \cap Conn) /\ UNCHANGED got
        BY <2>2 DEF TypeOK
    <2> QED  BY <2>1, <2>2 DEF SendChunk
<1>6. TypeOK' /\ RegistryInv' /\ BindingInv'
    <2>1. TypeOK'
        BY <1>1, <1>2, <1>5 DEF TypeOK, links, binding
    <2> QED  BY <2>1, <1>1, <1>3 DEF RegistryInv, BindingInv, binding
<1>7. TargetInv'
    BY <1>1, <1>2, <1>3 DEF TargetInv, Calling
<1>8. \A c \in meant : Ahead(c)' = Ahead(c) /\ Serving(c)' = Serving(c)
    BY <1>1, <1>2, <1>3 DEF Ahead, Serving, Calling
<1>9. \A c \in meant \ holed : Serving(c) => ~Ahead(c)
    <2> SUFFICES ASSUME NEW c \in meant, Serving(c), Ahead(c) PROVE FALSE
        OBVIOUS
    <2>1. /\ rx.then = "all" /\ rx.conn = c
          /\ rx.slot - 1 \in Slot /\ s_conns[rx.slot - 1] = c
        BY <1>1, RxFields DEF Serving, Ahead, Calling, TargetInv, Slot
    <2>2. PICK i \in Slot : s_conns[i] = c /\ i >= rx.slot
        BY <1>1 DEF Ahead
    <2>3. c # NoConn
        BY RxFields DEF BindingInv
    <2>4. i = rx.slot - 1
        BY <2>1, <2>2, <2>3 DEF RegistryInv
    <2> QED  BY <2>2, <2>4, RxFields DEF Slot
<1>10. ASSUME NEW c \in meant' \ holed'
       PROVE  /\ Ahead(c)' => got'[c] = << >>
              /\ ~Ahead(c)' /\ Serving(c)' => HasUpTo(c, sent)'
              /\ ~Ahead(c)' /\ ~Serving(c)' => Covers(got'[c], rx'.len)
    <2>1. c \in meant \ holed /\ c \in Conn
        BY <1>1, <1>5, <1>10, RxFields DEF BindingInv
    <2>2. CASE Serving(c)
        <3>1. rx.conn = c /\ ~Ahead(c)
            BY <2>1, <2>2, <1>9 DEF Serving
        <3>2. IF rx.off = 0 THEN got[c] = << >> ELSE Covers(got[c], rx.off)
            BY <2>1, <2>2, <3>1, <1>4 DEF ProgressInv, HasUpTo
        <3>3. got[c] \in Seq(Piece)
            BY <2>1 DEF TypeOK
        <3>4. Covers(Append(got[c], [off |-> rx.off, n |-> this_chunk]), rx.off + this_chunk)
            BY <3>2, <3>3, <1>4, CoversMore
        <3>5. got'[c] = Append(got[c], [off |-> rx.off, n |-> this_chunk])
            BY <2>1, <3>1, <1>5, <1>10
        <3>6. Covers(got'[c], sent') /\ sent' # 0
            BY <3>4, <3>5, <1>4
        <3>7. HasUpTo(c, sent)'
            BY <3>6 DEF HasUpTo
        <3> QED  BY <3>1, <3>7, <2>1, <2>2, <1>1, <1>8
    <2>3. CASE ~Serving(c)
        <3>1. got'[c] = got[c]
            BY <2>1, <2>3, <1>1, <1>5 DEF Serving, Calling
        <3> QED  BY <2>1, <2>3, <3>1, <1>1, <1>2, <1>8 DEF ProgressInv
    <2> QED  BY <2>2, <2>3
<1>11. ProgressInv'
    BY <1>2, <1>10 DEF ProgressInv
<1> QED  BY <1>6, <1>7, <1>11

LEMMA NotifiedInv == ASSUME IInv, Notified PROVE IInv'
<1> USE DEF IInv
<1>1. /\ rx.pc = "chunk" /\ rx.off >= rx.len
      /\ UNCHANGED <<links, binding, got, erred, meant, holed>>
    BY DEF Notified, inbox
<1>2. meant' \subseteq up /\ holed' \subseteq Conn /\ s_conns' = s_conns
    BY <1>1 DEF BindingInv, TypeOK, links
<1>3. sent = rx.len /\ rx.len >= 1 /\ rx.len # 0
    BY <1>1, RxFields DEF sent, TargetInv
<1>4. \A c \in meant \ holed : ~Ahead(c) => Covers(got[c], rx.len)
    BY <1>3 DEF ProgressInv, HasUpTo
<1>5. CASE rx.then \in {"idle", "unbind"}
    <2>1. /\ rx' \in RxType
          /\ rx'.pc = rx.then /\ rx'.len = rx.len
        <3>1. CASE rx.then = "idle"
            BY <3>1, <1>5, RxFields, GoesTo DEF Notified, Returns
        <3>2. CASE rx.then = "unbind"
            BY <3>2, <1>5, RxFields DEF Notified, TypeOK, RxType
        <3> QED  BY <1>5, <3>1, <3>2
    <2>2. \A c \in meant \ holed : Covers(got[c], rx.len)
        BY <1>1, <1>4, <1>5 DEF Ahead, Calling
    <2>3. TargetInv' /\ ProgressInv'
        BY <2>1, <2>2, <1>1, <1>3, <1>5, Finished
    <2>4. TypeOK' /\ RegistryInv' /\ BindingInv'
        BY <2>1, <1>1, <1>2, OnlyRx
    <2> QED  BY <2>3, <2>4
<1>6. CASE rx.then = "all"
    <2>1. /\ rx' \in RxType
          /\ rx'.pc = "all" /\ rx'.len = rx.len /\ rx'.slot = rx.slot
        BY <1>6, RxFields DEF Notified, TypeOK, RxType
    <2>2. TypeOK' /\ RegistryInv' /\ BindingInv'
        BY <2>1, <1>1, <1>2, OnlyRx
    <2>3. TargetInv'
        BY <2>1, <1>3 DEF TargetInv, Calling
    <2>4. \A c \in meant : Ahead(c)' = Ahead(c) /\ ~Serving(c)'
        BY <2>1, <1>1, <1>2, <1>6 DEF Ahead, Serving, Calling
    <2>5. ProgressInv'
        BY <2>1, <2>4, <1>1, <1>4 DEF ProgressInv
    <2> QED  BY <2>2, <2>3, <2>5
<1> QED  BY <1>5, <1>6, RxFields

LEMMA StepInv == IInv /\ [Next]_vars => IInv'
<1> SUFFICES ASSUME IInv, [Next]_vars PROVE IInv'
    OBVIOUS
<1>1. CASE HostActs
    BY <1>1, ConnectInv, DisconnectInv, NegotiateInv, ClaimInv, ReleaseInv, RejectInv
    DEF HostActs
<1>2. CASE RxRuns
    BY <1>2, BindReadInv, BindClearInv, BindSetInv, AddressInv, UnbindInv, NotifyAllInv, ReadMtuInv, SendChunkInv, NotifiedInv
    DEF RxRuns
<1>3. CASE \E kind \in {"OK", "SESSION_END", "OTHER"}, len \in 1 .. MaxLen : RxTake(kind, len)
    BY <1>3, TakeInv
<1>4. CASE UNCHANGED vars
    <2>1. UNCHANGED <<s_conns, room, s_controlling_conn, s_pending_claim_conn, rx, got, erred,
                      meant, holed>>
        BY <1>4 DEF vars, links, binding, inbox
    <2>2. TypeOK' /\ RegistryInv' /\ BindingInv'
        BY <2>1 DEF IInv, TypeOK, RegistryInv, BindingInv, up
    <2>3. TargetInv' /\ ProgressInv'
        BY <2>1, Undisturbed DEF IInv, TargetInv, ProgressInv, Calling
    <2> QED  BY <2>2, <2>3 DEF IInv
<1> QED  BY <1>1, <1>2, <1>3, <1>4 DEF Next

\* The invariant says of a client the task is through with what Delivered says.
LEMMA ServedIsWhole == IInv => Delivered
<1> SUFFICES ASSUME IInv, NEW c \in meant \ holed, ServedBy(c) PROVE Covers(got[c], rx.len)
    BY DEF Delivered
<1>1. ~Serving(c)
    BY DEF ServedBy, Serving, Calling
<1>2. ~Ahead(c)
    <2> SUFFICES ASSUME Ahead(c) PROVE FALSE
        OBVIOUS
    <2>1. rx.pc = "all" /\ \A i \in Slot : s_conns[i] = c => i < rx.slot
        BY DEF ServedBy, Ahead, Calling
    <2>2. PICK i \in Slot : s_conns[i] = c /\ i >= rx.slot
        BY <2>1 DEF Ahead
    <2> QED  BY <2>1, <2>2, RxFields DEF IInv, Slot
<1> QED  BY <1>1, <1>2 DEF IInv, ProgressInv

\* The receive task's locals keep their ranges; in particular a chunk is never
\* longer than the link's MTU allows and the broadcast never leaves s_conns.
THEOREM TypeCorrect == Spec => []TypeOK
<1>1. IInv => TypeOK
    BY DEF IInv
<1> QED  BY <1>1, InitInv, StepInv, PTL DEF Spec

\* al1_ble_notify_all and al1_ble_notify_conn bring a frame whole, once and in
\* order to each client it is for, for any number of links, MTUs and lengths.
THEOREM AlwaysDelivered == Spec => []Delivered
BY ServedIsWhole, InitInv, StepInv, PTL DEF Spec

(***************************************************************************)
(* What bounds the loops of the receive task: the variant ReceiverReturns  *)
(* rests on.                                                               *)
(***************************************************************************)

\* More than one call of al1_ble_notify_conn can take, its loop's turn included.
Turn == MaxLen + 3

\* The steps the receive task may still take once al1_ble_notify_conn returns.
After(pc) == CASE pc = "idle"   -> 0
               [] pc = "unbind" -> 1
               [] pc = "all"    -> 1 + (MaxConn + 1 - rx.slot) * Turn

\* The steps it may still take with the frame it has.
Work == CASE rx.pc = "chunk" -> After(rx.then) + 1 + (IF rx.off < rx.len THEN rx.len - rx.off ELSE 0)
          [] rx.pc = "mtu"   -> After(rx.then) + rx.len + 2
          [] rx.pc = "bind"  -> rx.len + 6
          [] rx.pc = "clear" -> rx.len + 5
          [] rx.pc \in {"set", "tell", "route"} -> rx.len + 4
          [] OTHER           -> After(rx.pc)

MostWork == 1 + (MaxConn + 1) * Turn

\* Every step of the receive task leaves it less to do, and no step of the host
\* task adds to it, whatever links it opens and closes under the broadcast and
\* whatever MTU it negotiates between two chunks; a frame starts it with a bounded
\* amount.
ReceiverAdvances ==
    [][/\ Work' \in 0 .. MostWork
       /\ RxRuns => Work' < Work
       /\ rx.pc # "idle" /\ ~RxRuns => Work' = Work]_vars

LEMMA Times ==
    ASSUME NEW a \in Nat, NEW b \in Nat, NEW k \in Nat, a <= b
    PROVE  /\ a * k \in Nat /\ a * k <= b * k
           /\ (a + 1) * k = a * k + k
OBVIOUS

\* What is left after a call, and that a broadcast's next turn is one less.
LEMMA AfterCall ==
    ASSUME TypeOK
    PROVE  /\ Turn \in Nat /\ Turn = MaxLen + 3
           /\ MostWork \in Nat /\ MostWork >= 1 + MaxConn * Turn + Turn
           /\ After("idle") = 0 /\ After("unbind") = 1
           /\ After("all") \in Nat /\ After("all") >= 1
           /\ After("all") <= 1 + MaxConn * Turn
           /\ MaxConn * Turn \in Nat /\ MaxConn * Turn >= Turn
           /\ rx.slot <= MaxConn /\ rx'.slot = rx.slot + 1 => After("all")' + Turn = After("all")
<1> DEFINE left == MaxConn + 1 - rx.slot
<1>1. left \in Nat /\ left <= MaxConn /\ MaxConn \in Nat /\ MaxLen \in Nat
    BY RxFields
<1>2. Turn \in Nat /\ Turn = MaxLen + 3
    BY <1>1 DEF Turn
<1>3. /\ left * Turn \in Nat /\ left * Turn <= MaxConn * Turn /\ MaxConn * Turn \in Nat
      /\ (MaxConn + 1) * Turn = MaxConn * Turn + Turn
      /\ MaxConn * Turn >= Turn
    <2>1. 1 <= MaxConn /\ 1 \in Nat
        BY RxFields
    <2>2. 1 * Turn <= MaxConn * Turn
        BY <1>1, <1>2, <2>1, Times
    <2> QED  BY <1>1, <1>2, <2>2, Times
<1>4. After("all") = 1 + left * Turn /\ After("idle") = 0 /\ After("unbind") = 1
    BY DEF After
<1>5. ASSUME rx.slot <= MaxConn, rx'.slot = rx.slot + 1
      PROVE  After("all")' + Turn = After("all")
    <2>1. After("all")' = 1 + (MaxConn + 1 - rx'.slot) * Turn
        BY DEF After, Turn
    <2>2. MaxConn + 1 - rx'.slot \in Nat /\ left = (MaxConn + 1 - rx'.slot) + 1
        BY <1>1, <1>5, RxFields
    <2>3. /\ (MaxConn + 1 - rx'.slot) * Turn \in Nat
          /\ left * Turn = (MaxConn + 1 - rx'.slot) * Turn + Turn
        BY <1>2, <2>2, Times
    <2> QED  BY <1>2, <1>4, <2>1, <2>3
<1>6. MostWork \in Nat /\ MostWork >= 1 + MaxConn * Turn + Turn
    BY <1>2, <1>3 DEF MostWork
<1> HIDE DEF left
<1> QED  BY <1>2, <1>3, <1>4, <1>5, <1>6

\* How Work reads at each point of the receive task.
WorkTable ==
    /\ After("idle") = 0 /\ After("unbind") = 1
    /\ After("all") \in Nat /\ After("all") >= 1
    /\ After(rx.then) \in Nat /\ After(rx.then) <= 1 + MaxConn * Turn
    /\ rx.pc = "idle" => Work = 0
    /\ rx.pc = "unbind" => Work = 1
    /\ rx.pc = "all" => Work = After("all")
    /\ rx.pc = "bind" => Work = rx.len + 6
    /\ rx.pc = "clear" => Work = rx.len + 5
    /\ rx.pc \in {"set", "tell", "route"} => Work = rx.len + 4
    /\ rx.pc = "mtu" => Work = After(rx.then) + rx.len + 2
    /\ rx.pc = "chunk" /\ rx.off < rx.len => Work = After(rx.then) + 1 + (rx.len - rx.off)
    /\ rx.pc = "chunk" /\ rx.off >= rx.len => Work = After(rx.then) + 1
    /\ Work \in 0 .. MostWork

LEMMA WorkAt == ASSUME TypeOK PROVE WorkTable
<1>1. /\ After(rx.then) \in Nat /\ After(rx.then) <= 1 + MaxConn * Turn
    BY AfterCall, RxFields
<1>2. /\ rx.pc = "idle" => Work = 0
      /\ rx.pc = "unbind" => Work = 1
      /\ rx.pc = "all" => Work = After("all")
    BY AfterCall DEF Work
<1>3. /\ rx.pc = "bind" => Work = rx.len + 6
      /\ rx.pc = "clear" => Work = rx.len + 5
      /\ rx.pc \in {"set", "tell", "route"} => Work = rx.len + 4
      /\ rx.pc = "mtu" => Work = After(rx.then) + rx.len + 2
    BY DEF Work
<1>4. /\ rx.pc = "chunk" /\ rx.off < rx.len => Work = After(rx.then) + 1 + (rx.len - rx.off)
      /\ rx.pc = "chunk" /\ rx.off >= rx.len => Work = After(rx.then) + 1
    BY RxFields, <1>1 DEF Work
<1>5. Work \in 0 .. MostWork
    BY <1>1, <1>2, <1>3, <1>4, AfterCall, RxFields
<1> QED  BY <1>1, <1>2, <1>3, <1>4, <1>5, AfterCall DEF WorkTable

LEMMA WorkAtNext == TypeOK' => WorkTable'
<1>1. TypeOK => WorkTable
    BY WorkAt
<1> QED  BY <1>1, PTL

LEMMA RxFieldsNext ==
    ASSUME TypeOK'
    PROVE  /\ rx'.pc \in {"idle", "bind", "clear", "set", "tell", "route", "all", "mtu", "chunk",
                           "unbind"}
           /\ rx'.then \in {"idle", "all", "unbind"}
           /\ rx'.len \in 0 .. MaxLen /\ rx'.off \in Nat
BY DeliveryAssumption DEF TypeOK, RxType

\* A step of the receive task leaves it less to do.
LEMMA RxWorks ==
    ASSUME IInv, IInv', RxRuns
    PROVE  Work' < Work
<1>1. /\ TypeOK /\ TypeOK' /\ WorkTable /\ WorkTable'
      /\ Turn \in Nat /\ Turn = MaxLen + 3
    BY WorkAt, WorkAtNext, AfterCall DEF IInv
<1>2. /\ Work \in Nat /\ Work' \in Nat
      /\ rx'.pc = "idle" => Work' = 0
      /\ rx.pc # "idle" => Work >= 1
    BY <1>1, RxFields DEF WorkTable
<1>3. ASSUME rx.pc \in {"set", "tell", "route"}, NEW c, NEW then \in {"idle", "unbind"},
             Notify(c, then)
      PROVE  Work' < Work
    <2>1. rx'.pc = "mtu" /\ rx'.then = then /\ rx'.len = rx.len
        BY <1>1, <1>3 DEF Notify, TypeOK, RxType
    <2>2. Work' = After(then)' + rx.len + 2 /\ After(then)' <= 1 /\ After(then)' \in Nat
        BY <1>1, <2>1 DEF WorkTable
    <2> QED  BY <1>1, <1>3, <2>2, RxFields DEF WorkTable
<1>4. CASE BindRead \/ BindClear \/ BindSet
    <2>1. CASE BindRead
        <3>1. rx.pc = "bind" /\ rx'.pc = "clear" /\ rx'.len = rx.len
            BY <1>1, <2>1 DEF BindRead, TypeOK, RxType
        <3> QED  BY <1>1, <3>1, RxFields DEF WorkTable
    <2>2. CASE BindClear
        <3>1. rx.pc = "clear" /\ rx'.pc = "set" /\ rx'.len = rx.len
            BY <1>1, <2>2 DEF BindClear, TypeOK, RxType
        <3> QED  BY <1>1, <3>1, RxFields DEF WorkTable
    <2>3. CASE BindSet
        BY <1>3, <2>3 DEF BindSet
    <2> QED  BY <1>4, <2>1, <2>2, <2>3
<1>5. CASE Address
    BY <1>3, <1>5 DEF Address
<1>6. CASE Unbind
    BY <1>1, <1>2, <1>6, GoesTo, RxFields DEF Unbind, Returns
<1>7. CASE NotifyAll
    <2>1. CASE rx.slot > MaxConn
        <3>1. rx.pc = "all" /\ rx'.pc = "idle"
            BY <1>1, <1>7, <2>1, GoesTo, RxFields DEF NotifyAll, Returns
        <3> QED  BY <1>2, <3>1
    <2>2. CASE rx.slot <= MaxConn
        <3>1. /\ rx.pc = "all" /\ rx.slot \in Nat /\ ~(rx.slot > MaxConn)
              /\ \/ rx' = [rx EXCEPT !.slot = @ + 1]
                 \/ rx' = [rx EXCEPT !.slot = @ + 1, !.pc = "mtu", !.then = "all",
                                     !.conn = s_conns[rx.slot]]
            BY <1>1, <1>7, <2>2, RxFields DEF NotifyAll
        <3>2. /\ rx.pc = "all" /\ rx'.slot = rx.slot + 1 /\ rx'.len = rx.len
              /\ rx'.pc = "all" \/ (rx'.pc = "mtu" /\ rx'.then = "all")
            BY <1>1, <3>1 DEF TypeOK, RxType
        <3>3. After("all")' + Turn = After("all") /\ Turn = rx.len + (MaxLen - rx.len) + 3
            BY <1>1, <2>2, <3>2, AfterCall, RxFields
        <3>4. After("all")' \in Nat /\ Work = After("all")
            BY <1>1, <3>2 DEF WorkTable
        <3>5. Work' \in {After("all")', After("all")' + rx.len + 2}
            BY <1>1, <3>2 DEF WorkTable
        <3> QED  BY <1>1, <3>3, <3>4, <3>5, RxFields
    <2> QED  BY <1>1, <2>1, <2>2, RxFields
<1>8. ASSUME rx.pc \in {"mtu", "chunk"}, rx'.then = rx.then, rx'.slot = rx.slot
      PROVE  After(rx.then)' = After(rx.then)
    <2>1. After("all")' = After("all")
        BY <1>8 DEF After, Turn
    <2> QED  BY <1>1, <1>8, <2>1, RxFields DEF WorkTable
<1>9. CASE ReadMtu
    <2>1. /\ rx.pc = "mtu" /\ rx'.pc = "chunk" /\ rx'.off = 0 /\ rx'.len = rx.len
          /\ rx'.then = rx.then /\ rx'.slot = rx.slot
        BY <1>1, <1>9 DEF ReadMtu, TypeOK, RxType
    <2>2. Work' \in {After(rx.then) + 1 + rx.len, After(rx.then) + 1}
        BY <1>1, <1>8, <2>1, RxFields DEF WorkTable
    <2> QED  BY <1>1, <2>1, <2>2, RxFields DEF WorkTable
<1>10. CASE SendChunk
    <2>1. /\ rx.pc = "chunk" /\ rx'.pc = "chunk" /\ rx'.off = rx.off + rx.chunk /\ rx'.len = rx.len
          /\ rx'.then = rx.then /\ rx'.slot = rx.slot /\ rx.off < rx.len
        BY <1>1, <1>10 DEF SendChunk, TypeOK, RxType
    <2>2. rx.chunk >= 1
        BY <2>1 DEF IInv, TargetInv
    <2>3. \/ Work' = After(rx.then) + 1 + (rx.len - (rx.off + rx.chunk)) /\ rx.off + rx.chunk < rx.len
          \/ Work' = After(rx.then) + 1
        BY <1>1, <1>8, <2>1, RxFields DEF WorkTable
    <2> QED  BY <1>1, <2>1, <2>2, <2>3, RxFields DEF WorkTable
<1>11. CASE Notified
    <2>1. rx.pc = "chunk" /\ rx.off >= rx.len /\ Work = After(rx.then) + 1
        BY <1>1, <1>11 DEF Notified, WorkTable
    <2>2. CASE rx.then = "idle"
        <3>1. rx'.pc = "idle"
            BY <1>1, <1>11, <2>2 DEF Notified, Returns, Goes, RxIdle
        <3> QED  BY <1>2, <2>1, <3>1
    <2>3. CASE rx.then # "idle"
        <3>1. rx'.pc = rx.then /\ rx'.then = rx.then /\ rx'.slot = rx.slot
            BY <1>1, <1>11, <2>3 DEF Notified, TypeOK, RxType
        <3>2. Work' = After(rx.then)'
            BY <1>1, <2>3, <3>1, RxFields DEF WorkTable
        <3> QED  BY <1>1, <1>8, <2>1, <3>1, <3>2 DEF WorkTable
    <2> QED  BY <2>2, <2>3
<1> QED  BY <1>4, <1>5, <1>6, <1>7, <1>9, <1>10, <1>11 DEF RxRuns

\* Neither the registry nor the MTUs bound what the receive task does with a
\* frame: al1_ble_notify_all walks its slots once and al1_ble_notify_conn's loop
\* never stands still.
THEOREM ReceiverAlwaysAdvances == Spec => ReceiverAdvances
<1>1. ASSUME IInv, IInv', [Next]_vars
      PROVE  /\ Work' \in 0 .. MostWork
             /\ RxRuns => Work' < Work
             /\ rx.pc # "idle" /\ ~RxRuns => Work' = Work
    <2>1. Work' \in 0 .. MostWork
        BY <1>1, WorkAtNext DEF IInv, WorkTable
    <2>2. RxRuns => Work' < Work
        BY <1>1, RxWorks
    <2>3. ASSUME rx.pc # "idle", ~RxRuns PROVE Work' = Work
        <3>1. rx' = rx
            BY <1>1, <2>3 DEF Next, HostActs, Connect, Disconnect, Negotiate, Claim, Release, Reject,
               RxTake, vars
        <3> QED  BY <3>1 DEF Work, After, Turn
    <2> QED  BY <2>1, <2>2, <2>3
<1>2. IInv /\ IInv' /\ [Next]_vars
        => [/\ Work' \in 0 .. MostWork
            /\ RxRuns => Work' < Work
            /\ rx.pc # "idle" /\ ~RxRuns => Work' = Work]_vars
    BY <1>1
<1> QED  BY <1>2, InitInv, StepInv, PTL DEF Spec, ReceiverAdvances
===============================================================================
