---------------------------- MODULE ApBridgeProofs ----------------------------
(***************************************************************************)
(* What ApBridge guarantees for any number of handles, any table and queue *)
(* sizes and any environment.  Each theorem is one inductive invariant:    *)
(* first the types, then on top of them the tables, and the claims; last,  *)
(* for clients that wait for what is under way, the agreement with the     *)
(* STM32.                                                                  *)
(***************************************************************************)
EXTENDS ApBridge, SequenceTheorems, FiniteSetTheorems, TLAPS

-----------------------------------------------------------------------------
(* Types                                                                   *)

\* Emitting frames to a downlink that has room keeps its type and its bound.
LEMMA EmitType ==
    ASSUME downlink \in Seq(Kind), NEW frames \in Seq(Kind), Emit(frames)
    PROVE  downlink' \in Seq(Kind) /\ Len(downlink') <= MaxDown
<1>1. downlink \o frames \in Seq(Kind) /\ Len(downlink \o frames) = Len(downlink) + Len(frames)
    BY ConcatProperties
<1> QED BY <1>1 DEF Emit

\* The MICB's answers to a frame keep the types of the wire.
LEMMA MicbType ==
    ASSUME TypeOK, NEW c \in ConnOrNone, NEW cmd \in Cmd,
           MicbClaim(c) \/ MicbRelease(c) \/ MicbOther(cmd)
    PROVE  /\ micb' \in ConnOrNone /\ ousted' \in BOOLEAN
           /\ downlink' \in Seq(Kind) /\ Len(downlink') <= MaxDown
<1> USE DEF TypeOK
<1>1. /\ <<"OK">> \in Seq(Kind) /\ <<"ERROR">> \in Seq(Kind)
      /\ <<"SESSION_END", "OK">> \in Seq(Kind) /\ <<"OK", "SESSION_END">> \in Seq(Kind)
    BY DEF Kind
<1>2. CASE MicbClaim(c)
    BY <1>1, <1>2, EmitType DEF MicbClaim, session
<1>3. CASE MicbRelease(c)
    BY <1>1, <1>3, EmitType DEF MicbRelease, session, ConnOrNone
<1>4. CASE MicbOther(cmd)
    BY <1>1, <1>4, EmitType DEF MicbOther, session
<1> QED BY <1>2, <1>3, <1>4

\* Setting or freeing a table entry keeps the table's type.
LEMMA ReplaceType ==
    ASSUME NEW t \in [Slot -> ConnOrNone], NEW old, NEW new \in ConnOrNone
    PROVE  Replace(t, old, new) \in [Slot -> ConnOrNone]
BY DEF Replace

\* The type invariant is inductive.
LEMMA TypeStep == TypeOK /\ [Next]_vars => TypeOK'
<1> SUFFICES ASSUME TypeOK, [Next]_vars PROVE TypeOK'
    OBVIOUS
<1> USE DEF TypeOK
<1>1. ASSUME NEW c \in Conn, Connect(c) PROVE TypeOK'
  <2>1. Add(s_conns, c) \in [Slot -> ConnOrNone] /\ Add(s_slots, c) \in [Slot -> ConnOrNone]
      BY ReplaceType DEF Add, ConnOrNone
  <2> QED BY <1>1, <2>1 DEF Connect, binding, wire, session
<1>2. ASSUME NEW c \in Conn, Disconnect(c) PROVE TypeOK'
  <2>1. Remove(s_conns, c) \in [Slot -> ConnOrNone] /\ Remove(s_slots, c) \in [Slot -> ConnOrNone]
      BY ReplaceType DEF Remove, ConnOrNone
  <2>2. s_pending_claim_conn' \in ConnOrNone
      BY <1>2 DEF Disconnect, forget_claim, ConnOrNone
  <2>3. host' \in [pc : {"idle", "check", "forward", "release", "clear"},
                   cmd : Cmd, src : ConnOrNone]
      BY <1>2 DEF Disconnect, Cmd, ConnOrNone
  <2> QED BY <1>2, <2>1, <2>2, <2>3 DEF Disconnect, binding, wire, session
<1>3. ASSUME NEW c \in Conn, ClaimFrame(c) PROVE TypeOK'
    BY <1>3 DEF ClaimFrame, tables, binding, wire, session, Cmd, ConnOrNone
<1>4. ASSUME NEW c \in Conn, NEW cmd \in {"RELEASE", "SET", "PING"}, ControllerFrame(c, cmd)
      PROVE TypeOK'
    BY <1>4 DEF ControllerFrame, tables, binding, wire, session, Cmd, ConnOrNone
<1>5. ASSUME NEW c \in Conn, NEW cmd \in {"RELEASE", "SET", "PING"}, OtherFrame(c, cmd)
      PROVE TypeOK'
    BY <1>5 DEF OtherFrame, tables, binding, wire, session, Cmd, ConnOrNone
<1>6. CASE Forward
  <2> DEFINE f == [cmd |-> host.cmd, src |-> host.src]
  <2>1. f \in Frame /\ Queued(f)
      BY <1>6 DEF Forward, Frame
  <2>2. tx_queue' \in Seq(Frame) /\ Len(tx_queue') <= TxQueueLen
    <3>1. Append(tx_queue, f) \in Seq(Frame) /\ Len(Append(tx_queue, f)) = Len(tx_queue) + 1
        BY <2>1, AppendProperties
    <3>2. Len(tx_queue) \in Nat
        BY LenProperties
    <3> HIDE DEF f
    <3> QED BY <2>1, <3>1, <3>2, BoundAssumption DEF Queued
  <2>3. host' \in [pc : {"idle", "check", "forward", "release", "clear"},
                   cmd : Cmd, src : ConnOrNone]
      BY <1>6 DEF Forward, HostIdle, Cmd, ConnOrNone
  <2> QED BY <1>6, <2>2, <2>3 DEF Forward, tables, binding, session
<1>7. CASE Clear \/ CheckController
  <2>1. host' \in [pc : {"idle", "check", "forward", "release", "clear"},
                   cmd : Cmd, src : ConnOrNone]
      BY <1>7 DEF Clear, CheckController, HostIdle, Cmd, ConnOrNone
  <2>2. /\ claimed' \subseteq Conn
        /\ rx' \in [pc : {"idle", "bind_read", "bind", "bind_set", "bind_clear", "end"},
                    conn : ConnOrNone, stale : BOOLEAN]
      BY <1>7 DEF Clear, CheckController, Gone
  <2>3. s_controlling_conn' \in ConnOrNone /\ ctlStale' \in BOOLEAN
      BY <1>7 DEF Clear, CheckController, clear_binding, binding, ConnOrNone
  <2> QED BY <1>7, <2>1, <2>2, <2>3 DEF Clear, CheckController, tables, wire, session
<1>8. CASE RxTake
  <2>1. downlink' \in Seq(Kind) /\ Len(downlink') <= MaxDown
      BY <1>8, HeadTailProperties, LenProperties, BoundAssumption DEF RxTake
  <2> QED BY <1>8, <2>1 DEF RxTake, RxIdle, tables, binding, session, ConnOrNone
<1>9. CASE BindRead
    BY <1>9 DEF BindRead, tables, binding, wire, session
<1>10. CASE BindClear
    BY <1>10 DEF BindClear, RxIdle, tables, binding, wire, session, ConnOrNone
<1>11. CASE BindSet
    BY <1>11 DEF BindSet, RxIdle, tables, wire, session, ConnOrNone
<1>12. CASE EndClear
    BY <1>12 DEF EndClear, clear_binding, RxIdle, tables, wire, session, ConnOrNone
<1>13. CASE TxTask
  <2>1. /\ tx_queue' \in Seq(Frame) /\ Len(tx_queue') <= TxQueueLen
        /\ Head(tx_queue) \in Frame
      BY <1>13, HeadTailProperties, LenProperties, BoundAssumption DEF TxTask
  <2>2. /\ micb' \in ConnOrNone /\ ousted' \in BOOLEAN
        /\ downlink' \in Seq(Kind) /\ Len(downlink') <= MaxDown
      BY <1>13, <2>1, MicbType DEF TxTask, Frame
  <2> QED BY <1>13, <2>1, <2>2 DEF TxTask, tables, binding
<1>14. CASE SessionEnds
  <2>1. <<"SESSION_END">> \in Seq(Kind)
      BY DEF Kind
  <2>2. downlink' \in Seq(Kind) /\ Len(downlink') <= MaxDown
      BY <1>14, <2>1, EmitType DEF SessionEnds
  <2> QED BY <1>14, <2>2 DEF SessionEnds, tables, binding, ConnOrNone
<1>15. CASE Lose
  <2>1. /\ tx_queue' \in Seq(Frame) /\ Len(tx_queue') <= TxQueueLen
        /\ downlink' \in Seq(Kind) /\ Len(downlink') <= MaxDown
    <3>1. /\ tx_queue # << >> => Tail(tx_queue) \in Seq(Frame)
                                /\ Len(Tail(tx_queue)) = Len(tx_queue) - 1
          /\ downlink # << >> => Tail(downlink) \in Seq(Kind)
                                /\ Len(Tail(downlink)) = Len(downlink) - 1
        BY HeadTailProperties
    <3>2. Len(tx_queue) \in Nat /\ Len(downlink) \in Nat
        BY LenProperties
    <3>3. CASE tx_queue # << >> /\ tx_queue' = Tail(tx_queue) /\ UNCHANGED downlink
        BY <3>1, <3>2, <3>3, BoundAssumption
    <3>4. CASE downlink # << >> /\ downlink' = Tail(downlink) /\ UNCHANGED tx_queue
        BY <3>1, <3>2, <3>4, BoundAssumption
    <3> QED BY <1>15, <3>3, <3>4 DEF Lose
  <2> QED BY <1>15, <2>1 DEF Lose, tables, binding, session
<1>16. CASE UNCHANGED vars
    BY <1>16 DEF vars, tables, binding, wire, session
<1> QED
    BY <1>1, <1>2, <1>3, <1>4, <1>5, <1>6, <1>7, <1>8, <1>9, <1>10, <1>11, <1>12, <1>13,
       <1>14, <1>15, <1>16
    DEF Next, ClientActs, HostRuns, RxRuns

\* Every variable keeps its type: the queues their bounds, the tables and the
\* bindings the handles they may hold (the state of al1_ble_ap_bridge.c).
THEOREM TypeCorrect == Spec => []TypeOK
<1>1. Init => TypeOK
  <2>1. /\ << >> \in Seq(Frame) /\ << >> \in Seq(Kind)
        /\ Len(<< >>) <= TxQueueLen /\ Len(<< >>) <= MaxDown
      BY EmptySeq, BoundAssumption
  <2>2. HostIdle \in [pc : {"idle", "check", "forward", "release", "clear"},
                     cmd : Cmd, src : ConnOrNone]
      BY DEF HostIdle, Cmd, ConnOrNone
  <2>3. RxIdle \in [pc : {"idle", "bind_read", "bind", "bind_set", "bind_clear", "end"},
                    conn : ConnOrNone, stale : BOOLEAN]
      BY DEF RxIdle, ConnOrNone
  <2>4. [i \in Slot |-> NoConn] \in [Slot -> ConnOrNone] /\ NoConn \in ConnOrNone
      BY DEF ConnOrNone
  <2> QED BY <2>1, <2>2, <2>3, <2>4, Zenon DEF Init, TypeOK
<1> QED BY <1>1, TypeStep, PTL DEF Spec

-----------------------------------------------------------------------------
(* Tables                                                                  *)

\* A table is in step with a set of links: it holds each of them exactly once.
InStep(t, links) == Tracked(t) = links /\ HasNoDuplicates(t)

\* The entry Replace writes, when there is one.
LEMMA ReplaceAt ==
    ASSUME NEW t \in [Slot -> ConnOrNone], NEW old, NEW new,
           \E i \in Slot : t[i] = old
    PROVE  \E i \in Slot : t[i] = old /\ Replace(t, old, new) = [t EXCEPT ![i] = new]
BY DEF Replace

\* A table in step with fewer links than it has entries has a free one.
LEMMA FreeEntry ==
    ASSUME NEW t \in [Slot -> ConnOrNone], NEW links, IsFiniteSet(links),
           InStep(t, links), Cardinality(links) < MaxConn
    PROVE  \E i \in Slot : t[i] = NoConn
<1> SUFFICES ASSUME \A i \in Slot : t[i] # NoConn PROVE FALSE
    OBVIOUS
<1>1. t \in [Slot -> links]
    BY DEF InStep, Tracked
<1>2. IsFiniteSet(Slot) /\ Cardinality(Slot) = MaxConn
    BY FS_Interval, BoundAssumption DEF Slot
<1>3. PICK i, j \in Slot : i # j /\ t[i] = t[j]
    BY <1>1, <1>2, FS_PigeonHole
<1> QED BY <1>3 DEF InStep, HasNoDuplicates

\* A new link enters a table that is in step.
LEMMA AddInStep ==
    ASSUME NEW t \in [Slot -> ConnOrNone], NEW links, IsFiniteSet(links),
           InStep(t, links), Cardinality(links) < MaxConn, NEW c \in Conn, c \notin links
    PROVE  InStep(Add(t, c), links \cup {c})
<1>1. PICK k \in Slot : t[k] = NoConn /\ Add(t, c) = [t EXCEPT ![k] = c]
    BY FreeEntry, ReplaceAt DEF Add
<1> QED BY <1>1, ConnAssumption DEF InStep, Tracked, HasNoDuplicates

\* A dropped link leaves a table that is in step.
LEMMA RemoveInStep ==
    ASSUME NEW t \in [Slot -> ConnOrNone], NEW links, InStep(t, links), NEW c \in links
    PROVE  InStep(Remove(t, c), links \ {c})
<1>1. PICK k \in Slot : t[k] = c /\ Remove(t, c) = [t EXCEPT ![k] = NoConn]
    BY ReplaceAt DEF Remove, InStep, Tracked
<1> QED BY <1>1 DEF InStep, Tracked, HasNoDuplicates

TablesInv == IsFiniteSet(up) /\ TablesAgree

\* Both tables stay in step with the open links.
LEMMA TablesStep == TypeOK /\ TablesInv /\ [Next]_vars => TablesInv'
<1> SUFFICES ASSUME TypeOK, TablesInv, [Next]_vars PROVE TablesInv'
    OBVIOUS
<1> USE DEF TypeOK, TablesInv, TablesAgree
<1>1. ASSUME NEW c \in Conn, Connect(c) PROVE TablesInv'
  <2>1. InStep(s_conns', up') /\ InStep(s_slots', up')
      BY <1>1, AddInStep DEF Connect, InStep
  <2>2. IsFiniteSet(up')
      BY <1>1, FS_AddElement DEF Connect
  <2> QED BY <2>1, <2>2 DEF InStep, Tracked, HasNoDuplicates
<1>2. ASSUME NEW c \in Conn, Disconnect(c) PROVE TablesInv'
  <2>1. InStep(s_conns', up') /\ InStep(s_slots', up')
      BY <1>2, RemoveInStep
      DEF Disconnect, InStep
  <2>2. IsFiniteSet(up')
      BY <1>2, FS_RemoveElement DEF Disconnect
  <2> QED BY <2>1, <2>2 DEF InStep, Tracked, HasNoDuplicates
<1>3. CASE UNCHANGED tables
    BY <1>3 DEF tables, Tracked, HasNoDuplicates
<1> QED
    BY <1>1, <1>2, <1>3
    DEF Next, ClientActs, ClaimFrame, ControllerFrame, OtherFrame, HostRuns, CheckController,
        Forward, Clear, RxRuns, RxTake, BindRead, BindClear, BindSet, EndClear, TxTask, SessionEnds, Lose, vars

\* al1_ble.c's s_conns and the bridge's s_slots hold exactly the open links,
\* each once, so that every client has a reassembler and every reused handle
\* finds the tables clean.
THEOREM TablesAlwaysAgree == Spec => []TablesAgree
<1>1. Init => TablesInv
    BY FS_EmptySet DEF Init, TablesInv, TablesAgree, Tracked, HasNoDuplicates
<1>2. TablesInv => TablesAgree
    BY DEF TablesInv
<1> QED BY <1>1, <1>2, TablesStep, TypeCorrect, PTL DEF Spec

-----------------------------------------------------------------------------
(* Claims                                                                  *)

\* Only a link that is open or being handled as gone is under a handle.
ClosingInv ==
    /\ host.pc \in {"check", "release", "clear"} => host.src \in Conn
    /\ host.pc = "check" => host.src \notin up

LEMMA ClosingStep == TypeOK /\ ClosingInv /\ [Next]_vars => ClosingInv'
<1> SUFFICES ASSUME TypeOK, ClosingInv, [Next]_vars PROVE ClosingInv'
    OBVIOUS
<1> USE DEF ClosingInv
<1>1. CASE ClientActs
    BY <1>1 DEF ClientActs, Connect, Disconnect, HostIdle, ClaimFrame, ControllerFrame, OtherFrame
<1>2. CASE HostRuns
    BY <1>2 DEF HostRuns, CheckController, Forward, Clear, HostIdle, TypeOK
<1>3. CASE RxRuns \/ TxTask \/ SessionEnds \/ Lose \/ UNCHANGED vars
    BY <1>3
    DEF RxRuns, RxTake, BindRead, BindClear, BindSet, EndClear, TxTask, SessionEnds, Lose, vars, tables
<1> QED BY <1>1, <1>2, <1>3 DEF Next

\* What makes the two claim properties inductive: a claim is forgotten when the
\* disconnection of its link has been handled, and what rx is about to store is
\* a claimant unless that happened in between.
ClaimInv ==
    /\ claimed \subseteq up \cup Closing
    /\ PendingIsLive
    /\ host.src \in up \/ host.pc \notin {"check", "release", "clear"} \/ s_pending_claim_conn # host.src
    /\ rx.pc = "bind_read" => ~rx.stale
    /\ rx.pc \in {"bind", "bind_set"} => rx.stale \/ rx.conn \in claimed \cup {NoConn}
    /\ ControlWasClaimed

\* ClaimInv is inductive.
LEMMA ClaimStep == TypeOK /\ ClosingInv /\ ClaimInv /\ [Next]_vars => ClaimInv'
<1> SUFFICES ASSUME TypeOK, ClosingInv, ClaimInv, [Next]_vars PROVE ClaimInv'
    OBVIOUS
<1> USE DEF ClaimInv, PendingIsLive, ControlWasClaimed, Closing
<1>1. ASSUME NEW c \in Conn, Connect(c) PROVE ClaimInv'
    BY <1>1 DEF HostIdle, Connect, binding
<1>2. ASSUME NEW c \in Conn, Disconnect(c) PROVE ClaimInv'
    BY <1>2, ConnAssumption DEF HostIdle, Disconnect, forget_claim, binding
<1>3. ASSUME NEW c \in Conn, ClaimFrame(c) PROVE ClaimInv'
    BY <1>3 DEF HostIdle, ClaimFrame, FrameArrives, tables, binding
<1>4. ASSUME NEW c \in Conn, NEW cmd \in {"RELEASE", "SET", "PING"}, ControllerFrame(c, cmd)
      PROVE ClaimInv'
    BY <1>4 DEF HostIdle, ControllerFrame, FrameArrives, tables, binding
<1>5. ASSUME NEW c \in Conn, NEW cmd \in {"RELEASE", "SET", "PING"}, OtherFrame(c, cmd)
      PROVE ClaimInv'
    BY <1>5 DEF HostIdle, OtherFrame, FrameArrives, tables, binding
<1>6. CASE Forward
  <2>1. Closing' = Closing
      BY <1>6 DEF Forward, HostIdle, TypeOK
  <2>2. /\ host'.src = host.src \/ host'.pc = "idle"
        /\ host'.pc \in {"check", "release", "clear"} => host.pc \in {"check", "release", "clear"}
      BY <1>6 DEF Forward, HostIdle, TypeOK
  <2> QED BY <1>6, <2>1, <2>2 DEF Forward, tables, binding
<1>7. CASE CheckController \/ Clear
  <2>1. CASE host' = HostIdle /\ Gone(host.src) /\ host.src \notin up
    <3>1. /\ claimed' = claimed \ {host.src} /\ Closing' = {}
          /\ rx'.pc = rx.pc /\ rx'.conn = rx.conn
          /\ rx'.stale = (rx.stale \/ (rx.pc \in {"bind", "bind_set"} /\ rx.conn = host.src))
          /\ UNCHANGED <<up, s_pending_claim_conn>>
        BY <1>7, <2>1 DEF CheckController, Clear, Gone, HostIdle, tables, TypeOK
    <3>2. ControlWasClaimed'
        BY <1>7, <3>1 DEF CheckController, Clear, HostIdle, clear_binding, binding, is_controller
    <3>3. host'.pc = "idle" /\ host.pc \in {"check", "clear"}
        BY <1>7, <2>1 DEF HostIdle, CheckController, Clear
    <3>4. PendingIsLive' /\ claimed' \subseteq up' \cup Closing'
        BY <2>1, <3>1, <3>3
    <3>5. rx'.pc \in {"bind", "bind_set"} => rx'.stale \/ rx'.conn \in claimed' \cup {NoConn}
        BY <3>1
    <3> QED BY <3>1, <3>2, <3>3, <3>4, <3>5
  <2>2. CASE /\ UNCHANGED <<rx, claimed, up, s_pending_claim_conn>>
             /\ \/ host' = HostIdle /\ host.src \in up
                \/ host' = [host EXCEPT !.pc = "release"] /\ host.pc = "check"
    <3>1. ControlWasClaimed'
        BY <1>7, <2>2 DEF CheckController, Clear, clear_binding, binding
    <3>2. claimed' \subseteq up' \cup Closing'
        BY <1>7, <2>2 DEF CheckController, Clear, HostIdle, TypeOK
    <3> QED BY <2>2, <3>1, <3>2 DEF HostIdle, TypeOK
  <2> QED BY <1>7, <2>1, <2>2 DEF CheckController, Clear, ClosingInv, tables
<1>8. CASE RxTake
    BY <1>8 DEF RxTake, RxIdle, tables, binding
<1>9. CASE BindRead
    BY <1>9 DEF BindRead, tables, binding, TypeOK
<1>10. CASE BindClear
    BY <1>10, ConnAssumption DEF BindClear, RxIdle, tables, binding, TypeOK, ClosingInv
<1>11. CASE BindSet
    BY <1>11 DEF BindSet, RxIdle, tables, TypeOK
<1>12. CASE EndClear
    BY <1>12 DEF EndClear, clear_binding, RxIdle, tables
<1>13. CASE TxTask \/ SessionEnds \/ Lose \/ UNCHANGED vars
    BY <1>13 DEF TxTask, SessionEnds, Lose, vars, tables, binding
<1> QED
    BY <1>1, <1>2, <1>3, <1>4, <1>5, <1>6, <1>7, <1>8, <1>9, <1>10, <1>11, <1>12, <1>13
    DEF Next, ClientActs, HostRuns, RxRuns

\* ClosingInv and ClaimInv hold in every reachable state.
LEMMA ClaimInvariant == Spec => [](ClosingInv /\ ClaimInv)
<1>1. Init => ClosingInv /\ ClaimInv
    BY DEF Init, ClosingInv, ClaimInv, PendingIsLive, ControlWasClaimed, Closing, HostIdle, RxIdle
<1> QED BY <1>1, ClosingStep, ClaimStep, TypeCorrect, PTL DEF Spec

\* A claim awaiting its OK (s_pending_claim_conn) is never that of an earlier
\* life of the handle, however the two tasks interleave.
THEOREM PendingIsLiveAlways == Spec => []PendingIsLive
<1>1. ClaimInv => PendingIsLive
    BY DEF ClaimInv
<1> QED BY <1>1, ClaimInvariant, PTL

\* s_controlling_conn only ever names a connection that sent a CLAIM in this
\* life of its handle, unless the connection's disconnection was handled while
\* rx was about to store it.
THEOREM ControlWasClaimedAlways == Spec => []ControlWasClaimed
<1>1. ClaimInv => ControlWasClaimed
    BY DEF ClaimInv
<1> QED BY <1>1, ClaimInvariant, PTL

-----------------------------------------------------------------------------
(* The bridge implements ControlSession                                    *)

\* Every step of the code is a step of the abstract specification or a stutter.
LEMMA RefinementStep ==
    ASSUME TypeOK, ClaimInv, ClosingInv, [Next]_vars
    PROVE  [Session!Next]_(Session!vars)
<1> USE DEF ClaimInv, ControlWasClaimed, PendingIsLive
<1> DEFINE O == up \cup Closing
           H == IF ctlStale THEN NoConn ELSE s_controlling_conn
           Stutter == O' = O /\ claimed' = claimed /\ H' = H
<1>1. ASSUME Stutter PROVE UNCHANGED Session!vars
    BY <1>1 DEF Session!vars
<1>2. ASSUME NEW c \in Conn, Connect(c) PROVE Session!Open(c)
    BY <1>2 DEF HostIdle, Connect, binding, Closing, Session!Open
<1>3. ASSUME NEW c \in Conn, Disconnect(c) PROVE Stutter
  <2>1. Closing = {} /\ Closing' = {c} /\ up' = up \ {c} /\ c \in up
      BY <1>3 DEF HostIdle, Disconnect, Closing
  <2> QED BY <1>3, <2>1 DEF Disconnect, binding
<1>4. ASSUME NEW c \in Conn, ClaimFrame(c) PROVE Session!Ask(c)
    BY <1>4 DEF HostIdle, ClaimFrame, FrameArrives, tables, binding, Closing, Session!Ask
<1>5. ASSUME NEW c \in Conn, NEW cmd \in {"RELEASE", "SET", "PING"},
             ControllerFrame(c, cmd) \/ OtherFrame(c, cmd)
      PROVE Stutter
    BY <1>5 DEF HostIdle, ControllerFrame, OtherFrame, FrameArrives, tables, binding, Closing
<1>6. CASE Forward
  <2>1. Closing' = Closing
      BY <1>6 DEF Forward, HostIdle, Closing, TypeOK
  <2> QED BY <1>1, <1>6, <2>1 DEF Forward, tables, binding
<1>7. CASE CheckController
  <2>1. CASE host' = [host EXCEPT !.pc = "release"] /\ UNCHANGED claimed
    <3>1. Closing' = Closing
        BY <1>7, <2>1 DEF CheckController, Closing, TypeOK
    <3> QED BY <1>1, <1>7, <2>1, <3>1 DEF CheckController, tables, binding
  <2>2. CASE ~is_controller /\ host' = HostIdle /\ Gone(host.src)
    <3>1. /\ host.src \in Conn /\ host.src \notin up
          /\ Closing = {host.src} /\ Closing' = {} /\ claimed' = claimed \ {host.src}
          /\ UNCHANGED <<up, s_controlling_conn, ctlStale>>
        BY <1>7, <2>2 DEF CheckController, HostIdle, Closing, Gone, ClosingInv, tables, binding
    <3>2. H # host.src
        BY <2>2, <3>1, ConnAssumption DEF is_controller
    <3>3. Session!Close(host.src)
        BY <3>1, <3>2 DEF Session!Close
    <3> QED BY <3>1, <3>3 DEF Session!Next
  <2> QED BY <1>7, <2>1, <2>2 DEF CheckController
<1>8. CASE Clear
  <2>1. CASE host.src \in up
      BY <1>8, <2>1
      DEF Clear, clear_binding, HostIdle, tables, Closing, Session!Revoke, Session!Next
  <2>2. CASE host.src \notin up
    <3>1. host.src \in Conn /\ Closing = {host.src} /\ Closing' = {}
        BY <1>8, <2>2 DEF Clear, HostIdle, Closing, ClosingInv
    <3>2. Session!Close(host.src)
        BY <1>8, <2>2, <3>1, ConnAssumption DEF Clear, clear_binding, Gone, tables, Session!Close
    <3> QED BY <3>1, <3>2 DEF Session!Next
  <2> QED BY <2>1, <2>2
<1>9. CASE RxTake \/ BindRead \/ BindClear
  <2>1. UNCHANGED <<up, claimed, s_controlling_conn, ctlStale, host>>
      BY <1>9 DEF RxTake, BindRead, BindClear, tables, binding
  <2> QED BY <1>1, <2>1 DEF Closing
<1>10. CASE BindSet
  <2>1. UNCHANGED <<up, claimed, host>> /\ s_controlling_conn' = rx.conn /\ ctlStale' = rx.stale
      BY <1>10 DEF BindSet, tables
  <2>2. Closing' = Closing
      BY <2>1 DEF Closing
  <2>3. CASE rx.stale \/ rx.conn = NoConn
      BY <2>1, <2>2, <2>3 DEF Session!Revoke, Session!Next
  <2>4. CASE ~rx.stale /\ rx.conn \in claimed
    <3>1. rx.conn \in Conn /\ Session!Grant(rx.conn)
        BY <2>1, <2>2, <2>4 DEF Session!Grant, TypeOK
    <3> QED BY <3>1 DEF Session!Next
  <2> QED BY <1>10, <2>3, <2>4 DEF BindSet
<1>11. CASE EndClear
  <2>1. UNCHANGED <<up, claimed, host>> /\ s_controlling_conn' = NoConn /\ ctlStale' = FALSE
      BY <1>11 DEF EndClear, clear_binding, tables
  <2>2. Closing' = Closing
      BY <2>1 DEF Closing
  <2> QED BY <2>1, <2>2 DEF Session!Revoke, Session!Next
<1>12. CASE TxTask \/ SessionEnds \/ Lose \/ UNCHANGED vars
  <2>1. UNCHANGED <<up, claimed, s_controlling_conn, ctlStale, host>>
      BY <1>12 DEF TxTask, SessionEnds, Lose, vars, tables, binding
  <2> QED BY <1>1, <2>1 DEF Closing
<1> HIDE DEF Stutter
<1> QED
    BY <1>1, <1>2, <1>3, <1>4, <1>5, <1>6, <1>7, <1>8, <1>9, <1>10, <1>11, <1>12
    DEF Next, ClientActs, HostRuns, RxRuns, Session!Next

\* The bridge, its two unsynchronised tasks, the queue and the wire included,
\* implements ControlSession: only a connection that asked is ever in control,
\* and a connection that closed is not.
THEOREM BridgeImplementsSession == Spec => SessionSpec
<1>1. Init => Session!Init
    BY DEF Init, Session!Init, Closing, HostIdle
<1>2. TypeOK /\ ClaimInv /\ ClosingInv /\ [Next]_vars => [Session!Next]_(Session!vars)
    BY RefinementStep
<1> QED BY <1>1, <1>2, TypeCorrect, ClaimInvariant, PTL DEF Spec, SessionSpec, Session!Spec

-----------------------------------------------------------------------------
(* No binding is stale while claimants wait                                *)

\* The link that is being handled as gone awaits no answer.
PatientInv ==
    /\ ~ctlStale /\ ~rx.stale
    /\ host.pc \in {"check", "release", "clear"} /\ host.src \notin up => ~AwaitsClaim(host.src)

\* While claimants wait for their answer, no binding becomes stale.
LEMMA PatientStep ==
    ASSUME "impatient" \notin Env, TypeOK, ClosingInv, PatientInv, [Next]_vars
    PROVE  PatientInv'
<1> USE DEF PatientInv, AwaitsClaim
<1>1. ASSUME NEW c \in Conn, Disconnect(c) PROVE PatientInv'
    BY <1>1, ConnAssumption DEF Disconnect, MayDrop, forget_claim, binding
<1>2. ASSUME NEW c \in Conn,
             \/ Connect(c) \/ ClaimFrame(c)
             \/ \E cmd \in {"RELEASE", "SET", "PING"} : ControllerFrame(c, cmd) \/ OtherFrame(c, cmd)
      PROVE PatientInv'
    BY <1>2 DEF Connect, ClaimFrame, ControllerFrame, OtherFrame, FrameArrives, HostIdle, tables, binding
<1>3. CASE CheckController \/ Clear
  <2>1. UNCHANGED rx
      BY <1>3 DEF CheckController, Clear, Gone, ClosingInv
  <2> QED BY <1>3, <2>1
      DEF CheckController, Clear, clear_binding, HostIdle, tables, binding, TypeOK
<1>4. CASE Forward
    BY <1>4 DEF Forward, HostIdle, tables, binding, TypeOK
<1>5. CASE RxTake \/ EndClear
    BY <1>5 DEF RxTake, EndClear, RxIdle, clear_binding, tables, binding
<1>6. CASE BindRead
    BY <1>6, ConnAssumption DEF BindRead, tables, binding, TypeOK
<1>7. CASE BindClear \/ BindSet
  <2>1. /\ rx' = RxIdle \/ (rx'.conn = rx.conn /\ rx'.stale = rx.stale /\ rx.pc = "bind")
        /\ s_pending_claim_conn' \in {s_pending_claim_conn, NoConn}
        /\ ctlStale' \in {ctlStale, rx.stale}
        /\ UNCHANGED <<up, host>>
      BY <1>7 DEF BindClear, BindSet, tables, binding, TypeOK
  <2> QED BY <2>1, ConnAssumption DEF RxIdle, ClosingInv
<1>8. CASE TxTask \/ SessionEnds \/ Lose \/ UNCHANGED vars
    BY <1>8 DEF TxTask, SessionEnds, Lose, vars, tables, binding
<1> QED BY <1>1, <1>2, <1>3, <1>4, <1>5, <1>6, <1>7, <1>8 DEF Next, ClientActs, HostRuns, RxRuns

\* While claimants wait PatientInv holds in every reachable state.
LEMMA PatientInvariant ==
    ASSUME "impatient" \notin Env
    PROVE  Spec => []PatientInv
<1>1. Init => PatientInv
    BY DEF Init, PatientInv, RxIdle, HostIdle
<1>2. TypeOK /\ ClosingInv /\ PatientInv /\ [Next]_vars => PatientInv'
    BY PatientStep
<1> QED BY <1>1, <1>2, TypeCorrect, ClaimInvariant, PTL DEF Spec

\* As long as no client drops while its CLAIM is under way no binding is made for
\* a connection that has gone: s_controlling_conn is then ControlSession's
\* controller as it stands.
THEOREM PatientNeverStale ==
    ASSUME "impatient" \notin Env
    PROVE  Spec => []NeverStale
<1>1. PatientInv => NeverStale
    BY DEF PatientInv, NeverStale
<1> QED BY <1>1, PatientInvariant, PTL

-----------------------------------------------------------------------------
(***************************************************************************)
(* Clients that wait until nothing is under way, with one another or with  *)
(* a RELEASE of their own while another one is the controller, an STM32    *)
(* that grants every CLAIM, and a queue with room for a command and the    *)
(* RELEASE of its sender's disconnection.                                  *)
(***************************************************************************)

TurnsAssumed == Env \subseteq {"contend"} /\ TxQueueLen >= 2

Has(seq, x) == \E i \in 1 .. Len(seq) : seq[i] = x

EndComing == rx.pc = "end" \/ Has(downlink, "SESSION_END")

\* The holder of the MICB's session is the controller, unless its RELEASE is
\* already queued, which comes before the binding is cleared.
Held ==
    micb # NoConn =>
        /\ ~EndComing
        /\ s_controlling_conn = micb \/ (s_controlling_conn = NoConn /\ ReleaseQueued)
        /\ host.pc = "clear" => ReleaseQueued

\* What is in the host's hands and in the queue is the holder's: a SET always,
\* and its RELEASE only once the binding is cleared.
OfHolder ==
    /\ host.pc = "forward" => /\ host.cmd = "SET" => host.src = micb
                              /\ host.cmd = "RELEASE" => host.src # micb
    /\ \A i \in 1 .. Len(tx_queue) :
           /\ tx_queue[i].cmd = "SET" => tx_queue[i].src = micb
           /\ tx_queue[i].cmd = "RELEASE" /\ tx_queue[i].src = micb
                  => s_controlling_conn = NoConn \/ host.pc = "clear"

\* The queue has room for the RELEASE the host may be about to send.
RoomForRelease ==
    /\ host.pc = "forward" => tx_queue = << >>
    /\ host.pc = "release" => Len(tx_queue) <= 1
    /\ host.pc # "clear" /\ s_controlling_conn # NoConn => Len(tx_queue) <= 1

NoClaimSent ==
    /\ host.pc # "idle" => host.cmd # "CLAIM"
    /\ \A i \in 1 .. Len(tx_queue) : tx_queue[i].cmd # "CLAIM"

\* No claim is under way.  What separates the bridge's controller from the
\* MICB's session is on its way, to the one or to the other, save for a session
\* that somebody else's RELEASE has ended.
Settled ==
    /\ s_pending_claim_conn = NoConn /\ rx.pc \in {"idle", "end"}
    /\ NoClaimSent
    /\ Held
    /\ micb # NoConn => OfHolder
    /\ micb = NoConn /\ s_controlling_conn # NoConn => EndComing \/ host.pc = "clear" \/ ousted
    /\ RoomForRelease
    /\ host.pc \in {"check", "release", "clear"} => host.cmd = "RELEASE"

\* While c waits the host can only be handling the disconnection of another one.
OthersHandled(c) ==
    \/ host.pc = "idle"
    \/ host.pc \in {"check", "release", "clear"} /\ host.cmd = "RELEASE" /\ host.src # c

\* Behind the first n frames of the queue there is at most that one's RELEASE,
\* and room for it if it is still to come.
Behind(c, n) ==
    /\ Len(tx_queue) \in n .. n + 1
    /\ \A i \in n + 1 .. Len(tx_queue) : tx_queue[i].cmd = "RELEASE" /\ tx_queue[i].src # c
    /\ host.pc = "release" => Len(tx_queue) = n
    /\ host.pc \in {"idle", "check"} /\ s_controlling_conn \notin {c, NoConn} => Len(tx_queue) = n

\* The CLAIM of c is on its way to the MICB.
ClaimSent(c) ==
    /\ s_pending_claim_conn = c /\ rx.pc \in {"idle", "end"}
    /\ ~Has(downlink, "OK")
    /\ Held
    /\ \/ host.pc = "forward" /\ host.cmd = "CLAIM" /\ host.src = c /\ tx_queue = << >>
       \/ /\ OthersHandled(c) /\ Behind(c, 1)
          /\ tx_queue[1] = [cmd |-> "CLAIM", src |-> c]
          /\ host.pc = "clear" => Len(tx_queue) = 2

\* Its OK is on its way back; the end of its session, if any, comes after it.
OkComing(c) ==
    \E k \in 1 .. Len(downlink) :
        /\ downlink[k] = "OK"
        /\ \A j \in 1 .. k - 1 : downlink[j] # "OK"
        /\ \/ micb = c /\ \A j \in k + 1 .. Len(downlink) : downlink[j] # "SESSION_END"
           \/ micb = NoConn /\ (ousted \/ \E j \in k + 1 .. Len(downlink) : downlink[j] = "SESSION_END")

ClaimGranted(c) ==
    /\ s_pending_claim_conn = c /\ rx.pc \in {"idle", "end"}
    /\ OthersHandled(c) /\ Behind(c, 0)
    /\ OkComing(c)
    /\ micb = c /\ host.pc = "clear" => ReleaseQueued

\* The receive task makes the binding.
ClaimBinds(c) ==
    /\ rx.pc \in {"bind_read", "bind", "bind_set", "bind_clear"}
    /\ s_pending_claim_conn = IF rx.pc = "bind_set" THEN NoConn ELSE c
    /\ rx.pc \in {"bind", "bind_set"} => rx.conn = c
    /\ OthersHandled(c) /\ Behind(c, 0)
    /\ \/ micb = c /\ ~Has(downlink, "SESSION_END")
       \/ micb = NoConn /\ (ousted \/ Has(downlink, "SESSION_END"))
    /\ micb = c /\ host.pc = "clear" => ReleaseQueued
    /\ rx.pc = "bind_clear" =>
           s_controlling_conn = c \/ (s_controlling_conn = NoConn /\ (micb = c => ReleaseQueued))

TurnsInv == Settled \/ \E c \in Conn : ClaimSent(c) \/ ClaimGranted(c) \/ ClaimBinds(c)

\* What taking and appending do to what a sequence holds.
LEMMA HasTail ==
    ASSUME NEW S, NEW q \in Seq(S), q # << >>
    PROVE  /\ Tail(q) \in Seq(S) /\ Len(Tail(q)) = Len(q) - 1 /\ Len(q) \in Nat \ {0}
           /\ Head(q) = q[1] /\ \A i \in 1 .. Len(q) - 1 : Tail(q)[i] = q[i + 1]
           /\ \A x : Has(q, x) <=> Head(q) = x \/ Has(Tail(q), x)
<1>1. Len(q) \in Nat \ {0} /\ Head(q) = q[1]
    BY EmptySeq, LenProperties
<1>2. /\ Tail(q) \in Seq(S) /\ Len(Tail(q)) = Len(q) - 1
      /\ \A i \in 1 .. Len(q) - 1 : Tail(q)[i] = q[i + 1]
    BY HeadTailProperties
<1> DEFINE t == Tail(q)
           n == Len(q)
<1>3. n \in Nat \ {0} /\ Len(t) = n - 1 /\ \A i \in 1 .. n - 1 : t[i] = q[i + 1]
    BY <1>1, <1>2
<1>4. ASSUME NEW x PROVE Has(q, x) <=> q[1] = x \/ Has(t, x)
    <2> HIDE DEF t
    <2>1. ASSUME Has(q, x), q[1] # x PROVE Has(t, x)
        <3>1. PICK i \in 1 .. n : q[i] = x
            BY <2>1 DEF Has
        <3>2. i - 1 \in 1 .. n - 1 /\ (i - 1) + 1 = i
            BY <2>1, <3>1, <1>3
        <3> QED  BY <3>1, <3>2, <1>3 DEF Has
    <2>2. ASSUME Has(t, x) PROVE Has(q, x)
        <3>1. PICK i \in 1 .. n - 1 : t[i] = x
            BY <2>2, <1>3 DEF Has
        <3>2. i + 1 \in 1 .. n
            BY <1>3
        <3> QED  BY <3>1, <3>2, <1>3 DEF Has
    <2>3. q[1] = x => Has(q, x)
        BY <1>3 DEF Has
    <2> QED  BY <2>1, <2>2, <2>3
<1> QED  BY <1>1, <1>2, <1>4

LEMMA EmitHas ==
    ASSUME downlink \in Seq(Kind), NEW frames \in Seq(Kind), Emit(frames)
    PROVE  /\ Len(downlink') = Len(downlink) + Len(frames)
           /\ \A i \in 1 .. Len(downlink) : downlink'[i] = downlink[i]
           /\ \A i \in 1 .. Len(frames) : downlink'[Len(downlink) + i] = frames[i]
           /\ \A x : Has(downlink', x) <=> Has(downlink, x) \/ Has(frames, x)
<1> DEFINE n == Len(downlink)
           m == Len(frames)
<1>1. n \in Nat /\ m \in Nat
    BY LenProperties
<1>2. /\ Len(downlink') = n + m
      /\ \A i \in 1 .. n + m : downlink'[i] = IF i <= n THEN downlink[i] ELSE frames[i - n]
    BY ConcatProperties DEF Emit
<1> HIDE DEF n, m
<1>3. \A i \in 1 .. n : downlink'[i] = downlink[i]
    BY <1>1, <1>2
<1>4. \A i \in 1 .. m : downlink'[n + i] = frames[i]
    <2> SUFFICES ASSUME NEW i \in 1 .. m PROVE downlink'[n + i] = frames[i]
        OBVIOUS
    <2>1. n + i \in 1 .. n + m /\ ~(n + i <= n) /\ (n + i) - n = i
        BY <1>1
    <2> QED  BY <2>1, <1>2
<1>5. ASSUME NEW x, Has(downlink', x) PROVE Has(downlink, x) \/ Has(frames, x)
    <2>1. PICK i \in 1 .. n + m : downlink'[i] = x
        BY <1>2, <1>5 DEF Has
    <2>2. CASE i <= n
        BY <2>1, <2>2, <1>1, <1>2 DEF Has, n
    <2>3. CASE ~(i <= n)
        <3>1. i - n \in 1 .. m
            BY <2>3, <1>1
        <3>2. frames[i - n] = x
            BY <2>1, <2>3, <1>2
        <3> QED  BY <3>1, <3>2 DEF Has, m
    <2> QED  BY <2>2, <2>3
<1>6. ASSUME NEW x, Has(downlink, x) PROVE Has(downlink', x)
    <2>1. PICK i \in 1 .. n : downlink[i] = x
        BY <1>6 DEF Has, n
    <2>2. i \in 1 .. Len(downlink')
        BY <1>1, <1>2
    <2> QED  BY <2>1, <2>2, <1>3 DEF Has
<1>7. ASSUME NEW x, Has(frames, x) PROVE Has(downlink', x)
    <2>1. PICK i \in 1 .. m : frames[i] = x
        BY <1>7 DEF Has, m
    <2>2. n + i \in 1 .. Len(downlink')
        BY <1>1, <1>2
    <2> QED  BY <2>1, <2>2, <1>4 DEF Has
<1> QED  BY <1>2, <1>3, <1>4, <1>5, <1>6, <1>7 DEF n, m

\* The answers of the MICB, by kind.
LEMMA Answers ==
    /\ \A k \in Kind : <<k>> \in Seq(Kind) /\ \A x : Has(<<k>>, x) <=> x = k
    /\ <<"SESSION_END", "OK">> \in Seq(Kind) /\ <<"OK", "SESSION_END">> \in Seq(Kind)
<1>1. ASSUME NEW k \in Kind PROVE <<k>> \in Seq(Kind) /\ \A x : Has(<<k>>, x) <=> x = k
    <2>1. Len(<<k>>) = 1 /\ <<k>>[1] = k /\ <<k>> \in Seq(Kind)
        OBVIOUS
    <2> QED  BY <2>1 DEF Has
<1> QED  BY <1>1 DEF Kind

\* With nothing under way the two agree, save for a session that is over.
LEMMA IdleSettled ==
    ASSUME TypeOK, TurnsInv, Idle
    PROVE  /\ Settled
           /\ s_controlling_conn = micb \/ (micb = NoConn /\ ousted)
<1>1. /\ host.pc = "idle" /\ rx.pc = "idle"
      /\ Len(tx_queue) = 0 /\ Len(downlink) = 0
    BY DEF Idle, HostIdle, RxIdle
<1>2. Settled
    BY <1>1 DEF TurnsInv, ClaimSent, Behind, ClaimGranted, OkComing, ClaimBinds
<1>3. ~ReleaseQueued /\ ~EndComing
    BY <1>1 DEF ReleaseQueued, EndComing, Has
<1> QED  BY <1>1, <1>2, <1>3 DEF Settled, Held

\* The parts of the invariant that a step which leaves the queues and the
\* session alone cannot disturb.
LEMMA WireKept ==
    ASSUME UNCHANGED <<tx_queue, downlink, micb, ousted>>
    PROVE  /\ ReleaseQueued' = ReleaseQueued
           /\ \A x : Has(downlink, x)' = Has(downlink, x)
           /\ \A c : OkComing(c)' = OkComing(c)
           /\ (rx'.pc = "end") = (rx.pc = "end") => EndComing' = EndComing
BY DEF ReleaseQueued, Has, OkComing, EndComing

\* A step that changes nothing the invariant speaks of.
LEMMA NothingTurns ==
    ASSUME TurnsInv,
           UNCHANGED <<s_controlling_conn, s_pending_claim_conn, tx_queue, downlink, micb, ousted, host>>,
           rx'.pc = rx.pc, rx'.conn = rx.conn
    PROVE  TurnsInv'
<1>1. Settled => Settled'
    BY WireKept DEF Settled, NoClaimSent, Held, OfHolder, RoomForRelease
<1>2. ASSUME NEW c \in Conn
      PROVE  /\ ClaimSent(c) => ClaimSent(c)'
             /\ ClaimGranted(c) => ClaimGranted(c)'
             /\ ClaimBinds(c) => ClaimBinds(c)'
    BY WireKept DEF ClaimSent, Held, ClaimGranted, ClaimBinds, OthersHandled, Behind
<1> QED  BY <1>1, <1>2 DEF TurnsInv

\* A link is gone: not the one whose claim is under way.
LEMMA DisconnectTurns ==
    ASSUME TurnsAssumed, TypeOK, TurnsInv, NEW c \in Conn, Disconnect(c)
    PROVE  TurnsInv'
<1>1. /\ host.pc = "idle" /\ c # NoConn /\ ~AwaitsClaim(c)
      /\ host'.pc = "check" /\ host'.cmd = "RELEASE" /\ host'.src = c
      /\ UNCHANGED <<s_controlling_conn, s_pending_claim_conn, tx_queue, downlink, micb, ousted, rx>>
    BY ConnAssumption
    DEF TurnsAssumed, Disconnect, MayDrop, AwaitsClaim, forget_claim, binding, wire, session, HostIdle
<1>2. Settled => Settled'
    BY <1>1, WireKept DEF Settled, NoClaimSent, Held, OfHolder, RoomForRelease
<1>3. ASSUME NEW d \in Conn, ClaimSent(d) PROVE ClaimSent(d)'
    BY <1>1, <1>3, WireKept DEF ClaimSent, Held, OthersHandled, Behind, AwaitsClaim
<1>4. ASSUME NEW d \in Conn, ClaimGranted(d) PROVE ClaimGranted(d)'
    BY <1>1, <1>4, WireKept DEF ClaimGranted, OthersHandled, Behind, AwaitsClaim
<1>5. ASSUME NEW d \in Conn, ClaimBinds(d) PROVE ClaimBinds(d)'
    BY <1>1, <1>5, WireKept DEF ClaimBinds, OthersHandled, Behind, AwaitsClaim
<1> QED  BY <1>2, <1>3, <1>4, <1>5 DEF TurnsInv

\* A client sends a frame when nothing is under way.
LEMMA FrameTurns ==
    ASSUME TurnsAssumed, TypeOK, TurnsInv, NEW c \in Conn,
           \/ ClaimFrame(c)
           \/ \E cmd \in {"RELEASE", "SET", "PING"} : ControllerFrame(c, cmd) \/ OtherFrame(c, cmd)
    PROVE  TurnsInv'
<1>1. /\ Idle /\ c # NoConn
      /\ UNCHANGED <<s_controlling_conn, tx_queue, downlink, micb, ousted, rx>>
    BY ConnAssumption
    DEF TurnsAssumed, ClaimFrame, ControllerFrame, OtherFrame, FrameArrives, MaySend, wire, session,
        binding
<1>2. /\ host.pc = "idle" /\ rx.pc = "idle" /\ tx_queue = << >>
      /\ Len(tx_queue) = 0 /\ Len(downlink) = 0
    BY <1>1 DEF Idle, HostIdle, RxIdle
<1>3. /\ Settled
      /\ s_controlling_conn = micb \/ (micb = NoConn /\ ousted)
    BY <1>1, IdleSettled
<1>4. ~EndComing' /\ ~Has(downlink, "OK")'
    BY <1>1, <1>2 DEF EndComing, Has
<1>5. CASE ClaimFrame(c)
    <2>1. /\ host'.pc = "forward" /\ host'.cmd = "CLAIM" /\ host'.src = c
          /\ s_pending_claim_conn' = c
        BY <1>5 DEF ClaimFrame
    <2>2. ClaimSent(c)'
        BY <2>1, <1>1, <1>2, <1>3, <1>4 DEF ClaimSent, Held
    <2> QED  BY <2>2 DEF TurnsInv
<1>6. ASSUME NEW cmd \in {"RELEASE", "SET", "PING"}, ControllerFrame(c, cmd) \/ OtherFrame(c, cmd)
      PROVE  TurnsInv'
    <2>1. /\ host'.pc = IF cmd = "RELEASE" /\ s_controlling_conn = c THEN "release" ELSE "forward"
          /\ host'.cmd = cmd /\ host'.src = c
          /\ UNCHANGED s_pending_claim_conn
          /\ cmd = "SET" => s_controlling_conn = c
        BY <1>6 DEF ControllerFrame, OtherFrame, requires_claim
    <2>2. Settled'
        BY <2>1, <1>1, <1>2, <1>3, <1>4 DEF Settled, NoClaimSent, Held, OfHolder, RoomForRelease
    <2> QED  BY <2>2 DEF TurnsInv
<1> QED  BY <1>5, <1>6

\* The controller's own disconnection goes on to its RELEASE, anyone else's ends.
LEMMA CheckTurns == ASSUME TypeOK, ClosingInv, TurnsInv, CheckController PROVE TurnsInv'
<1>1. /\ host.pc = "check" /\ host.src # NoConn
      /\ UNCHANGED <<s_controlling_conn, s_pending_claim_conn, tx_queue, downlink, micb, ousted>>
      /\ rx'.pc = rx.pc /\ rx'.conn = rx.conn
      /\ \/ /\ s_controlling_conn = host.src
            /\ host'.pc = "release" /\ host'.cmd = host.cmd /\ host'.src = host.src
         \/ host'.pc = "idle"
    BY ConnAssumption
    DEF CheckController, is_controller, Gone, ClosingInv, binding, wire, session, HostIdle, TypeOK
<1>2. Settled => Settled'
    BY <1>1, WireKept DEF Settled, NoClaimSent, Held, OfHolder, RoomForRelease
<1>3. ASSUME NEW d \in Conn, ClaimSent(d) PROVE ClaimSent(d)'
    BY <1>1, <1>3, WireKept DEF ClaimSent, Held, OthersHandled, Behind
<1>4. ASSUME NEW d \in Conn, ClaimGranted(d) PROVE ClaimGranted(d)'
    BY <1>1, <1>4, WireKept DEF ClaimGranted, OthersHandled, Behind
<1>5. ASSUME NEW d \in Conn, ClaimBinds(d) PROVE ClaimBinds(d)'
    BY <1>1, <1>5, WireKept DEF ClaimBinds, OthersHandled, Behind
<1> QED  BY <1>2, <1>3, <1>4, <1>5 DEF TurnsInv

\* The binding is cleared behind the RELEASE.
LEMMA ClearTurns == ASSUME TypeOK, TurnsInv, Clear PROVE TurnsInv'
<1>1. /\ host.pc = "clear" /\ host'.pc = "idle" /\ s_controlling_conn' = NoConn
      /\ UNCHANGED <<s_pending_claim_conn, tx_queue, downlink, micb, ousted>>
      /\ rx'.pc = rx.pc /\ rx'.conn = rx.conn
    BY DEF Clear, clear_binding, Gone, wire, session, HostIdle, TypeOK
<1>2. Settled => Settled'
    BY <1>1, WireKept DEF Settled, NoClaimSent, Held, OfHolder, RoomForRelease
<1>3. ASSUME NEW d \in Conn, ClaimSent(d) PROVE ClaimSent(d)'
    BY <1>1, <1>3, WireKept DEF ClaimSent, Held, OthersHandled, Behind
<1>4. ASSUME NEW d \in Conn, ClaimGranted(d) PROVE ClaimGranted(d)'
    BY <1>1, <1>4, WireKept DEF ClaimGranted, OthersHandled, Behind
<1>5. ASSUME NEW d \in Conn, ClaimBinds(d) PROVE ClaimBinds(d)'
    BY <1>1, <1>5, WireKept DEF ClaimBinds, OthersHandled, Behind
<1> QED  BY <1>2, <1>3, <1>4, <1>5 DEF TurnsInv

\* The host task queues what it has in hand: there is room for it.
LEMMA ForwardTurns == ASSUME TurnsAssumed, TypeOK, TurnsInv, Forward PROVE TurnsInv'
<1> DEFINE f == [cmd |-> host.cmd, src |-> host.src]
           n == Len(tx_queue)
<1>1. /\ UNCHANGED <<s_controlling_conn, s_pending_claim_conn, rx, downlink, micb, ousted>>
      /\ \/ host.pc = "forward" /\ host'.pc = "idle"
         \/ /\ host.pc = "release" /\ host'.pc = "clear"
            /\ host'.cmd = host.cmd /\ host'.src = host.src
      /\ tx_queue \in Seq(Frame) /\ f \in Frame
    BY DEF Forward, binding, session, TypeOK, HostIdle, Frame
<1>2. n \in Nat
    BY <1>1, LenProperties
<1>3. n <= 1 /\ (host.pc = "forward" => n = 0)
    <2>1. Settled => n <= 1 /\ (host.pc = "forward" => n = 0)
        BY <1>1 DEF Settled, RoomForRelease
    <2>2. ASSUME NEW c \in Conn, ClaimSent(c) PROVE n <= 1 /\ (host.pc = "forward" => n = 0)
        BY <1>1, <2>2 DEF ClaimSent, OthersHandled, Behind
    <2>3. ASSUME NEW c \in Conn, ClaimGranted(c) \/ ClaimBinds(c) PROVE n = 0 /\ host.pc # "forward"
        BY <1>1, <2>3 DEF ClaimGranted, ClaimBinds, OthersHandled, Behind
    <2> HIDE DEF n
    <2> QED  BY <2>1, <2>2, <2>3 DEF TurnsInv
<1>4. tx_queue' = Append(tx_queue, f)
    BY <1>2, <1>3, BoundAssumption DEF TurnsAssumed, Forward, Queued
<1>5. /\ Len(tx_queue') = n + 1 /\ tx_queue'[n + 1] = f
      /\ \A i \in 1 .. n : tx_queue'[i] = tx_queue[i]
    BY <1>1, <1>4, AppendProperties
<1>6. /\ f.cmd = host.cmd /\ f.src = host.src
      /\ \A i \in 1 .. n + 1 : i = n + 1 \/ i \in 1 .. n
      /\ n + 1 \in 1 .. n + 1 /\ \A i \in 1 .. n : i \in 1 .. n + 1
    BY <1>2
<1> HIDE DEF f
<1>7. ReleaseQueued' <=> ReleaseQueued \/ host.cmd = "RELEASE"
    <2> HIDE DEF n
    <2>1. ReleaseQueued <=> \E i \in 1 .. n : tx_queue[i].cmd = "RELEASE"
        BY DEF ReleaseQueued, n
    <2>2. ReleaseQueued' <=> \E i \in 1 .. n + 1 : tx_queue'[i].cmd = "RELEASE"
        BY <1>5 DEF ReleaseQueued
    <2> QED  BY <2>1, <2>2, <1>5, <1>6
<1>8. EndComing' = EndComing /\ \A x : Has(downlink, x)' = Has(downlink, x)
    BY <1>1 DEF EndComing, Has
<1>9. \A c : OkComing(c)' = OkComing(c)
    BY <1>1 DEF OkComing
<1>10. CASE Settled
    <2>1. NoClaimSent'
        BY <1>1, <1>2, <1>5, <1>6, <1>10 DEF Settled, NoClaimSent
    <2>2. Held'
        BY <1>1, <1>7, <1>8, <1>10 DEF Settled, Held
    <2>3. micb' # NoConn => OfHolder'
        BY <1>1, <1>2, <1>5, <1>6, <1>10 DEF Settled, OfHolder
    <2>4. RoomForRelease'
        BY <1>1, <1>2, <1>3, <1>5, <1>10 DEF Settled, RoomForRelease
    <2>5. Settled'
        BY <2>1, <2>2, <2>3, <2>4, <1>1, <1>8, <1>10 DEF Settled
    <2> QED  BY <2>5 DEF TurnsInv
<1>11. ASSUME NEW c \in Conn, ClaimSent(c) PROVE ClaimSent(c)'
    <2>1. Held'
        BY <1>1, <1>7, <1>8, <1>11 DEF ClaimSent, Held, OthersHandled
    <2>2. CASE host.pc = "forward"
        BY <2>1, <2>2, <1>1, <1>2, <1>3, <1>5, <1>6, <1>8, <1>11
        DEF ClaimSent, OthersHandled, Behind, f
    <2>3. CASE host.pc = "release"
        <3>1. OthersHandled(c) /\ n = 1 /\ tx_queue[1] = [cmd |-> "CLAIM", src |-> c]
            BY <1>11, <2>3 DEF ClaimSent, Behind
        <3>2. tx_queue'[1] = tx_queue[1] /\ tx_queue'[2] = f /\ Len(tx_queue') = 2
            BY <1>5, <3>1
        <3>3. OthersHandled(c)' /\ Behind(c, 1)'
            BY <2>3, <3>1, <3>2, <1>1, <1>6 DEF OthersHandled, Behind
        <3> QED  BY <2>1, <2>3, <3>1, <3>2, <3>3, <1>1, <1>8, <1>11 DEF ClaimSent
    <2> QED  BY <2>2, <2>3, <1>1
<1>12. ASSUME NEW c \in Conn, ClaimGranted(c) PROVE ClaimGranted(c)'
    BY <1>1, <1>2, <1>5, <1>6, <1>7, <1>9, <1>12 DEF ClaimGranted, OthersHandled, Behind
<1>13. ASSUME NEW c \in Conn, ClaimBinds(c) PROVE ClaimBinds(c)'
    BY <1>1, <1>2, <1>5, <1>6, <1>7, <1>8, <1>13 DEF ClaimBinds, OthersHandled, Behind
<1> QED  BY <1>10, <1>11, <1>12, <1>13 DEF TurnsInv

\* The receive task takes the next frame; the OK of the CLAIM starts a binding.
LEMMA TakeTurns == ASSUME TypeOK, TurnsInv, RxTake PROVE TurnsInv'
<1> DEFINE n == Len(downlink)
<1>1. /\ rx.pc = "idle" /\ downlink # << >> /\ downlink' = Tail(downlink)
      /\ UNCHANGED <<s_controlling_conn, s_pending_claim_conn, host, tx_queue, micb, ousted>>
      /\ downlink \in Seq(Kind)
    BY DEF RxTake, binding, session, TypeOK
<1>2. /\ n \in Nat \ {0} /\ Len(downlink') = n - 1 /\ Head(downlink) = downlink[1]
      /\ \A i \in 1 .. n - 1 : downlink'[i] = downlink[i + 1]
      /\ \A x : Has(downlink, x) <=> Head(downlink) = x \/ Has(downlink', x)
    BY <1>1, HasTail
<1>3. /\ Head(downlink) = "OK" /\ s_pending_claim_conn # NoConn => rx'.pc = "bind_read"
      /\ Head(downlink) = "SESSION_END" => rx'.pc = "end"
      /\ Head(downlink) # "SESSION_END" /\ ~(Head(downlink) = "OK" /\ s_pending_claim_conn # NoConn)
            => rx'.pc = "idle"
    BY DEF RxTake, RxIdle
<1>4. ReleaseQueued' = ReleaseQueued
    BY <1>1 DEF ReleaseQueued
<1>5. rx'.pc \in {"idle", "end"} => EndComing' = EndComing
    BY <1>1, <1>2, <1>3 DEF EndComing, Has
<1>6. CASE Settled
    <2>1. rx'.pc \in {"idle", "end"}
        BY <1>3, <1>6 DEF Settled
    <2>2. Settled'
        BY <2>1, <1>1, <1>4, <1>5, <1>6 DEF Settled, NoClaimSent, Held, OfHolder, RoomForRelease
    <2> QED  BY <2>2 DEF TurnsInv
<1>7. ASSUME NEW c \in Conn, ClaimSent(c) PROVE TurnsInv'
    <2>1. ~Has(downlink, "OK")' /\ Head(downlink) # "OK"
        BY <1>2, <1>7 DEF ClaimSent, Has
    <2>2. rx'.pc \in {"idle", "end"}
        BY <2>1, <1>3
    <2>3. ClaimSent(c)'
        BY <2>1, <2>2, <1>1, <1>4, <1>5, <1>7 DEF ClaimSent, Held, OthersHandled, Behind
    <2> QED  BY <2>3 DEF TurnsInv
<1>8. ASSUME NEW c \in Conn, ClaimGranted(c) PROVE TurnsInv'
    <2>1. PICK k \in 1 .. n :
            /\ downlink[k] = "OK"
            /\ \A j \in 1 .. k - 1 : downlink[j] # "OK"
            /\ \/ micb = c /\ \A j \in k + 1 .. n : downlink[j] # "SESSION_END"
               \/ micb = NoConn /\ (ousted \/ \E j \in k + 1 .. n : downlink[j] = "SESSION_END")
        BY <1>8 DEF ClaimGranted, OkComing
    <2>2. OthersHandled(c)' /\ Behind(c, 0)'
        BY <1>1, <1>8 DEF ClaimGranted, OthersHandled, Behind
    <2>3. s_pending_claim_conn = c /\ c # NoConn /\ (micb = c /\ host.pc = "clear" => ReleaseQueued)
        BY <1>8, ConnAssumption DEF ClaimGranted
    <2>4. CASE k = 1
        <3>1. rx'.pc = "bind_read"
            BY <2>1, <2>3, <2>4, <1>2, <1>3
        <3>2. \A j \in 1 + 1 .. n : j - 1 \in 1 .. n - 1 /\ (j - 1) + 1 = j
            BY <1>2
        <3>3. \A j \in 1 .. n - 1 : j + 1 \in 1 + 1 .. n
            BY <1>2
        <3>4. Has(downlink, "SESSION_END")' <=> \E j \in 1 + 1 .. n : downlink[j] = "SESSION_END"
            <4>1. ASSUME NEW j \in 1 + 1 .. n, downlink[j] = "SESSION_END"
                  PROVE  Has(downlink, "SESSION_END")'
                <5>1. j - 1 \in 1 .. Len(downlink') /\ downlink'[j - 1] = "SESSION_END"
                    BY <4>1, <3>2, <1>2
                <5> QED  BY <5>1 DEF Has
            <4>2. ASSUME NEW j \in 1 .. n - 1, downlink'[j] = "SESSION_END"
                  PROVE  \E i \in 1 + 1 .. n : downlink[i] = "SESSION_END"
                BY <4>2, <3>3, <1>2
            <4> QED  BY <4>1, <4>2, <1>2 DEF Has
        <3>5. ClaimBinds(c)'
            BY <3>1, <3>4, <2>1, <2>2, <2>3, <2>4, <1>1, <1>4 DEF ClaimBinds
        <3> QED  BY <3>5 DEF TurnsInv
    <2>5. CASE k # 1
        <3>1. Head(downlink) # "OK"
            BY <2>1, <2>5, <1>2
        <3>2. /\ k - 1 \in 1 .. n - 1
              /\ \A j \in 1 .. (k - 1) - 1 : j \in 1 .. n - 1 /\ j + 1 \in 1 .. k - 1
              /\ \A j \in (k - 1) + 1 .. n - 1 : j \in 1 .. n - 1 /\ j + 1 \in k + 1 .. n
              /\ \A j \in k + 1 .. n : j - 1 \in (k - 1) + 1 .. n - 1 /\ (j - 1) + 1 = j
                                       /\ j - 1 \in 1 .. n - 1
            BY <2>5, <1>2
        <3>3. downlink'[k - 1] = "OK" /\ \A j \in 1 .. (k - 1) - 1 : downlink'[j] # "OK"
            BY <3>2, <2>1, <1>2
        <3>4. /\ (\A j \in k + 1 .. n : downlink[j] # "SESSION_END")
                    => \A j \in (k - 1) + 1 .. n - 1 : downlink'[j] # "SESSION_END"
              /\ (\E j \in k + 1 .. n : downlink[j] = "SESSION_END")
                    => \E j \in (k - 1) + 1 .. n - 1 : downlink'[j] = "SESSION_END"
            BY <3>2, <1>2
        <3>5. OkComing(c)'
            BY <3>2, <3>3, <3>4, <2>1, <1>1, <1>2 DEF OkComing
        <3>6. rx'.pc \in {"idle", "end"}
            BY <3>1, <1>3
        <3>7. ClaimGranted(c)'
            BY <3>5, <3>6, <2>2, <2>3, <1>1, <1>4 DEF ClaimGranted
        <3> QED  BY <3>7 DEF TurnsInv
    <2> QED  BY <2>4, <2>5
<1> QED  BY <1>1, <1>6, <1>7, <1>8 DEF TurnsInv, ClaimBinds

\* The binding is made in either order; with its last store all is settled.
LEMMA BindTurns ==
    ASSUME TypeOK, TurnsInv, BindRead \/ BindClear \/ BindSet
    PROVE  TurnsInv'
<1>1. /\ UNCHANGED <<host, tx_queue, downlink, micb, ousted>>
      /\ rx.pc \in {"bind_read", "bind", "bind_set", "bind_clear"}
    BY DEF BindRead, BindClear, BindSet, wire, session
<1>2. PICK c \in Conn : ClaimBinds(c)
    BY <1>1 DEF TurnsInv, Settled, ClaimSent, ClaimGranted
<1>3. /\ ReleaseQueued' = ReleaseQueued /\ \A x : Has(downlink, x)' = Has(downlink, x)
      /\ c # NoConn /\ Len(tx_queue) <= 1
    BY <1>1, <1>2, ConnAssumption DEF ReleaseQueued, Has, ClaimBinds, Behind
<1>4. CASE BindRead
    <2>1. rx'.pc = "bind" /\ rx'.conn = c /\ UNCHANGED <<s_controlling_conn, s_pending_claim_conn>>
        BY <1>2, <1>4 DEF BindRead, ClaimBinds, binding, TypeOK
    <2>2. ClaimBinds(c)'
        BY <2>1, <1>1, <1>2, <1>3, <1>4 DEF BindRead, ClaimBinds, OthersHandled, Behind
    <2> QED  BY <2>2 DEF TurnsInv
<1>5. CASE BindClear /\ rx.pc = "bind"
    <2>1. /\ rx'.pc = "bind_set" /\ rx'.conn = c
          /\ s_pending_claim_conn' = NoConn /\ UNCHANGED s_controlling_conn
        BY <1>2, <1>5 DEF BindClear, ClaimBinds, binding, TypeOK
    <2>2. ClaimBinds(c)'
        BY <2>1, <1>1, <1>2, <1>3, <1>5 DEF ClaimBinds, OthersHandled, Behind
    <2> QED  BY <2>2 DEF TurnsInv
<1>6. CASE BindSet /\ rx.pc = "bind"
    <2>1. /\ rx'.pc = "bind_clear"
          /\ s_controlling_conn' = c /\ UNCHANGED s_pending_claim_conn
        BY <1>2, <1>6 DEF BindSet, ClaimBinds, TypeOK
    <2>2. ClaimBinds(c)'
        BY <2>1, <1>1, <1>2, <1>3, <1>6 DEF ClaimBinds, OthersHandled, Behind
    <2> QED  BY <2>2 DEF TurnsInv
<1>7. CASE (BindClear /\ rx.pc = "bind_clear") \/ (BindSet /\ rx.pc = "bind_set")
    <2>1. /\ rx'.pc = "idle" /\ s_pending_claim_conn' = NoConn
          /\ \/ s_controlling_conn' = c
             \/ s_controlling_conn' = NoConn /\ (micb = c => ReleaseQueued)
        BY <1>2, <1>7 DEF BindClear, BindSet, ClaimBinds, binding, RxIdle
    <2>2. \/ micb = c /\ ~EndComing'
          \/ micb = NoConn /\ (ousted \/ EndComing')
        BY <2>1, <1>2, <1>3 DEF ClaimBinds, EndComing
    <2>3. Held' /\ (micb' = NoConn => EndComing' \/ ousted')
        BY <2>1, <2>2, <1>1, <1>2, <1>3 DEF ClaimBinds, Held
    <2>4. /\ \A i \in 1 .. Len(tx_queue) : tx_queue[i].cmd = "RELEASE" /\ tx_queue[i].src # c
          /\ host.pc = "release" => Len(tx_queue) <= 1
          /\ host.pc # "forward" /\ (host.pc # "idle" => host.cmd = "RELEASE")
        BY <1>2, <1>3 DEF ClaimBinds, OthersHandled, Behind
    <2>5. NoClaimSent' /\ RoomForRelease' /\ (micb' # NoConn => OfHolder')
        BY <2>2, <2>4, <1>1, <1>3 DEF NoClaimSent, RoomForRelease, OfHolder
    <2>6. Settled'
        BY <2>1, <2>3, <2>4, <2>5, <1>1 DEF Settled
    <2> QED  BY <2>6 DEF TurnsInv
<1> QED  BY <1>4, <1>5, <1>6, <1>7 DEF BindClear, BindSet

\* The session has ended: so has the binding.
LEMMA EndTurns == ASSUME TypeOK, TurnsInv, EndClear PROVE TurnsInv'
<1>1. /\ rx.pc = "end" /\ rx'.pc = "idle" /\ s_controlling_conn' = NoConn
      /\ UNCHANGED <<s_pending_claim_conn, host, tx_queue, downlink, micb, ousted>>
      /\ EndComing
    BY DEF EndClear, clear_binding, RxIdle, wire, session, EndComing
<1>2. /\ ReleaseQueued' = ReleaseQueued /\ \A x : Has(downlink, x)' = Has(downlink, x)
      /\ \A c : OkComing(c)' = OkComing(c)
    BY <1>1 DEF ReleaseQueued, Has, OkComing
<1>3. CASE Settled
    <2>1. micb = NoConn
        BY <1>1, <1>3 DEF Settled, Held
    <2>2. Settled'
        BY <2>1, <1>1, <1>3 DEF Settled, NoClaimSent, Held, RoomForRelease
    <2> QED  BY <2>2 DEF TurnsInv
<1>4. ASSUME NEW c \in Conn, ClaimSent(c) PROVE ClaimSent(c)'
    <2>1. micb = NoConn
        BY <1>1, <1>4 DEF ClaimSent, Held
    <2> QED  BY <2>1, <1>1, <1>2, <1>4 DEF ClaimSent, Held, OthersHandled, Behind
<1>5. ASSUME NEW c \in Conn, ClaimGranted(c) PROVE ClaimGranted(c)'
    BY <1>1, <1>2, <1>5 DEF ClaimGranted, OthersHandled, Behind
<1> QED  BY <1>1, <1>3, <1>4, <1>5 DEF TurnsInv, ClaimBinds

\* What the MICB's handling of the oldest frame adds to the downlink.
LEMMA Answered ==
    ASSUME TurnsAssumed, TypeOK, TxTask
    PROVE  LET f == Head(tx_queue)
           IN  \/ f.cmd = "CLAIM" /\ micb' = f.src /\ ousted' = FALSE /\ Emit(<<"OK">>)
               \/ /\ f.cmd = "RELEASE" /\ micb # NoConn
                  /\ micb' = NoConn /\ ousted' = (f.src # micb)
                  /\ Emit(<<"OK">>) \/ Emit(<<"SESSION_END", "OK">>) \/ Emit(<<"OK", "SESSION_END">>)
               \/ /\ f.cmd = "RELEASE" /\ micb = NoConn
                  /\ UNCHANGED <<micb, ousted>> /\ Emit(<<"ERROR">>)
               \/ /\ f.cmd \in {"SET", "PING"} /\ UNCHANGED <<micb, ousted>>
                  /\ Emit(<<"OK">>) \/ Emit(<<"ERROR">>)
BY DEF TxTask, MicbClaim, MicbRelease, MicbOther, session, TurnsAssumed

\* An OK on its way stays on its way behind what else is emitted, unless that
\* is the end of the session; where a RELEASE ends it, what else is does not matter.
LEMMA OkKept ==
    ASSUME TypeOK, NEW frames \in Seq(Kind), Emit(frames), NEW c, OkComing(c),
           \/ UNCHANGED <<micb, ousted>> /\ ~Has(frames, "SESSION_END")
           \/ micb' = NoConn /\ ousted'
    PROVE  OkComing(c)'
<1> DEFINE n == Len(downlink)
           m == Len(frames)
<1>1. n \in Nat /\ m \in Nat
    BY LenProperties DEF TypeOK
<1>2. /\ Len(downlink') = n + m
      /\ \A i \in 1 .. n : downlink'[i] = downlink[i]
      /\ \A i \in 1 .. m : downlink'[n + i] = frames[i]
    BY EmitHas DEF TypeOK
<1>3. PICK k \in 1 .. n :
        /\ downlink[k] = "OK"
        /\ \A j \in 1 .. k - 1 : downlink[j] # "OK"
        /\ \/ micb = c /\ \A j \in k + 1 .. n : downlink[j] # "SESSION_END"
           \/ micb = NoConn /\ (ousted \/ \E j \in k + 1 .. n : downlink[j] = "SESSION_END")
    BY DEF OkComing
<1>4. ~Has(frames, "SESSION_END") => \A i \in 1 .. m : frames[i] # "SESSION_END"
    BY DEF Has
<1> HIDE DEF n, m
<1>5. /\ k \in 1 .. n + m
      /\ \A j \in 1 .. k - 1 : j \in 1 .. n
      /\ \A j \in k + 1 .. n : j \in k + 1 .. n + m /\ j \in 1 .. n
      /\ \A j \in k + 1 .. n + m : j \in k + 1 .. n \/ (j - n \in 1 .. m /\ n + (j - n) = j)
    BY <1>1
<1>6. downlink'[k] = "OK" /\ \A j \in 1 .. k - 1 : downlink'[j] # "OK"
    BY <1>2, <1>3, <1>5
<1>7. CASE micb' = NoConn /\ ousted'
    BY <1>2, <1>5, <1>6, <1>7 DEF OkComing
<1>8. CASE UNCHANGED <<micb, ousted>> /\ ~Has(frames, "SESSION_END")
    <2>1. (\A j \in k + 1 .. n : downlink[j] # "SESSION_END")
              => \A j \in k + 1 .. n + m : downlink'[j] # "SESSION_END"
        BY <1>2, <1>4, <1>5, <1>8
    <2>2. (\E j \in k + 1 .. n : downlink[j] = "SESSION_END")
              => \E j \in k + 1 .. n + m : downlink'[j] = "SESSION_END"
        BY <1>2, <1>5
    <2> QED  BY <2>1, <2>2, <1>2, <1>3, <1>5, <1>6, <1>8 DEF OkComing
<1> QED  BY <1>7, <1>8

\* tx_task writes the oldest frame and the MICB handles it.
LEMMA MicbTurns == ASSUME TurnsAssumed, TypeOK, TurnsInv, TxTask PROVE TurnsInv'
<1> DEFINE n == Len(tx_queue)
           f == Head(tx_queue)
<1>1. /\ tx_queue # << >> /\ tx_queue' = Tail(tx_queue)
      /\ UNCHANGED <<s_controlling_conn, s_pending_claim_conn, host, rx>>
      /\ tx_queue \in Seq(Frame)
    BY DEF TxTask, binding, TypeOK
<1>2. /\ n \in Nat \ {0} /\ Len(tx_queue') = n - 1 /\ f = tx_queue[1]
      /\ \A i \in 1 .. n - 1 : tx_queue'[i] = tx_queue[i + 1]
    BY <1>1, HasTail
<1>3. \A i \in 1 .. n - 1 : i + 1 \in 1 .. n
    BY <1>2
<1>4. \/ f.cmd = "CLAIM" /\ micb' = f.src /\ ousted' = FALSE /\ Emit(<<"OK">>)
      \/ /\ f.cmd = "RELEASE" /\ micb # NoConn
         /\ micb' = NoConn /\ ousted' = (f.src # micb)
         /\ Emit(<<"OK">>) \/ Emit(<<"SESSION_END", "OK">>) \/ Emit(<<"OK", "SESSION_END">>)
      \/ f.cmd = "RELEASE" /\ micb = NoConn /\ UNCHANGED <<micb, ousted>> /\ Emit(<<"ERROR">>)
      \/ /\ f.cmd \in {"SET", "PING"} /\ UNCHANGED <<micb, ousted>>
         /\ Emit(<<"OK">>) \/ Emit(<<"ERROR">>)
    BY Answered
<1>5. ReleaseQueued <=> f.cmd = "RELEASE" \/ ReleaseQueued'
    <2> HIDE DEF f, n
    <2>1. \A i \in 1 .. n : i = 1 \/ (i - 1 \in 1 .. n - 1 /\ (i - 1) + 1 = i)
        BY <1>2
    <2>2. ReleaseQueued <=> \E i \in 1 .. n : tx_queue[i].cmd = "RELEASE"
        BY DEF ReleaseQueued, n
    <2>3. ReleaseQueued' <=> \E i \in 1 .. n - 1 : tx_queue'[i].cmd = "RELEASE"
        BY <1>2 DEF ReleaseQueued
    <2>4. 1 \in 1 .. n
        BY <1>2
    <2>5. ASSUME NEW i \in 1 .. n, tx_queue[i].cmd = "RELEASE"
          PROVE  f.cmd = "RELEASE" \/ \E j \in 1 .. n - 1 : tx_queue'[j].cmd = "RELEASE"
        <3>1. CASE i = 1
            BY <2>5, <3>1, <1>2
        <3>2. CASE i # 1
            <4>1. i - 1 \in 1 .. n - 1 /\ tx_queue'[i - 1] = tx_queue[i]
                BY <3>2, <2>1, <1>2
            <4> QED  BY <4>1, <2>5
        <3> QED  BY <3>1, <3>2
    <2>6. ASSUME NEW j \in 1 .. n - 1, tx_queue'[j].cmd = "RELEASE"
          PROVE  \E i \in 1 .. n : tx_queue[i].cmd = "RELEASE"
        BY <2>6, <1>2, <1>3
    <2> QED  BY <2>2, <2>3, <2>4, <2>5, <2>6, <1>2
<1>6. ASSUME NEW k \in {"OK", "ERROR"}, Emit(<<k>>)
      PROVE  /\ EndComing' = EndComing
             /\ Has(downlink, "SESSION_END")' = Has(downlink, "SESSION_END")
    <2>1. <<k>> \in Seq(Kind) /\ ~Has(<<k>>, "SESSION_END")
        BY Answers DEF Kind
    <2>2. Has(downlink', "SESSION_END") <=> Has(downlink, "SESSION_END")
        BY <2>1, <1>6, EmitHas DEF TypeOK
    <2> QED  BY <2>2, <1>1 DEF EndComing, Has
<1> HIDE DEF f, n
<1>7. CASE Settled
    <2>1. f.cmd # "CLAIM" /\ 1 \in 1 .. n
        BY <1>2, <1>7 DEF Settled, NoClaimSent, n
    <2>2. NoClaimSent' /\ RoomForRelease'
        BY <1>1, <1>2, <1>3, <1>7 DEF Settled, NoClaimSent, RoomForRelease, n
    <2>3. CASE f.cmd = "RELEASE" /\ micb # NoConn /\ micb' = NoConn /\ ousted' = (f.src # micb)
        <3>1. f.src = micb => s_controlling_conn = NoConn \/ host.pc = "clear"
            BY <2>1, <2>3, <1>2, <1>7 DEF Settled, OfHolder, n
        <3>2. Held'
            BY <2>3 DEF Held
        <3> QED  BY <2>2, <2>3, <3>1, <3>2, <1>1, <1>7 DEF Settled, TurnsInv
    <2>4. CASE UNCHANGED <<micb, ousted>> /\ EndComing' = EndComing /\ (micb = NoConn \/ f.cmd # "RELEASE")
        <3>1. Held'
            BY <2>4, <1>1, <1>5, <1>7 DEF Settled, Held
        <3>2. micb' # NoConn => OfHolder'
            BY <2>4, <1>1, <1>2, <1>3, <1>7 DEF Settled, OfHolder, n
        <3> QED  BY <2>2, <2>4, <3>1, <3>2, <1>1, <1>7 DEF Settled, TurnsInv
    <2> QED  BY <2>1, <2>3, <2>4, <1>4, <1>6
<1>8. ASSUME NEW c \in Conn, ClaimSent(c) PROVE TurnsInv'
    <2>1. /\ OthersHandled(c) /\ Behind(c, 1) /\ f.cmd = "CLAIM" /\ f.src = c
          /\ host.pc = "clear" => n = 2
        BY <1>1, <1>2, <1>8, EmptySeq DEF ClaimSent, n
    <2>2. micb' = c /\ ousted' = FALSE /\ Emit(<<"OK">>)
        BY <2>1, <1>4
    <2>3. n \in 1 .. 2 /\ \A i \in 2 .. n : tx_queue[i].cmd = "RELEASE" /\ tx_queue[i].src # c
        BY <2>1 DEF Behind, n
    <2>4. OthersHandled(c)' /\ Behind(c, 0)'
        <3>1. \A i \in 1 .. n - 1 : tx_queue'[i].cmd = "RELEASE" /\ tx_queue'[i].src # c
            BY <2>3, <1>2
        <3> QED  BY <2>1, <2>3, <3>1, <1>1, <1>2 DEF OthersHandled, Behind, n
    <2>5. host.pc = "clear" => ReleaseQueued'
        <3> SUFFICES ASSUME host.pc = "clear" PROVE ReleaseQueued'
            OBVIOUS
        <3>1. 1 \in 1 .. Len(tx_queue') /\ tx_queue'[1] = tx_queue[2] /\ tx_queue[2].cmd = "RELEASE"
            BY <2>1, <2>3, <1>2
        <3> QED  BY <3>1 DEF ReleaseQueued
    <2>6. OkComing(c)'
        <3> DEFINE d == Len(downlink)
        <3>1. d \in Nat /\ <<"OK">> \in Seq(Kind) /\ Len(<<"OK">>) = 1 /\ <<"OK">>[1] = "OK"
            BY Answers, LenProperties DEF Kind, TypeOK
        <3>2. /\ Len(downlink') = d + 1 /\ downlink'[d + 1] = "OK"
              /\ \A i \in 1 .. d : downlink'[i] = downlink[i]
            <4>1. /\ Len(downlink') = d + Len(<<"OK">>)
                  /\ \A i \in 1 .. d : downlink'[i] = downlink[i]
                  /\ \A i \in 1 .. Len(<<"OK">>) : downlink'[d + i] = <<"OK">>[i]
                BY <2>2, <3>1, EmitHas DEF TypeOK
            <4> QED  BY <4>1, <3>1
        <3>3. \A i \in 1 .. d : downlink[i] # "OK"
            BY <1>8 DEF ClaimSent, Has
        <3> HIDE DEF d
        <3>4. /\ d + 1 \in 1 .. Len(downlink')
              /\ \A j \in 1 .. (d + 1) - 1 : downlink'[j] # "OK"
              /\ \A j \in (d + 1) + 1 .. Len(downlink') : downlink'[j] # "SESSION_END"
            BY <3>1, <3>2, <3>3
        <3> QED  BY <3>2, <3>4, <2>2 DEF OkComing
    <2>7. ClaimGranted(c)'
        BY <2>2, <2>4, <2>5, <2>6, <1>1, <1>8 DEF ClaimSent, ClaimGranted
    <2> QED  BY <2>7 DEF TurnsInv
<1>9. ASSUME NEW c \in Conn, OthersHandled(c), Behind(c, 0)
      PROVE  /\ f.cmd = "RELEASE" /\ f.src # c
             /\ OthersHandled(c)' /\ Behind(c, 0)'
    <2>1. n = 1 /\ f.cmd = "RELEASE" /\ f.src # c
        BY <1>2, <1>9 DEF Behind, n
    <2> QED  BY <2>1, <1>1, <1>2, <1>9 DEF OthersHandled, Behind, n
<1>10. ASSUME NEW c \in Conn, ClaimGranted(c) PROVE ClaimGranted(c)'
    <2>1. /\ f.cmd = "RELEASE" /\ f.src # c /\ OthersHandled(c)' /\ Behind(c, 0)'
          /\ micb \in {c, NoConn}
        BY <1>9, <1>10 DEF ClaimGranted, OkComing
    <2>2. OkComing(c)' /\ micb' = NoConn
        <3>1. CASE micb # NoConn
            <4>1. /\ micb' = NoConn /\ ousted'
                  /\ Emit(<<"OK">>) \/ Emit(<<"SESSION_END", "OK">>) \/ Emit(<<"OK", "SESSION_END">>)
                BY <2>1, <3>1, <1>4
            <4> QED  BY <4>1, <1>10, Answers, OkKept DEF ClaimGranted, Kind
        <3>2. CASE micb = NoConn
            <4>1. UNCHANGED <<micb, ousted>> /\ Emit(<<"ERROR">>)
                BY <2>1, <3>2, <1>4
            <4>2. <<"ERROR">> \in Seq(Kind) /\ ~Has(<<"ERROR">>, "SESSION_END")
                BY Answers DEF Kind
            <4> QED  BY <3>2, <4>1, <4>2, <1>10, OkKept DEF ClaimGranted
        <3> QED  BY <3>1, <3>2
    <2> QED  BY <2>1, <2>2, <1>1, <1>10, ConnAssumption DEF ClaimGranted
<1>11. ASSUME NEW c \in Conn, ClaimBinds(c) PROVE ClaimBinds(c)'
    <2>1. /\ f.cmd = "RELEASE" /\ f.src # c /\ OthersHandled(c)' /\ Behind(c, 0)'
          /\ c # NoConn
        BY <1>9, <1>11, ConnAssumption DEF ClaimBinds
    <2>2. micb' = NoConn /\ (ousted' \/ Has(downlink, "SESSION_END")')
        <3>1. CASE micb # NoConn
            <4>1. micb = c
                BY <3>1, <1>11 DEF ClaimBinds
            <4> QED  BY <2>1, <3>1, <4>1, <1>4
        <3>2. CASE micb = NoConn
            BY <2>1, <3>2, <1>4, <1>6, <1>11 DEF ClaimBinds
        <3> QED  BY <3>1, <3>2
    <2> QED  BY <2>1, <2>2, <1>1, <1>11 DEF ClaimBinds
<1> QED  BY <1>7, <1>8, <1>10, <1>11 DEF TurnsInv

\* The session is ended from outside.
LEMMA EndsTurns == ASSUME TypeOK, TurnsInv, SessionEnds PROVE TurnsInv'
<1> DEFINE d == Len(downlink)
<1>1. /\ micb # NoConn /\ micb' = NoConn /\ Emit(<<"SESSION_END">>)
      /\ UNCHANGED <<s_controlling_conn, s_pending_claim_conn, host, rx, tx_queue>>
    BY DEF SessionEnds, binding
<1>2. /\ <<"SESSION_END">> \in Seq(Kind) /\ Len(<<"SESSION_END">>) = 1
      /\ <<"SESSION_END">>[1] = "SESSION_END"
      /\ \A x : Has(<<"SESSION_END">>, x) <=> x = "SESSION_END"
    BY Answers DEF Kind
<1>3. /\ d \in Nat /\ Len(downlink') = d + 1 /\ downlink'[d + 1] = "SESSION_END"
      /\ \A i \in 1 .. d : downlink'[i] = downlink[i]
      /\ Has(downlink, "SESSION_END")'
      /\ Has(downlink, "OK")' = Has(downlink, "OK")
    <2>1. downlink \in Seq(Kind) /\ d \in Nat
        BY LenProperties DEF TypeOK
    <2>2. /\ Len(downlink') = d + Len(<<"SESSION_END">>)
          /\ \A i \in 1 .. d : downlink'[i] = downlink[i]
          /\ \A i \in 1 .. Len(<<"SESSION_END">>) : downlink'[d + i] = <<"SESSION_END">>[i]
          /\ \A x : Has(downlink', x) <=> Has(downlink, x) \/ Has(<<"SESSION_END">>, x)
        BY <2>1, <1>1, <1>2, EmitHas
    <2>3. 1 \in 1 .. Len(<<"SESSION_END">>)
        BY <1>2
    <2>4. Has(downlink', "SESSION_END") /\ (Has(downlink', "OK") = Has(downlink, "OK"))
        BY <2>2, <1>2 DEF Has
    <2> QED  BY <2>1, <2>2, <2>3, <2>4, <1>2 DEF Has
<1> HIDE DEF d
<1>4. CASE Settled
    <2>1. EndComing' /\ Held'
        BY <1>1, <1>3 DEF EndComing, Held
    <2>2. Settled'
        BY <2>1, <1>1, <1>4 DEF Settled, NoClaimSent, RoomForRelease
    <2> QED  BY <2>2 DEF TurnsInv
<1>5. ASSUME NEW c \in Conn, ClaimSent(c) PROVE ClaimSent(c)'
    BY <1>1, <1>3, <1>5 DEF ClaimSent, Held, OthersHandled, Behind
<1>6. ASSUME NEW c \in Conn, ClaimGranted(c) PROVE ClaimGranted(c)'
    <2>1. PICK k \in 1 .. d : downlink[k] = "OK" /\ \A j \in 1 .. k - 1 : downlink[j] # "OK"
        BY <1>6 DEF ClaimGranted, OkComing, d
    <2>2. /\ k \in 1 .. Len(downlink') /\ downlink'[k] = "OK"
          /\ \A j \in 1 .. k - 1 : downlink'[j] # "OK"
          /\ d + 1 \in k + 1 .. Len(downlink')
        BY <2>1, <1>3
    <2>3. OkComing(c)'
        BY <2>2, <1>1, <1>3 DEF OkComing
    <2> QED  BY <2>3, <1>1, <1>6, ConnAssumption DEF ClaimGranted, OthersHandled, Behind
<1>7. ASSUME NEW c \in Conn, ClaimBinds(c) PROVE ClaimBinds(c)'
    BY <1>1, <1>3, <1>7, ConnAssumption DEF ClaimBinds, OthersHandled, Behind
<1> QED  BY <1>4, <1>5, <1>6, <1>7 DEF TurnsInv

\* TurnsInv is inductive.
LEMMA TurnsStep == ASSUME TurnsAssumed, TypeOK, ClosingInv, TurnsInv, [Next]_vars PROVE TurnsInv'
<1>1. ASSUME NEW c \in Conn, Connect(c) PROVE TurnsInv'
    BY <1>1, NothingTurns DEF Connect, binding, wire, session
<1>2. CASE ClientActs
    BY <1>1, <1>2, DisconnectTurns, FrameTurns DEF ClientActs
<1>3. CASE HostRuns
    BY <1>3, CheckTurns, ForwardTurns, ClearTurns DEF HostRuns
<1>4. CASE RxRuns
    BY <1>4, TakeTurns, BindTurns, EndTurns DEF RxRuns
<1>5. CASE TxTask \/ SessionEnds
    BY <1>5, MicbTurns, EndsTurns
<1>6. CASE Lose
    BY <1>6 DEF Lose, TurnsAssumed
<1>7. CASE UNCHANGED vars
    BY <1>7, NothingTurns DEF vars, binding, wire, session
<1> QED  BY <1>2, <1>3, <1>4, <1>5, <1>6, <1>7 DEF Next

LEMMA TurnsInvariant == TurnsAssumed => (Spec => [](TypeOK /\ TurnsInv))
<1> SUFFICES ASSUME TurnsAssumed PROVE Spec => [](TypeOK /\ TurnsInv)
    OBVIOUS
<1>1. Init => TurnsInv
    BY DEF Init, TurnsInv, Settled, NoClaimSent, Held, RoomForRelease, HostIdle, RxIdle
<1>2. TypeOK /\ ClosingInv /\ TurnsInv /\ [Next]_vars => TurnsInv'
    BY TurnsStep
<1> QED  BY <1>1, <1>2, TypeCorrect, ClaimInvariant, PTL DEF Spec

\* Clients may CLAIM and RELEASE against one another: once everything under way
\* has been handled, the bridge's controller is the holder of the MICB's session,
\* or one whose session somebody else's RELEASE has ended.
THEOREM AlwaysAgree == TurnsAssumed => (Spec => []Agreement)
<1> SUFFICES ASSUME TurnsAssumed PROVE Spec => []Agreement
    OBVIOUS
<1>1. TypeOK /\ TurnsInv => Agreement
    BY IdleSettled DEF Agreement, Settled
<1> QED  BY <1>1, TurnsInvariant, PTL

\* A claim-requiring command the MICB obeys is its session's holder's, though
\* others CLAIM against it.
THEOREM SetsAlwaysFromHolder == TurnsAssumed => (Spec => []SetsComeFromHolder)
<1> SUFFICES ASSUME TurnsAssumed PROVE Spec => []SetsComeFromHolder
    OBVIOUS
<1>1. ASSUME TypeOK, TurnsInv, NextIs("SET"), micb # NoConn PROVE Head(tx_queue).src = micb
    <2>1. Head(tx_queue) = tx_queue[1] /\ 1 \in 1 .. Len(tx_queue)
        BY <1>1, HasTail DEF TypeOK, NextIs
    <2>2. CASE Settled
        BY <2>1, <2>2, <1>1 DEF Settled, OfHolder, NextIs
    <2>3. ASSUME NEW c \in Conn, ClaimSent(c) PROVE Head(tx_queue).cmd = "CLAIM"
        BY <2>1, <2>3, <1>1, EmptySeq DEF ClaimSent, NextIs
    <2>4. ASSUME NEW c \in Conn, ClaimGranted(c) \/ ClaimBinds(c) PROVE Head(tx_queue).cmd = "RELEASE"
        BY <2>1, <2>4 DEF ClaimGranted, ClaimBinds, Behind
    <2> QED  BY <2>2, <2>3, <2>4, <1>1 DEF TurnsInv, NextIs
<1>2. TypeOK /\ TurnsInv => SetsComeFromHolder
    BY <1>1 DEF SetsComeFromHolder
<1> QED  BY <1>2, TurnsInvariant, PTL

\* A session rests on an open link, on one that is being handled as gone, or on
\* one whose RELEASE is in the queue.
LEMMA OrphanReleased ==
    ASSUME TypeOK, TurnsInv, ClosingInv, ClaimInv, PatientInv
    PROVE  SessionNeverLeaks
<1> SUFFICES ASSUME micb \notin up \cup {NoConn}, ~ReleaseQueued
             PROVE  host.pc \in {"check", "release"}
    BY DEF SessionNeverLeaks
<1> USE DEF ClaimInv, PatientInv, PendingIsLive, ControlWasClaimed
<1>1. micb \in claimed => host.src = micb /\ host.pc \in {"check", "release", "clear"}
    BY DEF Closing
<1>2. ASSUME Held PROVE host.pc \in {"check", "release"}
    <2>1. s_controlling_conn = micb /\ host.pc # "clear"
        BY <1>2 DEF Held
    <2>2. micb \in claimed
        BY <2>1
    <2> QED  BY <1>1, <2>1, <2>2
<1>3. ASSUME NEW c \in Conn, micb = c,
             s_pending_claim_conn = c \/ (rx.pc \in {"bind", "bind_set"} /\ rx.conn = c)
                                      \/ s_controlling_conn = c,
             host.pc # "clear"
      PROVE  host.pc \in {"check", "release"}
    <2>1. micb \in claimed
        BY <1>3, ConnAssumption
    <2> QED  BY <1>1, <1>3, <2>1
<1>4. CASE Settled \/ \E c \in Conn : ClaimSent(c)
    BY <1>2, <1>4 DEF Settled, ClaimSent
<1>5. ASSUME NEW c \in Conn, ClaimGranted(c) PROVE host.pc \in {"check", "release"}
    <2>1. micb = c /\ s_pending_claim_conn = c /\ host.pc # "clear"
        BY <1>5 DEF ClaimGranted, OkComing
    <2> QED  BY <1>3, <2>1
<1>6. ASSUME NEW c \in Conn, ClaimBinds(c) PROVE host.pc \in {"check", "release"}
    <2>1. micb = c /\ host.pc # "clear"
        BY <1>6 DEF ClaimBinds
    <2>2. s_pending_claim_conn = c \/ (rx.pc \in {"bind", "bind_set"} /\ rx.conn = c)
        BY <1>6 DEF ClaimBinds
    <2> QED  BY <1>3, <2>1, <2>2
<1> QED  BY <1>4, <1>5, <1>6 DEF TurnsInv

\* On disconnect of the controller the MICB's session does not leak: whenever it
\* rests on a link that is gone its RELEASE is on the way, for any number of
\* clients.
THEOREM SessionsNeverLeak == TurnsAssumed => (Spec => []SessionNeverLeaks)
<1> SUFFICES ASSUME TurnsAssumed PROVE Spec => []SessionNeverLeaks
    OBVIOUS
<1>1. Spec => []PatientInv
    BY PatientInvariant DEF TurnsAssumed
<1>2. TypeOK /\ TurnsInv /\ ClosingInv /\ ClaimInv /\ PatientInv => SessionNeverLeaks
    BY OrphanReleased
<1> QED  BY <1>1, <1>2, TurnsInvariant, ClaimInvariant, PTL
===============================================================================
