-------------------------------- MODULE BleBonds --------------------------------
(***************************************************************************)
(* BleHost with pairing and the bond store: who is at the other end of a   *)
(* link, the bonds NimBLE keeps in flash, and the two handlers of          *)
(* al1_ble.c that look after them (al1_ble_store_status and the event      *)
(* REPEAT_PAIRING).  Power may fail at any time; bonds survive it.         *)
(*                                                                         *)
(* The store counts its bonds.  After "repeated re-flash / NVS-erase       *)
(* mid-bond" it counts bonds that are not there, the phantoms.  And for as *)
(* long as something is broken, deleting a peer's bond, evicting the       *)
(* oldest or clearing the store fails.                                     *)
(*                                                                         *)
(* Pairing is NimBLE's: a request, which is refused as long as the peer    *)
(* has a bond (repeat), the exchange of keys, the write of the bond        *)
(* (store).  In repeat and store NimBLE calls the handler again and again  *)
(* until it has what it wants, and the host task does nothing else.  The   *)
(* store of subscriptions, which can overflow too, is left out.            *)
(***************************************************************************)
EXTENDS BleHost, SequencesExt

CONSTANTS
    Peer,        \* identity addresses
    NoPeer,
    MaxBonds,    \* CONFIG_BT_NIMBLE_MAX_BONDS
    Fails        \* what may fail: to "delete" a bond, to "evict" one, to "clear" all

ASSUME PeerAssumption == /\ NoPeer \notin Peer
                         /\ MaxBonds \in Nat \ {0}
                         /\ Fails \subseteq {"delete", "evict", "clear"}

VARIABLES
    peer,        \* who is at the other end of a link
    stage,       \* how far a link's pairing has come
    bonds,       \* NimBLE's store, the oldest first
    phantoms,    \* bonds it counts and does not have
    broken       \* what fails at present

store      == <<bonds, phantoms>>
deviceVars == <<vars, peer, stage, store, broken>>

DeviceTypeOK ==
    /\ TypeOK
    /\ peer \in [Conn -> Peer \cup {NoPeer}]
    /\ stage \in [Conn -> {"none", "repeat", "exchange", "store"}]
    /\ bonds \in Seq(Peer) /\ IsInjective(bonds)
    /\ phantoms \in Nat /\ Len(bonds) + phantoms <= MaxBonds
    /\ broken \subseteq Fails

DeviceInit ==
    /\ Init
    /\ peer = [c \in Conn |-> NoPeer]
    /\ stage = [c \in Conn |-> "none"]
    /\ bonds = << >> /\ phantoms = 0
    /\ broken = {}

-----------------------------------------------------------------------------

HostFree == \A c \in Conn : stage[c] \notin {"repeat", "store"}

Moves(c, to) == stage' = [stage EXCEPT ![c] = to]

Full == Len(bonds) + phantoms >= MaxBonds

HasBond(c) == peer[c] \in ToSet(bonds)

\* A link comes, with a peer that has none yet, or goes; everything else the
\* host task does leaves pairing alone.
Links ==
    /\ HostFree
    /\ \/ \E c \in Conn :
              /\ Connect(c)
              /\ \E p \in Peer : /\ \A d \in up : peer[d] # p
                                 /\ peer' = [peer EXCEPT ![c] = p]
              /\ Moves(c, "none")
       \/ \E c \in Conn : Disconnect(c) /\ peer' = [peer EXCEPT ![c] = NoPeer] /\ Moves(c, "none")
       \/ /\ Reset
          /\ peer' = [c \in Conn |-> NoPeer] /\ stage' = [c \in Conn |-> "none"]
       \/ /\ Sync \/ ConnectFails \/ AdvComplete \/ (\E c \in Conn : Claim(c))
          /\ UNCHANGED <<peer, stage>>
    /\ UNCHANGED <<store, broken>>

EmptyStore == bonds' = << >> /\ phantoms' = 0

\* al1_ble_start erases a flash partition that is full or of another version,
\* and every bond with it, before there is a host task.
Starts ==
    /\ AppMain
    /\ UNCHANGED store \/ (app = "start" /\ EmptyStore)
    /\ UNCHANGED <<peer, stage, broken>>

\* A client's first write needs an encrypted link: with no bond, or with one it
\* has lost, it asks to be paired.
PairRequest(c) ==
    /\ HostFree /\ c \in up /\ stage[c] = "none"
    /\ Moves(c, IF HasBond(c) THEN "repeat" ELSE "exchange")
    /\ UNCHANGED <<vars, peer, store, broken>>

delete_peer_missed(c) == UNCHANGED bonds       \* faulty: nothing is deleted

delete_peer(c) ==
    \/ /\ "delete" \notin broken
       /\ \E i \in DOMAIN bonds : bonds[i] = peer[c] /\ bonds' = RemoveAt(bonds, i)
    \/ "delete" \in broken /\ UNCHANGED bonds

\* faulty: the pairing goes on beside the old bond
RepeatPairing_ignores(c) ==
    /\ stage[c] = "repeat"
    /\ Moves(c, "exchange")
    /\ UNCHANGED <<vars, peer, store, broken>>

\* BLE_GAP_EVENT_REPEAT_PAIRING: the handler deletes the bond and, whether that
\* worked or not, has NimBLE look again.
RepeatPairing(c) ==
    /\ stage[c] = "repeat"
    /\ delete_peer(c)
    /\ Moves(c, IF peer[c] \in ToSet(bonds') THEN "repeat" ELSE "exchange")
    /\ UNCHANGED <<vars, peer, phantoms, broken>>

KeysExchanged(c) ==
    /\ HostFree /\ stage[c] = "exchange"
    /\ Moves(c, "store")
    /\ UNCHANGED <<vars, peer, store, broken>>

Write(c) ==
    /\ stage[c] = "store" /\ ~Full
    /\ bonds' = Append(bonds, peer[c])
    /\ Moves(c, "none")
    /\ UNCHANGED <<vars, peer, phantoms, broken>>

\* ble_store_util_status_rr evicts the oldest bond, if there is one to evict.
CanEvict == bonds # << >> /\ "evict" \notin broken

Evict ==
    /\ CanEvict
    /\ bonds' = Tail(bonds)
    /\ UNCHANGED <<stage, phantoms>>

ClearStore == "clear" \notin broken /\ EmptyStore /\ UNCHANGED stage

\* NimBLE gives the write up, and the pairing ends without it.
GivesUp(c) == Moves(c, "none") /\ UNCHANGED store

\* faulty: the handler NimBLE comes with
heal_not(c) == Evict \/ (~CanEvict /\ GivesUp(c))

\* faulty: does not ask the evictor first
heal_at_once(c) == ClearStore

\* al1_ble_store_status on overflow.  Whatever kept the evictor from making room,
\* the whole store is cleared, good bonds included, and NimBLE tries the write
\* again; if even that fails it hears of the overflow.
al1_ble_store_status(c) ==
    \/ Evict
    \/ ~CanEvict /\ ClearStore
    \/ ~CanEvict /\ "clear" \in broken /\ GivesUp(c)

Overflow(c) ==
    /\ stage[c] = "store" /\ Full
    /\ al1_ble_store_status(c)
    /\ UNCHANGED <<vars, peer, broken>>

\* The power fails, or the device is flashed: bonds may be gone that still count.
Reboot ==
    /\ app' = "start"
    /\ synced' = FALSE /\ adv' = FALSE /\ denied' = FALSE
    /\ up' = {} /\ s_conns' = {} /\ s_slots' = {} /\ early' = {}
    /\ s_conn_cb' = FALSE /\ s_rx_cb' = FALSE
    /\ s_pending_claim_conn' = NoConn
    /\ peer' = [c \in Conn |-> NoPeer] /\ stage' = [c \in Conn |-> "none"]
    /\ \/ UNCHANGED store
       \/ bonds' = << >> /\ phantoms' = phantoms + Len(bonds)
    /\ UNCHANGED broken

\* The flash, or what NimBLE makes of it, fails or works again.
FlashChanges ==
    /\ broken' \in SUBSET Fails
    /\ UNCHANGED <<vars, peer, stage, store>>

Pairs ==
    \E c \in Conn : RepeatPairing(c) \/ Write(c) \/ Overflow(c)

DeviceNext ==
    \/ Links \/ Starts \/ Pairs \/ Reboot \/ FlashChanges
    \/ \E c \in Conn : PairRequest(c) \/ KeysExchanged(c)

\* NimBLE goes on once it is called; nobody is obliged to pair.
DeviceSpec == DeviceInit /\ [][DeviceNext]_deviceVars /\ WF_deviceVars(Pairs)

-----------------------------------------------------------------------------

\* "If RR fails on overflow, wipe the store so the incoming bond writes into a
\* clean slate": whatever the store counts after crashes, and whatever keeps the
\* evictor from making room, a pairing ends with its bond saved, unless at that
\* moment the store cannot even be cleared.
PairingSaves ==
    [][\A c \in Conn : stage[c] = "store" /\ stage'[c] = "none" /\ c \in up'
           => peer[c] \in ToSet(bonds') \/ "clear" \in broken]_deviceVars

\* "The healthy case is unaffected": once started, and while power holds, a bond
\* is lost only to its own peer pairing again, or to a full store: there only the
\* oldest, unless the evictor fails and takes them all with it.
BondsEndure ==
    [][\A i \in DOMAIN bonds : bonds[i] \notin ToSet(bonds') =>
           \/ "start" \in {app, app'}
           \/ Full /\ (i = 1 \/ "evict" \in broken)
           \/ \E c \in up : stage[c] = "repeat" /\ peer[c] = bonds[i]]_deviceVars

\* The retries in which NimBLE holds the host task end, and it serves the other
\* links again, or else a bond cannot be deleted: every retry leaves less in the
\* way of the next.
RetriesEnd == ~HostFree ~> HostFree \/ "delete" \in broken
===============================================================================
