----------------------------- MODULE BleBondsProofs -----------------------------
(***************************************************************************)
(* The properties of BleBonds, for any number of handles, links, peers and *)
(* bonds and whatever may fail.  Every step of the device is a step of     *)
(* BleHost or starts it anew, so that BleHost's invariant holds here too;  *)
(* PairInv adds that pairing goes on only over open links and writes no    *)
(* bond a second time.                                                     *)
(***************************************************************************)
EXTENDS BleBonds, BleHostProofs, SequenceTheorems

Handles == /\ \A c \in Conn : stage[c] # "none" => c \in up
           /\ \A c \in up : peer[c] \in Peer
           /\ \A c, d \in up : peer[c] = peer[d] => c = d

NoSecondBond == \A c \in Conn : stage[c] \in {"exchange", "store"} => peer[c] \notin ToSet(bonds)

Stages == {"none", "repeat", "exchange", "store"}

StoreOK ==
    /\ bonds \in Seq(Peer) /\ IsInjective(bonds)
    /\ phantoms \in Nat /\ Len(bonds) + phantoms <= MaxBonds

PeersOK == peer \in [Conn -> Peer \cup {NoPeer}] /\ stage \in [Conn -> Stages]

PairInv == StoreOK /\ PeersOK /\ Handles /\ NoSecondBond

\* What the host task and app_main do is a step of BleHost, or its beginning.
LEMMA IsHostStep == [DeviceNext]_deviceVars => [Next]_vars \/ Reboot
  BY DEF DeviceNext, deviceVars, Links, Starts, Pairs, PairRequest, KeysExchanged,
         RepeatPairing, Write, Overflow, FlashChanges, Next

LEMMA RebootInv == Reboot => IInv'
  <1> SUFFICES ASSUME Reboot PROVE IInv'
    OBVIOUS
  <1>1. /\ app' = "start" /\ synced' = FALSE /\ adv' = FALSE /\ denied' = FALSE
        /\ up' = {} /\ s_conns' = {} /\ s_slots' = {} /\ early' = {}
        /\ s_conn_cb' = FALSE /\ s_rx_cb' = FALSE /\ s_pending_claim_conn' = NoConn
    BY DEF Reboot
  <1>2. IsFiniteSet({}) /\ Cardinality({}) = 0
    BY FS_EmptySet
  <1>3. FlagsOK'
    BY <1>1, Zenon DEF FlagsOK
  <1>4. TypeOK'
    BY <1>1, <1>2, <1>3, HostAssumption DEF TypeOK
  <1>5. (RadioInv /\ KeepsAdvertising)'
    BY <1>1, <1>2 DEF RadioInv, KeepsAdvertising
  <1>6. (LinksAreServed /\ CallbackInv)'
    BY <1>1 DEF LinksAreServed, CallbackInv
  <1> QED
    BY <1>4, <1>5, <1>6 DEF IInv

\* A bond is taken out, or put in at the end, of a store that has none twice.
LEMMA RemoveBond ==
    ASSUME NEW b \in Seq(Peer), IsInjective(b), NEW i \in DOMAIN b
    PROVE  /\ RemoveAt(b, i) \in Seq(Peer) /\ IsInjective(RemoveAt(b, i))
           /\ Len(RemoveAt(b, i)) = Len(b) - 1
           /\ ToSet(RemoveAt(b, i)) = ToSet(b) \ {b[i]}
  <1> DEFINE n == Len(b)
             r == RemoveAt(b, i)
             l == SubSeq(b, 1, i - 1)
             u == SubSeq(b, i + 1, n)
  <1>1. n \in Nat /\ i \in 1 .. n /\ DOMAIN b = 1 .. n /\ n >= 1
    OBVIOUS
  <1>2. /\ l \in Seq(Peer) /\ Len(l) = i - 1 /\ \A j \in 1 .. i - 1 : l[j] = b[j]
        /\ u \in Seq(Peer) /\ Len(u) = n - i /\ \A j \in 1 .. n - i : u[j] = b[i + j]
    BY <1>1
  <1>3. r = l \o u
    BY DEF RemoveAt
  <1> HIDE DEF l, u, r, n
  <1>4. /\ r \in Seq(Peer) /\ Len(r) = n - 1 /\ DOMAIN r = 1 .. n - 1
        /\ \A j \in 1 .. n - 1 : r[j] = IF j < i THEN b[j] ELSE b[j + 1]
    <2>1. /\ l \o u \in Seq(Peer) /\ Len(l \o u) = Len(l) + Len(u)
          /\ \A j \in 1 .. Len(l) + Len(u) : (l \o u)[j] = IF j <= Len(l) THEN l[j] ELSE u[j - Len(l)]
      BY <1>2, ConcatProperties
    <2>2. Len(l) + Len(u) = n - 1
      BY <1>1, <1>2
    <2>3. ASSUME NEW j \in 1 .. n - 1 PROVE r[j] = IF j < i THEN b[j] ELSE b[j + 1]
      <3>1. CASE j < i
        BY <1>1, <1>2, <1>3, <2>1, <2>2, <3>1
      <3>2. CASE ~(j < i)
        <4>1. j - Len(l) \in 1 .. n - i /\ ~(j <= Len(l)) /\ i + (j - Len(l)) = j + 1
          BY <1>1, <1>2, <3>2
        <4> QED
          BY <1>2, <1>3, <2>1, <2>2, <3>2, <4>1
      <3> QED
        BY <3>1, <3>2
    <2>4. r \in Seq(Peer) /\ Len(r) = n - 1
      BY <1>3, <2>1, <2>2
    <2> QED
      BY <2>3, <2>4
  <1>5. IsInjective(r)
    <2>1. ASSUME NEW j \in 1 .. n - 1, NEW k \in 1 .. n - 1, r[j] = r[k] PROVE j = k
      <3> DEFINE at(m) == IF m < i THEN m ELSE m + 1
      <3>1. /\ at(j) \in 1 .. n /\ at(k) \in 1 .. n
            /\ r[j] = b[at(j)] /\ r[k] = b[at(k)]
        BY <1>1, <1>4
      <3>2. at(j) = at(k)
        BY <1>1, <2>1, <3>1 DEF IsInjective
      <3> QED
        BY <1>1, <3>2
    <2> QED
      BY <1>4, <2>1 DEF IsInjective
  <1>6. ToSet(r) = ToSet(b) \ {b[i]}
    <2>1. ASSUME NEW x \in ToSet(r) PROVE x \in ToSet(b) /\ x # b[i]
      <3>1. PICK j \in 1 .. n - 1 : x = r[j]
        BY <1>4 DEF ToSet
      <3>2. PICK k \in 1 .. n : k # i /\ x = b[k]
        BY <1>1, <1>4, <3>1
      <3> QED
        BY <1>1, <3>2 DEF ToSet, IsInjective
    <2>2. ASSUME NEW x \in ToSet(b), x # b[i] PROVE x \in ToSet(r)
      <3>1. PICK k \in 1 .. n : x = b[k] /\ k # i
        BY <1>1, <2>2 DEF ToSet
      <3>2. CASE k < i
        <4>1. k \in 1 .. n - 1 /\ r[k] = x
          BY <1>1, <1>4, <3>1, <3>2
        <4> QED
          BY <1>4, <4>1 DEF ToSet
      <3>3. CASE k > i
        <4>1. k - 1 \in 1 .. n - 1 /\ r[k - 1] = x
          BY <1>1, <1>4, <3>1, <3>3
        <4> QED
          BY <1>4, <4>1 DEF ToSet
      <3> QED
        BY <1>1, <3>1, <3>2, <3>3
    <2> QED
      BY <2>1, <2>2
  <1> QED
    BY <1>4, <1>5, <1>6 DEF r, n

LEMMA AddBond ==
    ASSUME NEW b \in Seq(Peer), IsInjective(b), NEW p \in Peer, p \notin ToSet(b)
    PROVE  /\ Append(b, p) \in Seq(Peer) /\ IsInjective(Append(b, p))
           /\ Len(Append(b, p)) = Len(b) + 1
           /\ ToSet(Append(b, p)) = ToSet(b) \cup {p}
  <1> DEFINE n == Len(b)
             a == Append(b, p)
  <1>1. /\ a \in Seq(Peer) /\ n \in Nat /\ Len(a) = n + 1 /\ DOMAIN a = 1 .. n + 1
        /\ DOMAIN b = 1 .. n /\ \A j \in 1 .. n : a[j] = b[j]
        /\ a[n + 1] = p
    OBVIOUS
  <1> HIDE DEF a, n
  <1>2. \A j \in 1 .. n : b[j] # p
    BY <1>1 DEF ToSet
  <1>3. ASSUME NEW j \in 1 .. n + 1, NEW k \in 1 .. n + 1, a[j] = a[k] PROVE j = k
    <2>1. CASE j <= n /\ k <= n
      BY <1>1, <1>3, <2>1 DEF IsInjective
    <2>2. CASE j = n + 1 \/ k = n + 1
      BY <1>1, <1>2, <1>3, <2>2
    <2> QED
      BY <1>1, <2>1, <2>2
  <1>4. IsInjective(a)
    BY <1>1, <1>3 DEF IsInjective
  <1>5. ToSet(a) = ToSet(b) \cup {p}
    <2>1. \A j \in 1 .. n + 1 : a[j] \in ToSet(b) \cup {p}
      BY <1>1 DEF ToSet
    <2>2. \A j \in 1 .. n : b[j] = a[j] /\ j \in 1 .. n + 1
      BY <1>1
    <2>3. p = a[n + 1] /\ n + 1 \in 1 .. n + 1
      BY <1>1
    <2> QED
      BY <1>1, <2>1, <2>2, <2>3 DEF ToSet
  <1> QED
    BY <1>1, <1>4, <1>5 DEF a, n

\* The oldest goes.
LEMMA EvictBond ==
    ASSUME NEW b \in Seq(Peer), IsInjective(b), b # << >>
    PROVE  /\ Tail(b) \in Seq(Peer) /\ IsInjective(Tail(b)) /\ Len(Tail(b)) = Len(b) - 1
           /\ ToSet(Tail(b)) \subseteq ToSet(b)
           /\ \A i \in DOMAIN b : i # 1 => b[i] \in ToSet(Tail(b))
  <1> DEFINE n == Len(b)
             t == Tail(b)
  <1>1. /\ t \in Seq(Peer) /\ n \in Nat /\ n >= 1 /\ Len(t) = n - 1
        /\ DOMAIN t = 1 .. n - 1 /\ DOMAIN b = 1 .. n
        /\ \A j \in 1 .. n - 1 : t[j] = b[j + 1]
    OBVIOUS
  <1> HIDE DEF t, n
  <1>2. IsInjective(t)
    BY <1>1 DEF IsInjective
  <1>3. ToSet(t) \subseteq ToSet(b)
    <2>1. \A j \in 1 .. n - 1 : j + 1 \in 1 .. n
      BY <1>1
    <2> QED
      BY <1>1, <2>1 DEF ToSet
  <1>4. ASSUME NEW i \in 1 .. n, i # 1 PROVE b[i] \in ToSet(t)
    <2>1. i - 1 \in 1 .. n - 1 /\ t[i - 1] = b[i]
      BY <1>1, <1>4
    <2> QED
      BY <1>1, <2>1 DEF ToSet
  <1> QED
    BY <1>1, <1>2, <1>3, <1>4 DEF t, n

LEMMA NoBonds ==
    /\ << >> \in Seq(Peer) /\ IsInjective(<< >>) /\ Len(<< >>) = 0 /\ ToSet(<< >>) = {}
    /\ MaxBonds \in Nat \ {0} /\ NoPeer \notin Peer
  <1>1. /\ << >> \in Seq(Peer) /\ Len(<< >>) = 0 /\ DOMAIN << >> = {}
    OBVIOUS
  <1> QED
    BY <1>1, PeerAssumption DEF IsInjective, ToSet

\* What one handle's pairing does to the invariant, the store as it was or less.
LEMMA MovesInv ==
    ASSUME PairInv, StoreOK', NEW c \in Conn, NEW to \in Stages, Moves(c, to),
           UNCHANGED <<up, peer>>, c \in up,
           ToSet(bonds') \subseteq ToSet(bonds),
           to \in {"exchange", "store"} => peer[c] \notin ToSet(bonds')
    PROVE  PairInv'
  <1>1. /\ stage' = [stage EXCEPT ![c] = to] /\ peer' = peer /\ up' = up
        /\ stage \in [Conn -> Stages]
    BY DEF Moves, PairInv, PeersOK
  <1>2. /\ stage' \in [Conn -> Stages] /\ stage'[c] = to
        /\ \A d \in Conn : d # c => stage'[d] = stage[d]
    BY <1>1
  <1>3. PeersOK'
    BY <1>1, <1>2 DEF PairInv, PeersOK
  <1>4. Handles'
    BY <1>1, <1>2 DEF PairInv, Handles
  <1>5. NoSecondBond'
    BY <1>1, <1>2 DEF PairInv, NoSecondBond
  <1> QED
    BY <1>3, <1>4, <1>5 DEF PairInv

\* Links come and go only while NimBLE holds nobody up.
LEMMA LinksInv == ASSUME IInv, PairInv, Links PROVE PairInv'
  <1>1. /\ StoreOK' /\ bonds' = bonds /\ up \subseteq Conn
        /\ peer \in [Conn -> Peer \cup {NoPeer}] /\ stage \in [Conn -> Stages]
        /\ \A d \in Conn : stage[d] # "none" => d \in up
        /\ \A d \in up : peer[d] \in Peer
        /\ \A d, e \in up : peer[d] = peer[e] => d = e
        /\ \A d \in Conn : stage[d] \in {"exchange", "store"} => peer[d] \notin ToSet(bonds)
    BY DEF Links, store, PairInv, StoreOK, PeersOK, Handles, NoSecondBond, IInv, TypeOK
  <1>2. ASSUME NEW c \in Conn, Connect(c), Moves(c, "none"), NEW p \in Peer,
               \A d \in up : peer[d] # p, peer' = [peer EXCEPT ![c] = p]
        PROVE  PairInv'
    <2>1. up' = up \cup {c} /\ stage' = [stage EXCEPT ![c] = "none"]
      BY <1>2 DEF Connect, Moves
    <2>2. /\ peer'[c] = p /\ stage'[c] = "none"
          /\ \A d \in Conn : d # c => peer'[d] = peer[d] /\ stage'[d] = stage[d]
          /\ PeersOK'
      BY <1>1, <1>2, <2>1 DEF PeersOK, Stages
    <2>3. Handles'
      BY <1>1, <1>2, <2>1, <2>2 DEF Handles
    <2>4. NoSecondBond'
      BY <1>1, <2>2 DEF NoSecondBond
    <2> QED
      BY <1>1, <2>2, <2>3, <2>4 DEF PairInv
  <1>3. ASSUME NEW c \in Conn, Disconnect(c), peer' = [peer EXCEPT ![c] = NoPeer], Moves(c, "none")
        PROVE  PairInv'
    <2>1. up' = up \ {c} /\ stage' = [stage EXCEPT ![c] = "none"]
      BY <1>3 DEF Disconnect, Forget, Moves
    <2>2. /\ stage'[c] = "none"
          /\ \A d \in Conn : d # c => peer'[d] = peer[d] /\ stage'[d] = stage[d]
          /\ PeersOK'
      BY <1>1, <1>3, <2>1 DEF PeersOK, Stages
    <2>3. Handles'
      BY <1>1, <2>1, <2>2 DEF Handles
    <2>4. NoSecondBond'
      BY <1>1, <2>2 DEF NoSecondBond
    <2> QED
      BY <1>1, <2>2, <2>3, <2>4 DEF PairInv
  <1>4. ASSUME Reset, peer' = [c \in Conn |-> NoPeer], stage' = [c \in Conn |-> "none"]
        PROVE  PairInv'
    <2>1. up' = {}
      BY <1>4 DEF Reset, Forget
    <2>2. PeersOK' /\ Handles' /\ NoSecondBond'
      BY <1>4, <2>1 DEF PeersOK, Handles, NoSecondBond, Stages
    <2> QED
      BY <1>1, <2>2 DEF PairInv
  <1>5. ASSUME Sync \/ ConnectFails \/ AdvComplete \/ (\E c \in Conn : Claim(c)),
               UNCHANGED <<peer, stage>>
        PROVE  PairInv'
    <2>1. up' = up
      BY <1>5 DEF Sync, ConnectFails, AdvComplete, Claim, links
    <2> QED
      BY <1>1, <1>5, <2>1 DEF PairInv, PeersOK, Handles, NoSecondBond
  <1> QED
    BY <1>2, <1>3, <1>4, <1>5 DEF Links

LEMMA PairsInv == ASSUME IInv, PairInv, Pairs PROVE PairInv'
  <1>1. PICK c \in Conn : RepeatPairing(c) \/ Write(c) \/ Overflow(c)
    BY DEF Pairs
  <1>2. UNCHANGED <<up, peer>> /\ stage[c] \in {"repeat", "store"} /\ c \in up /\ peer[c] \in Peer
    BY <1>1 DEF RepeatPairing, Write, Overflow, vars, links, PairInv, Handles
  <1>3. /\ bonds \in Seq(Peer) /\ IsInjective(bonds) /\ phantoms \in Nat
        /\ Len(bonds) + phantoms <= MaxBonds /\ Len(bonds) \in Nat /\ stage \in [Conn -> Stages]
    BY DEF PairInv, StoreOK, PeersOK
  <1>4. CASE RepeatPairing(c)
    <2>1. /\ phantoms' = phantoms
          /\ bonds' = bonds \/ \E i \in DOMAIN bonds : bonds' = RemoveAt(bonds, i)
      BY <1>4 DEF RepeatPairing, delete_peer
    <2>2. StoreOK' /\ ToSet(bonds') \subseteq ToSet(bonds)
      <3>1. CASE bonds' = bonds
        BY <1>3, <2>1, <3>1 DEF StoreOK
      <3>2. ASSUME NEW i \in DOMAIN bonds, bonds' = RemoveAt(bonds, i)
            PROVE  StoreOK' /\ ToSet(bonds') \subseteq ToSet(bonds)
        <4>1. /\ bonds' \in Seq(Peer) /\ IsInjective(bonds') /\ Len(bonds') = Len(bonds) - 1
              /\ ToSet(bonds') \subseteq ToSet(bonds)
          BY <1>3, <3>2, RemoveBond
        <4>2. Len(bonds') + phantoms' <= MaxBonds
          BY <1>3, <2>1, <4>1, NoBonds
        <4> QED
          BY <1>3, <2>1, <4>1, <4>2 DEF StoreOK
      <3> QED
        BY <2>1, <3>1, <3>2
    <2>3. CASE peer[c] \in ToSet(bonds')
      BY <1>2, <1>4, <2>2, <2>3, MovesInv DEF RepeatPairing, Stages
    <2>4. CASE peer[c] \notin ToSet(bonds')
      BY <1>2, <1>4, <2>2, <2>4, MovesInv DEF RepeatPairing, Stages
    <2> QED
      BY <2>3, <2>4
  <1>5. CASE Write(c)
    <2>1. /\ stage[c] = "store" /\ bonds' = Append(bonds, peer[c]) /\ phantoms' = phantoms
          /\ ~(Len(bonds) + phantoms >= MaxBonds)
          /\ stage' = [stage EXCEPT ![c] = "none"]
      BY <1>5 DEF Write, Full, Moves
    <2>2. peer[c] \notin ToSet(bonds)
      BY <2>1 DEF PairInv, NoSecondBond
    <2>3. /\ bonds' \in Seq(Peer) /\ IsInjective(bonds') /\ Len(bonds') = Len(bonds) + 1
          /\ ToSet(bonds') = ToSet(bonds) \cup {peer[c]}
      BY <1>2, <1>3, <2>1, <2>2, AddBond
    <2>4. StoreOK'
      <3>1. Len(bonds') + phantoms' <= MaxBonds
        BY <1>3, <2>1, <2>3, NoBonds
      <3> QED
        BY <1>3, <2>1, <2>3, <3>1 DEF StoreOK
    <2>5. stage' \in [Conn -> Stages] /\ stage'[c] = "none" /\ \A d \in Conn : d # c => stage'[d] = stage[d]
      BY <1>3, <2>1 DEF Stages
    <2>6. PeersOK' /\ Handles'
      BY <1>2, <2>5 DEF PairInv, PeersOK, Handles
    <2>7. NoSecondBond'
      <3>1. \A d \in Conn : d # c /\ stage[d] # "none" => peer[d] # peer[c]
        BY <1>2 DEF PairInv, Handles
      <3> QED
        BY <1>2, <2>3, <2>5, <3>1 DEF PairInv, NoSecondBond
    <2> QED
      BY <2>4, <2>6, <2>7 DEF PairInv
  <1>6. CASE Overflow(c)
    <2>1. al1_ble_store_status(c) /\ stage[c] = "store"
      BY <1>6 DEF Overflow
    <2>2. CASE Evict
      <3>1. bonds # << >> /\ bonds' = Tail(bonds) /\ UNCHANGED <<stage, phantoms>>
        BY <2>2 DEF Evict, CanEvict
      <3>2. /\ bonds' \in Seq(Peer) /\ IsInjective(bonds') /\ Len(bonds') = Len(bonds) - 1
            /\ ToSet(bonds') \subseteq ToSet(bonds)
        BY <1>3, <3>1, EvictBond
      <3>3. StoreOK'
        <4>1. Len(bonds') + phantoms' <= MaxBonds
          BY <1>3, <3>1, <3>2, NoBonds
        <4> QED
          BY <1>3, <3>1, <3>2, <4>1 DEF StoreOK
      <3> QED
        BY <1>2, <3>1, <3>2, <3>3 DEF PairInv, PeersOK, Handles, NoSecondBond
    <2>3. CASE ClearStore
      <3>1. bonds' = << >> /\ phantoms' = 0 /\ stage' = stage
        BY <2>3 DEF ClearStore, EmptyStore
      <3>2. StoreOK' /\ ToSet(bonds') = {}
        BY <3>1, NoBonds DEF StoreOK
      <3> QED
        BY <1>2, <3>1, <3>2 DEF PairInv, PeersOK, Handles, NoSecondBond
    <2>4. CASE GivesUp(c)
      <3>1. bonds' = bonds /\ phantoms' = phantoms
        BY <2>4 DEF GivesUp, store
      <3>2. StoreOK'
        BY <3>1 DEF PairInv, StoreOK
      <3> QED
        BY <1>2, <2>4, <3>1, <3>2, MovesInv DEF GivesUp, Stages
    <2> QED
      BY <2>1, <2>2, <2>3, <2>4 DEF al1_ble_store_status
  <1> QED
    BY <1>1, <1>4, <1>5, <1>6

LEMMA PairStep == ASSUME IInv, PairInv, [DeviceNext]_deviceVars PROVE PairInv'
  <1>1. CASE Links
    BY <1>1, LinksInv
  <1>2. CASE Pairs
    BY <1>2, PairsInv
  <1>3. CASE Starts
    <2>1. /\ UNCHANGED <<up, peer, stage>>
          /\ UNCHANGED <<bonds, phantoms>> \/ (bonds' = << >> /\ phantoms' = 0)
      BY <1>3 DEF Starts, EmptyStore, store, AppMain, Start, ResetBinding,
                  al1_ble_set_conn_evt_cb, al1_ble_set_rx_cb, links
    <2>2. StoreOK' /\ ToSet(bonds') \subseteq ToSet(bonds)
      <3>1. CASE UNCHANGED <<bonds, phantoms>>
        BY <3>1 DEF PairInv, StoreOK
      <3>2. CASE bonds' = << >> /\ phantoms' = 0
        <4>1. 0 + 0 <= MaxBonds
          BY NoBonds
        <4>2. Len(bonds') + phantoms' <= MaxBonds
          BY <3>2, <4>1, NoBonds
        <4> QED
          BY <3>2, <4>2, NoBonds DEF StoreOK
      <3> QED
        BY <2>1, <3>1, <3>2
    <2> QED
      BY <2>1, <2>2 DEF PairInv, PeersOK, Handles, NoSecondBond
  <1>4. CASE Reboot
    <2>1. /\ up' = {} /\ peer' = [c \in Conn |-> NoPeer] /\ stage' = [c \in Conn |-> "none"]
          /\ UNCHANGED store \/ (bonds' = << >> /\ phantoms' = phantoms + Len(bonds))
      BY <1>4 DEF Reboot
    <2>2. StoreOK'
      <3>1. CASE UNCHANGED store
        BY <3>1 DEF store, PairInv, StoreOK
      <3>2. CASE bonds' = << >> /\ phantoms' = phantoms + Len(bonds)
        <4>1. phantoms \in Nat /\ Len(bonds) \in Nat /\ Len(bonds) + phantoms <= MaxBonds
          BY DEF PairInv, StoreOK
        <4>2. phantoms' \in Nat /\ 0 + phantoms' <= MaxBonds
          BY <3>2, <4>1, NoBonds
        <4> QED
          BY <3>2, <4>2, NoBonds DEF StoreOK
      <3> QED
        BY <2>1, <3>1, <3>2
    <2>3. PeersOK' /\ Handles' /\ NoSecondBond'
      BY <2>1 DEF PeersOK, Handles, NoSecondBond, Stages
    <2> QED
      BY <2>2, <2>3 DEF PairInv
  <1>5. ASSUME NEW c \in Conn, PairRequest(c) \/ KeysExchanged(c) PROVE PairInv'
    <2>1. UNCHANGED <<up, peer, bonds, phantoms>> /\ StoreOK' /\ ToSet(bonds') = ToSet(bonds)
      BY <1>5 DEF PairRequest, KeysExchanged, vars, links, store, PairInv, StoreOK
    <2>2. CASE PairRequest(c)
      <3>1. CASE HasBond(c)
        BY <2>1, <2>2, <3>1, MovesInv DEF PairRequest, Stages
      <3>2. CASE ~HasBond(c)
        BY <2>1, <2>2, <3>2, MovesInv DEF PairRequest, HasBond, Stages
      <3> QED
        BY <3>1, <3>2
    <2>3. CASE KeysExchanged(c)
      <3>1. c \in up /\ peer[c] \notin ToSet(bonds)
        BY <2>3 DEF KeysExchanged, PairInv, Handles, NoSecondBond
      <3> QED
        BY <2>1, <2>3, <3>1, MovesInv DEF KeysExchanged, Stages
    <2> QED
      BY <1>5, <2>2, <2>3
  <1>6. CASE FlashChanges \/ UNCHANGED deviceVars
    BY <1>6 DEF FlashChanges, deviceVars, vars, links, store, PairInv, StoreOK, PeersOK, Handles, NoSecondBond
  <1> QED
    BY <1>1, <1>2, <1>3, <1>4, <1>5, <1>6 DEF DeviceNext

-----------------------------------------------------------------------------

LEMMA DeviceInvariant == DeviceSpec => [](IInv /\ PairInv)
  <1>1. DeviceInit => IInv /\ PairInv
    <2> SUFFICES ASSUME DeviceInit PROVE IInv /\ PairInv
      OBVIOUS
    <2>1. IInv
      BY InitInv DEF DeviceInit
    <2>2. StoreOK
      BY NoBonds DEF DeviceInit, StoreOK
    <2>3. PeersOK /\ Handles /\ NoSecondBond
      BY DEF DeviceInit, Init, PeersOK, Handles, NoSecondBond, Stages
    <2> QED
      BY <2>1, <2>2, <2>3 DEF PairInv
  <1>2. IInv /\ PairInv /\ [DeviceNext]_deviceVars => (IInv /\ PairInv)'
    BY IsHostStep, StepInv, RebootInv, PairStep
  <1> QED
    BY <1>1, <1>2, PTL DEF DeviceSpec

\* BleHost's invariants, with pairing and power failures: whatever they
\* interrupt, the device can be found and every link is served.
THEOREM DeviceKeepsHost == DeviceSpec => [](TypeOK /\ KeepsAdvertising /\ LinksAreServed)
  <1>1. IInv => TypeOK /\ KeepsAdvertising /\ LinksAreServed
    BY DEF IInv
  <1> QED
    BY <1>1, DeviceInvariant, PTL

\* No bond is stored twice, and the store never counts more than it can hold.
THEOREM DeviceTypeCorrect == DeviceSpec => []DeviceTypeOK
  <1> DEFINE BrokenOK == broken \subseteq Fails
  <1>1. IInv /\ PairInv /\ BrokenOK => DeviceTypeOK
    BY DEF IInv, PairInv, StoreOK, PeersOK, Stages, DeviceTypeOK
  <1>2. DeviceInit => BrokenOK
    BY DEF DeviceInit
  <1>3. BrokenOK /\ [DeviceNext]_deviceVars => BrokenOK'
    BY DEF DeviceNext, deviceVars, Links, Starts, Pairs, PairRequest, KeysExchanged,
           RepeatPairing, Write, Overflow, Reboot, FlashChanges
  <1> QED
    BY <1>1, <1>2, <1>3, DeviceInvariant, PTL DEF DeviceSpec

\* Not even a power failure between the bridge's first assignments and its
\* callbacks loses the claim of a link that stays.
THEOREM DeviceClaimsSurvive == DeviceSpec => ClaimsSurviveInit
  <1> DEFINE Kept == \A c \in up \cap up' : s_pending_claim_conn = c => s_pending_claim_conn' \in up
  <1>1. IInv /\ [DeviceNext]_deviceVars => [Kept]_vars
    <2>1. Reboot => Kept
      BY DEF Reboot
    <2> QED
      BY <2>1, IsHostStep, ClaimKept
  <1> QED
    BY <1>1, DeviceInvariant, PTL DEF DeviceSpec, ClaimsSurviveInit

\* The handler leaves a write to NimBLE as it was, or gives it up for the one
\* reason it may.
LEMMA HealGivesUp ==
    ASSUME NEW d \in Conn, al1_ble_store_status(d), stage' # stage
    PROVE  GivesUp(d) /\ "clear" \in broken
  BY DEF al1_ble_store_status, Evict, ClearStore

\* A pairing ends with its bond saved unless the store cannot be cleared at that
\* moment, whatever the store counts, whyever the evictor fails and however many
\* peers pair.
THEOREM AlwaysPairingSaves == DeviceSpec => PairingSaves
  <1> DEFINE Saved == \A c \in Conn : stage[c] = "store" /\ stage'[c] = "none" /\ c \in up'
                          => peer[c] \in ToSet(bonds') \/ "clear" \in broken
  <1>1. IInv /\ PairInv /\ [DeviceNext]_deviceVars => [Saved]_deviceVars
    <2> SUFFICES ASSUME PairInv, DeviceNext, NEW c \in Conn,
                        stage[c] = "store", stage'[c] = "none", c \in up', "clear" \notin broken
                 PROVE  peer[c] \in ToSet(bonds')
      BY DEF deviceVars
    <2>1. ~HostFree /\ stage \in [Conn -> Stages] /\ bonds \in Seq(Peer) /\ IsInjective(bonds)
          /\ c \in up /\ peer[c] \in Peer /\ peer[c] \notin ToSet(bonds)
      BY DEF HostFree, PairInv, PeersOK, StoreOK, Handles, NoSecondBond
    <2>2. ~Links /\ ~Starts /\ ~Reboot /\ ~FlashChanges
      BY <2>1 DEF Links, Starts, Reboot, FlashChanges
    <2>3. ~PairRequest(c) /\ \A d \in Conn : ~PairRequest(d) /\ ~KeysExchanged(d)
      BY <2>1 DEF PairRequest, KeysExchanged
    <2>4. PICK d \in Conn : RepeatPairing(d) \/ Write(d) \/ Overflow(d)
      BY <2>2, <2>3 DEF DeviceNext, Pairs
    <2>5. ~Overflow(d)
      BY HealGivesUp DEF Overflow
    <2>6. d = c
      <3>1. \E to : stage' = [stage EXCEPT ![d] = to]
        BY <2>4, <2>5 DEF RepeatPairing, Write, Moves
      <3> QED
        BY <2>1, <3>1
    <2>7. bonds' = Append(bonds, peer[c])
      BY <2>4, <2>5, <2>6 DEF RepeatPairing, Write
    <2> QED
      BY <2>1, <2>7, AddBond
  <1> QED
    BY <1>1, DeviceInvariant, PTL DEF DeviceSpec, PairingSaves

\* Once started, and while power holds, no bond is lost but to its own peer or to a
\* full store: the oldest, or all of them when the evictor fails.
THEOREM AlwaysBondsEndure == DeviceSpec => BondsEndure
  <1> DEFINE Endure == \A i \in DOMAIN bonds : bonds[i] \notin ToSet(bonds') =>
                          \/ "start" \in {app, app'}
                          \/ Full /\ (i = 1 \/ "evict" \in broken)
                          \/ \E c \in up : stage[c] = "repeat" /\ peer[c] = bonds[i]
  <1>1. IInv /\ PairInv /\ [DeviceNext]_deviceVars => [Endure]_deviceVars
    <2> SUFFICES ASSUME PairInv, DeviceNext, NEW i \in DOMAIN bonds, bonds[i] \notin ToSet(bonds')
                 PROVE  \/ "start" \in {app, app'}
                        \/ Full /\ (i = 1 \/ "evict" \in broken)
                        \/ \E c \in up : stage[c] = "repeat" /\ peer[c] = bonds[i]
      OBVIOUS
    <2>1. bonds \in Seq(Peer) /\ IsInjective(bonds) /\ bonds[i] \in ToSet(bonds) /\ bonds # << >>
      BY DEF PairInv, StoreOK, ToSet
    <2>2. bonds' # bonds
      BY <2>1
    <2>3. CASE Reboot
      BY <2>3 DEF Reboot
    <2>4. ASSUME NEW c \in Conn, RepeatPairing(c) \/ Write(c) \/ Overflow(c)
          PROVE  \/ Full /\ (i = 1 \/ "evict" \in broken)
                 \/ \E d \in up : stage[d] = "repeat" /\ peer[d] = bonds[i]
      <3>1. stage[c] # "none" /\ c \in up /\ peer[c] \in Peer
        BY <2>4 DEF RepeatPairing, Write, Overflow, PairInv, Handles
      <3>2. CASE RepeatPairing(c)
        <4>1. PICK j \in DOMAIN bonds : bonds[j] = peer[c] /\ bonds' = RemoveAt(bonds, j)
          BY <2>2, <3>2 DEF RepeatPairing, delete_peer
        <4>2. ToSet(bonds') = ToSet(bonds) \ {peer[c]}
          BY <2>1, <4>1, RemoveBond
        <4> QED
          BY <2>1, <3>1, <3>2, <4>2 DEF RepeatPairing
      <3>3. CASE Write(c)
        <4>1. bonds' = Append(bonds, peer[c]) /\ stage[c] = "store"
          BY <3>3 DEF Write
        <4>2. peer[c] \notin ToSet(bonds)
          BY <4>1 DEF PairInv, NoSecondBond
        <4> QED
          BY <2>1, <3>1, <4>1, <4>2, AddBond
      <3>4. CASE Overflow(c)
        <4>1. Full /\ (bonds' = Tail(bonds) \/ "evict" \in broken)
          BY <2>1, <2>2, <3>4 DEF Overflow, al1_ble_store_status, Evict, CanEvict, GivesUp, store
        <4> QED
          BY <2>1, <4>1, EvictBond
      <3> QED
        BY <2>4, <3>2, <3>3, <3>4
    <2>5. Links \/ FlashChanges \/ (\E c \in Conn : PairRequest(c) \/ KeysExchanged(c)) => bonds' = bonds
      BY DEF Links, FlashChanges, PairRequest, KeysExchanged, store
    <2>6. Starts => app = "start"
      BY <2>2 DEF Starts, store
    <2> QED
      BY <2>2, <2>3, <2>4, <2>5, <2>6 DEF DeviceNext, Pairs
  <1> QED
    BY <1>1, DeviceInvariant, PTL DEF DeviceSpec, BondsEndure

-----------------------------------------------------------------------------
(***************************************************************************)
(* The retries.  At most one pairing at a time makes NimBLE hold the host  *)
(* task, it always finds something to do, and every turn leaves less.      *)
(***************************************************************************)

Waits(c) == stage[c] \in {"repeat", "store"}

OneWaits == \A c, d \in Conn : Waits(c) /\ Waits(d) => c = d

\* The handler of REPEAT_PAIRING is called only while the bond it is to delete
\* is there: nobody else takes it away meanwhile.
RepeatFinds == \A c \in Conn : stage[c] = "repeat" => HasBond(c)

\* There is no host task before al1_ble_start.
Asleep == app = "start" => ~synced

WaitInv == OneWaits /\ RepeatFinds /\ Asleep

LEMMA AsleepStep == ASSUME Asleep, [DeviceNext]_deviceVars PROVE Asleep'
  <1>1. CASE Reboot
    BY <1>1 DEF Reboot, Asleep
  <1>2. CASE [Next]_vars
    <2>1. \A pc \in {"start", "reset", "set_conn_cb", "set_rx_cb"} : step_after(pc) # "start"
      BY StepsOfInit
    <2> QED
      BY <1>2, <2>1 DEF Next, AppMain, Start, ResetBinding, al1_ble_set_conn_evt_cb,
             al1_ble_set_rx_cb, Sync, HostTaskRuns, Reset, ConnectFails, AdvComplete, Connect,
             Disconnect, Claim, vars, radio, Asleep
  <1> QED
    BY <1>1, <1>2, IsHostStep

\* And so nobody pairs before it.
LEMMA AsleepFree == ASSUME IInv, PairInv, Asleep, app = "start" PROVE HostFree
  BY DEF IInv, RadioInv, PairInv, Handles, Asleep, HostFree

\* What moving one handle does to the stages.
LEMMA MovesStage ==
    ASSUME PeersOK, NEW c \in Conn, NEW to, Moves(c, to)
    PROVE  stage'[c] = to /\ \A d \in Conn : d # c => stage'[d] = stage[d]
  BY DEF PeersOK, Moves

\* Once the only one that waits goes on, the host task is free.
LEMMA OneLess ==
    ASSUME PeersOK, OneWaits, NEW c \in Conn, Waits(c), NEW to \in Stages, Moves(c, to)
    PROVE  /\ OneWaits'
           /\ \A d \in Conn : stage'[d] = "repeat" => d = c /\ to = "repeat"
           /\ to \notin {"repeat", "store"} => HostFree'
  <1>1. stage'[c] = to /\ \A d \in Conn : d # c => stage'[d] = stage[d]
    BY MovesStage
  <1>2. \A d \in Conn : d # c => ~(stage'[d] \in {"repeat", "store"})
    BY <1>1 DEF OneWaits, Waits
  <1>3. OneWaits'
    BY <1>2 DEF OneWaits, Waits
  <1>4. \A d \in Conn : stage'[d] = "repeat" => d = c /\ to = "repeat"
    BY <1>1, <1>2
  <1>5. to \notin {"repeat", "store"} => HostFree'
    BY <1>1, <1>2 DEF HostFree
  <1> QED
    BY <1>3, <1>4, <1>5

LEMMA WaitStep == ASSUME IInv, PairInv, WaitInv, [DeviceNext]_deviceVars PROVE WaitInv'
  <1>1. PeersOK /\ OneWaits /\ RepeatFinds /\ Asleep /\ Asleep'
    BY AsleepStep DEF PairInv, WaitInv
  <1> SUFFICES OneWaits' /\ RepeatFinds'
    BY <1>1 DEF WaitInv
  <1> DEFINE Kept == OneWaits' /\ RepeatFinds'
  <1>2. ASSUME HostFree, HostFree' PROVE Kept
    BY <1>1, <1>2 DEF HostFree, OneWaits, Waits, RepeatFinds
  <1>3. ASSUME HostFree, NEW c \in Conn, NEW to \in Stages, Moves(c, to),
               UNCHANGED <<peer, bonds>>, to = "repeat" => HasBond(c)
        PROVE  Kept
    <2>1. stage'[c] = to /\ \A d \in Conn : d # c => stage'[d] = stage[d]
      BY <1>1, <1>3, MovesStage
    <2>2. \A d \in Conn : d # c => ~(stage'[d] \in {"repeat", "store"})
      BY <1>3, <2>1 DEF HostFree
    <2>3. OneWaits'
      BY <2>2 DEF OneWaits, Waits
    <2>4. RepeatFinds'
      BY <1>3, <2>1, <2>2 DEF RepeatFinds, HasBond
    <2> QED
      BY <2>3, <2>4
  <1>4. CASE UNCHANGED <<peer, stage, bonds>>
    BY <1>1, <1>4 DEF OneWaits, Waits, RepeatFinds, HasBond
  <1>5. CASE Links
    <2>1. HostFree
      BY <1>5 DEF Links
    <2>2. CASE stage' = [c \in Conn |-> "none"]
      BY <1>2, <2>1, <2>2 DEF HostFree
    <2>3. ASSUME NEW c \in Conn, Moves(c, "none") PROVE HostFree'
      BY <1>1, <2>1, <2>3, MovesStage DEF HostFree
    <2> QED
      BY <1>2, <1>4, <1>5, <2>1, <2>2, <2>3 DEF Links, store
  <1>6. CASE Starts
    <2>1. stage' = stage /\ peer' = peer /\ (bonds' = bonds \/ app = "start")
      BY <1>6 DEF Starts, store
    <2>2. app = "start" => HostFree
      BY <1>1, AsleepFree
    <2> QED
      BY <1>2, <1>4, <2>1, <2>2 DEF HostFree
  <1>7. ASSUME NEW c \in Conn, PairRequest(c) \/ KeysExchanged(c) PROVE Kept
    <2>1. CASE PairRequest(c)
      <3> DEFINE to == IF HasBond(c) THEN "repeat" ELSE "exchange"
      <3>1. HostFree /\ Moves(c, to) /\ UNCHANGED <<peer, bonds>>
        BY <2>1 DEF PairRequest, store
      <3>2. to \in Stages /\ (to = "repeat" => HasBond(c))
        BY DEF Stages
      <3> HIDE DEF to
      <3> QED
        BY <1>3, <3>1, <3>2
    <2>2. CASE KeysExchanged(c)
      BY <1>3, <2>2 DEF KeysExchanged, store, Stages
    <2> QED
      BY <1>7, <2>1, <2>2
  <1>8. ASSUME NEW c \in Conn, RepeatPairing(c) PROVE Kept
    <2> DEFINE to == IF peer[c] \in ToSet(bonds') THEN "repeat" ELSE "exchange"
    <2>1. Waits(c) /\ Moves(c, to) /\ UNCHANGED peer
      BY <1>8 DEF RepeatPairing, Waits
    <2>2. to \in Stages /\ (to = "repeat" => HasBond(c)')
      BY <2>1 DEF Stages, HasBond
    <2> HIDE DEF to
    <2>3. OneWaits' /\ \A d \in Conn : stage'[d] = "repeat" => d = c /\ to = "repeat"
      BY <1>1, <2>1, <2>2, OneLess
    <2> QED
      BY <2>2, <2>3 DEF RepeatFinds, HasBond
  <1>9. ASSUME NEW c \in Conn, Write(c) \/ Overflow(c) PROVE Kept
    <2>1. stage[c] = "store" /\ Waits(c)
      BY <1>9 DEF Write, Overflow, Waits
    <2>2. CASE UNCHANGED stage
      <3>1. \A d \in Conn : stage'[d] # "repeat"
        BY <1>1, <2>1, <2>2 DEF OneWaits, Waits
      <3> QED
        BY <1>1, <2>2, <3>1 DEF OneWaits, Waits, RepeatFinds
    <2>3. ASSUME Moves(c, "none") PROVE Kept
      <3>1. OneWaits' /\ \A d \in Conn : stage'[d] # "repeat"
        BY <1>1, <2>1, <2>3, OneLess DEF Stages
      <3> QED
        BY <3>1 DEF RepeatFinds
    <2> QED
      BY <1>9, <2>2, <2>3 DEF Write, Overflow, al1_ble_store_status, Evict, ClearStore, GivesUp
  <1>10. CASE Reboot
    BY <1>10 DEF Reboot, OneWaits, Waits, RepeatFinds
  <1>11. CASE FlashChanges \/ UNCHANGED deviceVars
    BY <1>4, <1>11 DEF FlashChanges, deviceVars, store
  <1> QED
    BY <1>5, <1>6, <1>7, <1>8, <1>9, <1>10, <1>11 DEF DeviceNext, Pairs

LEMMA WaitInvariant == DeviceSpec => []WaitInv
  <1>1. DeviceInit => WaitInv
    BY DEF DeviceInit, Init, WaitInv, OneWaits, Waits, RepeatFinds, Asleep
  <1>2. IInv /\ PairInv /\ WaitInv /\ [DeviceNext]_deviceVars => WaitInv'
    BY WaitStep
  <1> QED
    BY <1>1, <1>2, DeviceInvariant, PTL DEF DeviceSpec

\* al1_ble's handler of REPEAT_PAIRING never looks for a bond that is gone, and
\* NimBLE never holds the host task for two pairings at once.
THEOREM RepeatsAlwaysFind == DeviceSpec => [](OneWaits /\ RepeatFinds)
  <1> QED
    BY WaitInvariant, PTL DEF WaitInv

\* What still stands in the way of the pairing the host task is held for.
Work == IF HostFree THEN 0 ELSE 1 + Len(bonds) + phantoms

\* Every turn of NimBLE leaves less in the way, or finds the bond that cannot be
\* deleted where it was, and nothing else adds to it.
RetriesShrink ==
    [][/\ Pairs /\ "delete" \notin broken => Work' < Work
       /\ ~HostFree => Work' < Work \/ UNCHANGED <<peer, stage, store>>]_deviceVars

\* The provable half of RetriesEnd: while bonds can be deleted the number Work, no
\* larger than MaxBonds + 1, falls with every turn until the host task is free
\* again, and no other step, nor a turn when they cannot, sets it back.
THEOREM RetriesAlwaysShrink == DeviceSpec => RetriesShrink
  <1>1. ASSUME PairInv, WaitInv, Pairs
        PROVE  /\ ~HostFree
               /\ \/ Work' < Work
                  \/ "delete" \in broken /\ UNCHANGED <<peer, stage, store>>
    <2>1. PICK c \in Conn : RepeatPairing(c) \/ Write(c) \/ Overflow(c)
      BY <1>1 DEF Pairs
    <2>2. Waits(c) /\ ~HostFree
      BY <2>1 DEF RepeatPairing, Write, Overflow, Waits, HostFree
    <2>3. /\ bonds \in Seq(Peer) /\ IsInjective(bonds) /\ Len(bonds) \in Nat /\ phantoms \in Nat
          /\ MaxBonds \in Nat \ {0}
      BY <1>1, NoBonds DEF PairInv, StoreOK
    <2>4. Work = 1 + Len(bonds) + phantoms
      BY <2>2 DEF Work
    <2>5. ASSUME HostFree' PROVE Work' < Work
      <3>1. Work' = 0
        BY <2>5 DEF Work
      <3> QED
        BY <2>3, <2>4, <3>1
    <2>6. ASSUME Len(bonds') \in Nat, phantoms' \in Nat, Len(bonds') + phantoms' < Len(bonds) + phantoms
          PROVE  Work' < Work
      <3>1. Work' \in {0, 1 + Len(bonds') + phantoms'}
        BY DEF Work
      <3> QED
        BY <2>3, <2>4, <2>6, <3>1
    <2>7. CASE RepeatPairing(c) /\ "delete" \notin broken
      <3>1. PICK i \in DOMAIN bonds : bonds[i] = peer[c] /\ bonds' = RemoveAt(bonds, i)
        BY <2>7 DEF RepeatPairing, delete_peer
      <3>2. Len(bonds') = Len(bonds) - 1 /\ phantoms' = phantoms /\ i \in 1 .. Len(bonds)
        BY <2>3, <2>7, <3>1, RemoveBond DEF RepeatPairing
      <3> QED
        BY <2>2, <2>3, <2>6, <3>2
    <2>11. CASE RepeatPairing(c) /\ "delete" \in broken
      <3>1. bonds' = bonds /\ phantoms' = phantoms /\ peer' = peer /\ HasBond(c) /\ stage[c] = "repeat"
        BY <1>1, <2>11 DEF RepeatPairing, delete_peer, WaitInv, RepeatFinds
      <3>2. stage' = [stage EXCEPT ![c] = "repeat"]
        BY <2>11, <3>1 DEF RepeatPairing, HasBond, Moves
      <3>3. stage' = stage
        BY <1>1, <3>1, <3>2 DEF PairInv, PeersOK
      <3> QED
        BY <2>2, <2>11, <3>1, <3>3 DEF store
    <2>8. ASSUME Moves(c, "none") PROVE Work' < Work
      BY <1>1, <2>2, <2>5, <2>8, OneLess DEF PairInv, WaitInv, Stages
    <2>9. CASE Write(c)
      BY <2>2, <2>8, <2>9 DEF Write
    <2>10. CASE Overflow(c)
      <3>1. CASE Evict
        <4>1. Len(bonds') = Len(bonds) - 1 /\ phantoms' = phantoms /\ Len(bonds) # 0
          BY <2>3, <3>1, EvictBond DEF Evict, CanEvict
        <4> QED
          BY <2>2, <2>3, <2>6, <4>1
      <3>2. CASE ClearStore
        <4>1. Len(bonds') = 0 /\ phantoms' = 0 /\ Len(bonds) + phantoms >= MaxBonds
          BY <2>10, <3>2, NoBonds DEF Overflow, Full, ClearStore, EmptyStore
        <4> QED
          BY <2>2, <2>3, <2>6, <4>1
      <3>3. CASE GivesUp(c)
        BY <2>2, <2>8, <3>3 DEF GivesUp
      <3> QED
        BY <2>10, <3>1, <3>2, <3>3 DEF Overflow, al1_ble_store_status
    <2> QED
      BY <2>1, <2>2, <2>7, <2>9, <2>10, <2>11
  <1>2. ASSUME IInv, PairInv, WaitInv, DeviceNext
        PROVE  /\ Pairs /\ "delete" \notin broken => Work' < Work
               /\ ~HostFree => Work' < Work \/ UNCHANGED <<peer, stage, store>>
    <2>1. Links \/ (\E c \in Conn : PairRequest(c) \/ KeysExchanged(c)) => HostFree
      BY DEF Links, PairRequest, KeysExchanged
    <2>2. Starts \/ FlashChanges => HostFree \/ UNCHANGED <<peer, stage, store>>
      BY <1>2, AsleepFree DEF Starts, FlashChanges, WaitInv
    <2>3. ASSUME Reboot, ~HostFree PROVE Work' < Work
      <3>1. HostFree'
        BY <2>3 DEF Reboot, HostFree
      <3>2. Work' = 0 /\ Work = 1 + Len(bonds) + phantoms
        BY <2>3, <3>1 DEF Work
      <3>3. Len(bonds) \in Nat /\ phantoms \in Nat
        BY <1>2 DEF PairInv, StoreOK
      <3> QED
        BY <3>2, <3>3
    <2> QED
      BY <1>1, <1>2, <2>1, <2>2, <2>3 DEF DeviceNext
  <1>3. IInv /\ PairInv /\ WaitInv /\ [DeviceNext]_deviceVars
          => [/\ Pairs /\ "delete" \notin broken => Work' < Work
              /\ ~HostFree => Work' < Work \/ UNCHANGED <<peer, stage, store>>]_deviceVars
    BY <1>2
  <1> QED
    BY <1>3, DeviceInvariant, WaitInvariant, PTL DEF DeviceSpec, RetriesShrink
===============================================================================
