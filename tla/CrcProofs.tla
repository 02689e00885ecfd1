------------------------------- MODULE CrcProofs -------------------------------
(***************************************************************************)
(* Every CRC whose polynomial has bit 0, over messages of any number of    *)
(* bytes, detects every burst no longer than its register.                 *)
(*                                                                         *)
(* The difference of the two registers is itself a register that is fed    *)
(* the disturbance alone.  Seen without the bits that are still to be      *)
(* shifted out, it holds, k bits after the first disturbed one, something  *)
(* in its lowest k bits: a shift either moves it up or feeds back a        *)
(* polynomial that has bit 0.                                              *)
(***************************************************************************)
EXTENDS ApCrc8, TLAPS

Diff == Xor(Xor(sent, got), pending)

CrcInv ==
    /\ TypeOK
    /\ IsAlg(alg)
    /\ result # "none" => left = 0
    /\ left = 0 => pending = {}
    /\ pending \subseteq (alg.width - left) .. (alg.width - 1)
    /\ \A p \in pending : p >= since
    /\ since = 0 => Diff = {}
    /\ since > 0 /\ result = "none" => \E p \in Diff : p < since
    /\ DetectsBursts

-----------------------------------------------------------------------------
\* Exclusive or is associative and commutative, and cancels.
LEMMA XorLaws ==
    ASSUME NEW x, NEW y, NEW p
    PROVE  /\ Xor(Xor(x, p), y) = Xor(Xor(x, y), p)
           /\ Xor(x, Xor(y, p)) = Xor(Xor(x, y), p)
           /\ Xor(Xor(x, p), Xor(y, p)) = Xor(x, y)
<1>1. \A a, b, z : z \in Xor(a, b) <=> ~(z \in a <=> z \in b)
  BY DEF Xor
<1>2. \A z : z \in Xor(Xor(x, p), y) <=> z \in Xor(Xor(x, y), p)
  BY SMT DEF Xor
<1>3. \A z : z \in Xor(x, Xor(y, p)) <=> z \in Xor(Xor(x, y), p)
  BY SMT DEF Xor
<1>4. \A z : z \in Xor(Xor(x, p), Xor(y, p)) <=> z \in Xor(x, y)
  BY SMT DEF Xor
<1> QED BY <1>2, <1>3, <1>4, SMT

\* A shift moves every bit up by one, but for the highest.
LEMMA ShlBits ==
    ASSUME NEW a, a \subseteq Int
    PROVE  /\ Shl(a) \subseteq Int
           /\ \A i \in Int : i \in Shl(a) <=> i - 1 \in a /\ i - 1 # alg.width - 1
<1>1. \A i : i \in Shl(a) <=> \E j \in a : j # alg.width - 1 /\ i = j + 1
  BY DEF Shl
<1>2. Shl(a) \subseteq Int
  BY <1>1
<1>3. \A i, j \in Int : i = j + 1 <=> j = i - 1
  OBVIOUS
<1>4. ASSUME NEW i \in Int PROVE i \in Shl(a) <=> i - 1 \in a /\ i - 1 # alg.width - 1
  <2>1. i - 1 \in Int /\ i = (i - 1) + 1
    OBVIOUS
  <2> QED
    BY <1>1, <1>3, <2>1
<1> QED
  BY <1>2, <1>4

\* Shifting distributes over exclusive or.
LEMMA ShlXor ==
    ASSUME NEW a, NEW b, a \subseteq Int, b \subseteq Int
    PROVE  Xor(Shl(a), Shl(b)) = Shl(Xor(a, b))
<1>1. \A i \in Int : i \in Shl(a) <=> i - 1 \in a /\ i - 1 # alg.width - 1
  BY ShlBits
<1>2. \A i \in Int : i \in Shl(b) <=> i - 1 \in b /\ i - 1 # alg.width - 1
  BY ShlBits
<1>3. Xor(a, b) \subseteq Int
  BY DEF Xor
<1>4. \A i \in Int : i \in Shl(Xor(a, b)) <=> i - 1 \in Xor(a, b) /\ i - 1 # alg.width - 1
  BY <1>3, ShlBits
<1>5. Shl(a) \subseteq Int /\ Shl(b) \subseteq Int /\ Shl(Xor(a, b)) \subseteq Int
  BY <1>3, ShlBits
<1>6. ASSUME NEW i \in Int PROVE i \in Xor(Shl(a), Shl(b)) <=> i \in Shl(Xor(a, b))
  BY <1>1, <1>2, <1>4, Zenon DEF Xor
<1>7. Xor(Shl(a), Shl(b)) \subseteq Int
  BY <1>5 DEF Xor
<1> QED BY <1>5, <1>6, <1>7

\* So does a step of the loop: the difference of two registers is fed back like one.
LEMMA StepLinear ==
    ASSUME NEW a, NEW b, a \subseteq Int, b \subseteq Int
    PROVE  Xor(Step(a), Step(b)) = Step(Xor(a, b))
<1>1. Xor(Shl(a), Shl(b)) = Shl(Xor(a, b))
  BY ShlXor
<1>2. \A x, y, p : Xor(Xor(x, p), y) = Xor(Xor(x, y), p) /\ Xor(x, Xor(y, p)) = Xor(Xor(x, y), p)
                   /\ Xor(Xor(x, p), Xor(y, p)) = Xor(x, y)
  BY XorLaws
<1>3. alg.width - 1 \in Xor(a, b) <=> ~(alg.width - 1 \in a <=> alg.width - 1 \in b)
  BY DEF Xor
<1>4. CASE alg.width - 1 \in a /\ alg.width - 1 \in b
  BY <1>1, <1>2, <1>3, <1>4 DEF Step
<1>5. CASE alg.width - 1 \in a /\ alg.width - 1 \notin b
  BY <1>1, <1>2, <1>3, <1>5 DEF Step
<1>6. CASE alg.width - 1 \notin a /\ alg.width - 1 \in b
  BY <1>1, <1>2, <1>3, <1>6 DEF Step
<1>7. CASE alg.width - 1 \notin a /\ alg.width - 1 \notin b
  BY <1>1, <1>2, <1>3, <1>7 DEF Step
<1> QED BY <1>4, <1>5, <1>6, <1>7
\* Exclusive or with nothing.
LEMMA XorNothing == ASSUME NEW x PROVE Xor(x, {}) = x /\ Xor(x, x) = {}
  BY DEF Xor

LEMMA InitInv == Init => CrcInv
<1> SUFFICES ASSUME Init PROVE CrcInv
  OBVIOUS
<1>1. IsAlg(alg) /\ msg \in Seq(Byte)
  BY CrcAssumption DEF CrcAssumption, Init
<1>2. Diff = {}
  BY XorNothing DEF Init, Diff
<1>3. Len(msg) \in Nat
  BY <1>1
<1>4. TypeOK
  BY <1>1, <1>3, SMT DEF Init, TypeOK, IsAlg, Bits
<1> QED BY <1>1, <1>2, <1>4, SMT DEF Init, CrcInv, DetectsBursts

\* Registers stay within their width.
LEMMA RegisterTypes ==
    ASSUME IsAlg(alg), NEW r, r \subseteq Bits
    PROVE  /\ Shl(r) \subseteq Bits /\ Step(r) \subseteq Bits
           /\ \A x : x \subseteq Bits => Xor(r, x) \subseteq Bits
           /\ \A b : b \subseteq 0 .. 7 => Aligned(b) \subseteq (alg.width - 8) .. (alg.width - 1)
                                        /\ Aligned(b) \subseteq Bits
<1>1. Shl(r) \subseteq Bits
  BY SMT DEF Shl, Bits, IsAlg
<1>2. \A x : x \subseteq Bits => Xor(r, x) \subseteq Bits
  BY DEF Xor
<1>3. Xor(Shl(r), alg.poly) \subseteq Bits
  BY <1>1 DEF Xor, IsAlg, Bits
<1>4. Step(r) \subseteq Bits
  BY <1>1, <1>3 DEF Step
<1>5. \A b : b \subseteq 0 .. 7 => Aligned(b) \subseteq (alg.width - 8) .. (alg.width - 1)
  BY SMT DEF Aligned, IsAlg
<1>6. (alg.width - 8) .. (alg.width - 1) \subseteq Bits
  BY SMT DEF Bits, IsAlg
<1> QED BY <1>1, <1>2, <1>4, <1>5, <1>6

\* Which bits of a register a byte reaches.
LEMMA AlignedBits ==
    ASSUME alg.width \in Nat
    PROVE  \A b : b \subseteq 0 .. 7 =>
               /\ Aligned(b) \subseteq Int
               /\ \A i \in Int : i \in Aligned(b) <=> i - alg.width + 8 \in b
<1> SUFFICES ASSUME NEW b, b \subseteq 0 .. 7
             PROVE  /\ Aligned(b) \subseteq Int
                    /\ \A i \in Int : i \in Aligned(b) <=> i - alg.width + 8 \in b
  OBVIOUS
<1>1. \A j \in b : j \in Int /\ j + alg.width - 8 \in Int
  OBVIOUS
<1>2. \A i : i \in Aligned(b) <=> \E j \in b : i = j + alg.width - 8
  BY DEF Aligned
<1>3. \A i, j \in Int : i = j + alg.width - 8 <=> j = i - alg.width + 8
  OBVIOUS
<1>4. ASSUME NEW i \in Int PROVE i \in Aligned(b) <=> i - alg.width + 8 \in b
  <2>1. i - alg.width + 8 \in Int
    OBVIOUS
  <2> QED BY <1>1, <1>2, <1>3, <2>1
<1> QED BY <1>1, <1>2, <1>4

LEMMA TakeByteStep ==
    ASSUME CrcInv, NEW e \in ByteErrors, BurstInByte(e), TakeByte(e)
    PROVE  CrcInv'
<1> USE DEF CrcInv
<1>1. /\ result = "none" /\ left = 0 /\ n < Len(msg) /\ n' = n + 1 /\ left' = 8
      /\ UNCHANGED <<alg, msg, result, since>> /\ pending = {}
      /\ sent' = Xor(sent, Aligned(msg[n + 1]))
      /\ got' = Xor(got, Aligned(Xor(msg[n + 1], e)))
      /\ pending' = Aligned(e)
  BY DEF TakeByte
<1>2. msg \in Seq(Byte) /\ e \subseteq 0 .. 7 /\ n \in Nat /\ Len(msg) \in Nat
  <2>1. msg \in Seq(Byte) /\ e \in Byte
    BY CrcAssumption DEF CrcAssumption, TypeOK
  <2> QED BY <2>1, SMT DEF TypeOK, Byte
<1>3. msg[n + 1] \subseteq 0 .. 7
  <2>1. n + 1 \in 1 .. Len(msg)
    BY <1>1, <1>2, SMT
  <2>2. msg[n + 1] \in Byte
    BY <1>2, <2>1
  <2> QED BY <2>2 DEF Byte
<1>4. Xor(msg[n + 1], e) \subseteq 0 .. 7
  BY <1>2, <1>3 DEF Xor
<1>5. TypeOK'
  <2>1. sent' \subseteq Bits /\ got' \subseteq Bits /\ pending' \subseteq Bits
    BY <1>1, <1>2, <1>3, <1>4, RegisterTypes DEF TypeOK
  <2>2. n' \in 0 .. Len(msg) /\ left' \in 0 .. 8
    BY <1>1, <1>2, SMT
  <2> QED BY <1>1, <2>1, <2>2 DEF TypeOK, Bits
<1>6. pending' \subseteq (alg'.width - left') .. (alg'.width - 1)
  BY <1>1, <1>2, RegisterTypes DEF TypeOK
<1>7. \A p \in pending' : p >= since'
  <2>1. ASSUME NEW i \in e PROVE i + alg.width - 8 >= since
    <3>1. i \in 0 .. 7 /\ alg.width \in Nat /\ alg.width >= 8 /\ since \in 0 .. alg.width
      BY <1>2 DEF TypeOK, IsAlg
    <3>2. since > 0 => since + (7 - i) < alg.width
      BY DEF BurstInByte
    <3> QED BY <3>1, <3>2, SMT
  <2> QED BY <1>1, <2>1 DEF Aligned
<1>8. Diff' = Diff
  <2>1. Aligned(Xor(msg[n + 1], e)) = Xor(Aligned(msg[n + 1]), Aligned(e))
    <3>1. \A b : b \subseteq 0 .. 7 =>
              /\ Aligned(b) \subseteq Int
              /\ \A i \in Int : i \in Aligned(b) <=> i - alg.width + 8 \in b
      BY AlignedBits DEF IsAlg
    <3>2. ASSUME NEW i \in Int
          PROVE  i \in Aligned(Xor(msg[n + 1], e)) <=> i \in Xor(Aligned(msg[n + 1]), Aligned(e))
      <4>1. \A b : b \subseteq 0 .. 7 => (i \in Aligned(b) <=> i - alg.width + 8 \in b)
        BY <3>1
      <4>2. /\ i \in Aligned(Xor(msg[n + 1], e)) <=> i - alg.width + 8 \in Xor(msg[n + 1], e)
            /\ i \in Aligned(msg[n + 1]) <=> i - alg.width + 8 \in msg[n + 1]
            /\ i \in Aligned(e) <=> i - alg.width + 8 \in e
        BY <1>2, <1>3, <1>4, <4>1
      <4> QED BY <4>2 DEF Xor
    <3>3. Xor(Aligned(msg[n + 1]), Aligned(e)) \subseteq Int
      BY <1>2, <1>3, <3>1 DEF Xor
    <3> QED BY <1>4, <3>1, <3>2, <3>3
  <2>2. \A s, g, a, x : Xor(Xor(Xor(s, a), Xor(g, Xor(a, x))), x) = Xor(Xor(s, g), {})
    BY SMT DEF Xor
  <2> QED BY <1>1, <2>1, <2>2 DEF Diff
<1> QED BY <1>1, <1>5, <1>6, <1>7, <1>8, SMT DEF DetectsBursts, IsAlg

\* One iteration: what the difference holds moves up, or the polynomial comes in.
LEMMA ShiftStep == ASSUME CrcInv, Shift PROVE CrcInv'
<1> USE DEF CrcInv
<1> DEFINE top == alg.width - 1
           d == Xor(sent, got)
<1>1. /\ result = "none" /\ left > 0 /\ left' = left - 1
      /\ UNCHANGED <<alg, msg, n, result>>
      /\ sent' = Step(sent) /\ got' = Step(got) /\ pending' = Shl(pending)
      /\ since' = IF since > 0 \/ top \in pending
                    THEN IF since = alg.width THEN since ELSE since + 1
                    ELSE 0
  BY SMT DEF Shift, TypeOK
<1>2. /\ alg.width \in Nat /\ alg.width >= 8 /\ alg.poly \subseteq Bits /\ 0 \in alg.poly
      /\ left \in 1 .. 8 /\ since \in 0 .. alg.width
      /\ sent \subseteq Bits /\ got \subseteq Bits /\ pending \subseteq Bits /\ Bits \subseteq Int
  BY <1>1, SMT DEF TypeOK, IsAlg, Bits
<1>3. d \subseteq Bits /\ Diff \subseteq Bits
  BY <1>2 DEF Xor, Diff
<1>4. Diff' = IF top \in d THEN Xor(Shl(Diff), alg.poly) ELSE Shl(Diff)
  <2>1. Diff' = Xor(Step(d), Shl(pending))
    <3>1. sent \subseteq Int /\ got \subseteq Int
      BY <1>2
    <3>2. Xor(Step(sent), Step(got)) = Step(d)
      BY <3>1, StepLinear
    <3> QED BY <1>1, <3>2 DEF Diff
  <2>2. Xor(Shl(d), Shl(pending)) = Shl(Diff)
    <3>1. d \subseteq Int /\ pending \subseteq Int
      BY <1>2, <1>3
    <3> QED BY <3>1, ShlXor DEF Diff
  <2>3. Xor(Xor(Shl(d), alg.poly), Shl(pending)) = Xor(Shl(Diff), alg.poly)
    <3>1. \A x, y, p : Xor(Xor(x, p), y) = Xor(Xor(x, y), p)
      BY XorLaws
    <3>2. Xor(Xor(Shl(d), alg.poly), Shl(pending)) = Xor(Xor(Shl(d), Shl(pending)), alg.poly)
      BY <3>1
    <3> QED BY <2>2, <3>2
  <2> QED BY <2>1, <2>2, <2>3 DEF Step
<1> HIDE DEF d
<1>5. top \in Diff <=> ~(top \in d <=> top \in pending)
  BY DEF Diff, Xor, d
<1>6. TypeOK'
  <2>1. sent' \subseteq Bits /\ got' \subseteq Bits /\ pending' \subseteq Bits
    BY <1>1, <1>2, RegisterTypes
  <2>2. left' \in 0 .. 8 /\ since' \in 0 .. alg.width
    BY <1>1, <1>2, SMT
  <2> QED BY <1>1, <2>1, <2>2 DEF TypeOK, Bits
<1>7. pending' \subseteq (alg.width - left') .. top
  BY <1>1, <1>2, SMT DEF Shl, Bits
<1>8. \A p \in pending' : p >= since'
  <2>1. ASSUME NEW p \in pending PROVE p \in Nat /\ p >= since
    BY <1>2, SMT DEF Bits
  <2>2. ASSUME NEW q \in pending' PROVE \E p \in pending : q = p + 1 /\ p # top
    BY <1>1 DEF Shl
  <2>3. ASSUME NEW p \in pending, p # top PROVE p + 1 >= since'
    BY <1>1, <1>2, <2>1, <2>3, SMT
  <2> QED BY <2>2, <2>3
<1>9. \A q : q \in Diff /\ q # top => q + 1 \in Shl(Diff)
  BY DEF Shl
<1>10. 0 \notin Shl(Diff)
  BY <1>3, SMT DEF Shl, Bits
<1>11. since' = 0 => Diff' = {}
  <2>1. SUFFICES ASSUME since' = 0 PROVE Diff' = {}
    OBVIOUS
  <2>2. since = 0 /\ top \notin pending /\ Diff = {}
    BY <1>1, <1>2, <2>1, SMT
  <2>3. top \notin d
    BY <1>5, <2>2
  <2> QED BY <1>4, <2>2, <2>3 DEF Shl
<1>12. since' > 0 => \E p \in Diff' : p < since'
  <2>1. SUFFICES ASSUME since' > 0 PROVE \E p \in Diff' : p < since'
    OBVIOUS
  <2>2. CASE top \in d
    <3>1. 0 \in Diff'
      BY <1>2, <1>4, <1>10, <2>2 DEF Xor
    <3> QED BY <2>1, <3>1
  <2>3. CASE top \notin d
    <3>1. since > 0
      <4>1. CASE top \in pending
        BY <1>2, <1>5, <2>3, <4>1, SMT
      <4>2. CASE top \notin pending
        BY <1>1, <1>2, <2>1, <4>2, SMT
      <4> QED BY <4>1, <4>2
    <3>2. PICK p \in Diff : p < since
      BY <1>1, <3>1
    <3>3. p # top
      <4>1. CASE top \in pending
        <5>1. top >= since
          BY <4>1
        <5> QED BY <1>2, <3>2, <5>1, SMT
      <4>2. CASE top \notin pending
        BY <1>5, <2>3, <4>2
      <4> QED BY <4>1, <4>2
    <3>4. p + 1 \in Diff' /\ p \in Nat /\ p < top
      <4>1. p \in Nat /\ p <= top
        BY <1>2, <1>3, SMT DEF Bits
      <4> QED BY <1>2, <1>4, <1>9, <2>3, <3>3, <4>1, SMT
    <3>5. p + 1 < since'
      BY <1>1, <1>2, <3>1, <3>2, <3>4, SMT
    <3> QED BY <3>4, <3>5
  <2> QED BY <2>2, <2>3
<1>13. left' = 0 => pending' = {}
  BY <1>1, <1>2, <1>7, SMT
<1> QED BY <1>1, <1>2, <1>6, <1>7, <1>8, <1>11, <1>12, <1>13, SMT DEF DetectsBursts, IsAlg

\* The check arrives: it is a burst's last piece, too high up to hide the rest.
LEMMA CompareStep ==
    ASSUME CrcInv, NEW e, BurstInCheck(e), Compare(e)
    PROVE  CrcInv'
<1> USE DEF CrcInv
<1>1. /\ result = "none" /\ left = 0 /\ pending = {}
      /\ UNCHANGED <<alg, msg, n, left, sent, got, pending>>
      /\ result' = (IF got = Xor(sent, e) THEN "accepted" ELSE "rejected")
      /\ since' = (IF since = 0 /\ e # {} THEN 1 ELSE since)
  BY DEF Compare
<1>2. alg.width \in Nat /\ alg.width >= 8 /\ since \in 0 .. alg.width
  BY DEF TypeOK, IsAlg
<1>3. Diff = Xor(sent, got) /\ Diff' = Diff
  BY <1>1, XorNothing DEF Diff
<1>4. got = Xor(sent, e) <=> e = Diff
  BY <1>3, SMT DEF Xor
<1>5. since > 0 => e # Diff
  <2>1. SUFFICES ASSUME since > 0, e = Diff PROVE FALSE
    OBVIOUS
  <2>2. PICK p \in e : p < since
    BY <1>1, <2>1
  <2>3. p \in Nat /\ since + (alg.width - 1 - p) < alg.width
    BY <1>2, <2>1, <2>2, SMT DEF BurstInCheck, Bits
  <2> QED BY <1>2, <2>2, <2>3, SMT
<1>6. DetectsBursts'
  BY <1>1, <1>2, <1>4, <1>5, SMT DEF DetectsBursts
<1>7. TypeOK'
  BY <1>1, <1>2, SMT DEF TypeOK, Bits
<1>8. since' = 0 => since = 0
  BY <1>1, SMT
<1> QED BY <1>1, <1>2, <1>3, <1>6, <1>7, <1>8, SMT DEF IsAlg

\* The invariant holds of every frame.
LEMMA CrcInvariant == Spec => []CrcInv
<1>1. ASSUME CrcInv, [Next]_vars PROVE CrcInv'
  <2>1. CASE UNCHANGED vars
    BY <1>1, <2>1 DEF vars, CrcInv, TypeOK, IsAlg, Bits, Diff, Xor, DetectsBursts
  <2> QED BY <1>1, <2>1, TakeByteStep, ShiftStep, CompareStep DEF Next
<1> QED BY InitInv, <1>1, PTL DEF Spec

\* Neither register ever grows beyond its width.
THEOREM CrcTypeCorrect == Spec => []TypeOK
<1>1. CrcInv => TypeOK
  BY DEF CrcInv
<1> QED BY <1>1, CrcInvariant, PTL

\* Every burst no longer than the CRC is detected, in messages of any number of
\* bytes, by every CRC whose polynomial has bit 0; undisturbed frames pass.
THEOREM AlwaysDetectsBursts == Spec => []DetectsBursts
<1>1. CrcInv => DetectsBursts
  BY DEF CrcInv
<1> QED BY <1>1, CrcInvariant, PTL

(***************************************************************************)
(* The table of ap_crc8.  Eight steps of the loop make of a register one   *)
(* each of whose bits is an exclusive or of the first one's (LoopBits), so *)
(* that the table's entries can be compared with them (Entries); between   *)
(* two bytes the table is where the loop will be in left steps (TableInv). *)
(***************************************************************************)

\* Step for the CRC-8.
Step8(r) ==
    LET up == {i + 1 : i \in r \ {7}} IN IF 7 \in r THEN Xor(up, {0, 1, 2}) ELSE up

\* The register k iterations of the loop on.
Loop(r, k) ==
    CASE k = 0 -> r
      [] k = 1 -> Step8(r)
      [] k = 2 -> Step8(Step8(r))
      [] k = 3 -> Step8(Step8(Step8(r)))
      [] k = 4 -> Step8(Step8(Step8(Step8(r))))
      [] k = 5 -> Step8(Step8(Step8(Step8(Step8(r)))))
      [] k = 6 -> Step8(Step8(Step8(Step8(Step8(Step8(r))))))
      [] k = 7 -> Step8(Step8(Step8(Step8(Step8(Step8(Step8(r)))))))
      [] k = 8 -> Step8(Step8(Step8(Step8(Step8(Step8(Step8(Step8(r))))))))

TableInv == alg = crc8 => crc = Number(Loop(sent, left))

LEMMA OneStepLess ==
    ASSUME NEW r, NEW k \in 1 .. 8
    PROVE  Loop(r, k) = Loop(Step8(r), k - 1)
<1>1. CASE k = 1
  BY <1>1 DEF Loop
<1>2. CASE k = 2
  BY <1>2 DEF Loop
<1>3. CASE k = 3
  BY <1>3 DEF Loop
<1>4. CASE k = 4
  BY <1>4 DEF Loop
<1>5. CASE k = 5
  BY <1>5 DEF Loop
<1>6. CASE k = 6
  BY <1>6 DEF Loop
<1>7. CASE k = 7
  BY <1>7 DEF Loop
<1>8. CASE k = 8
  BY <1>8 DEF Loop
<1> QED
  BY <1>1, <1>2, <1>3, <1>4, <1>5, <1>6, <1>7, <1>8

\* What a step makes of each bit.
LEMMA StepBits ==
    ASSUME NEW r \in SUBSET (0 .. 7)
    PROVE  /\ Step8(r) \in SUBSET (0 .. 7)
           /\ 0 \in Step8(r) <=> 7 \in r
           /\ 1 \in Step8(r) <=> (0 \in r) # (7 \in r)
           /\ 2 \in Step8(r) <=> (1 \in r) # (7 \in r)
           /\ \A i \in 3 .. 7 : i \in Step8(r) <=> i - 1 \in r
BY DEF Step8, Xor

\* What eight steps make of it.
LEMMA LoopBits ==
    ASSUME NEW r \in SUBSET (0 .. 7)
    PROVE  /\ Loop(r, 8) \in SUBSET (0 .. 7)
           /\ 0 \in Loop(r, 8) <=> (0 \in r) # ((6 \in r) # (7 \in r))
           /\ 1 \in Loop(r, 8) <=> (0 \in r) # ((1 \in r) # (6 \in r))
           /\ 2 \in Loop(r, 8) <=> (0 \in r) # ((1 \in r) # ((2 \in r) # (6 \in r)))
           /\ 3 \in Loop(r, 8) <=> (1 \in r) # ((2 \in r) # ((3 \in r) # (7 \in r)))
           /\ 4 \in Loop(r, 8) <=> (2 \in r) # ((3 \in r) # (4 \in r))
           /\ 5 \in Loop(r, 8) <=> (3 \in r) # ((4 \in r) # (5 \in r))
           /\ 6 \in Loop(r, 8) <=> (4 \in r) # ((5 \in r) # (6 \in r))
           /\ 7 \in Loop(r, 8) <=> (5 \in r) # ((6 \in r) # (7 \in r))
<1> DEFINE r1 == Step8(r)
           r2 == Step8(r1)
           r3 == Step8(r2)
           r4 == Step8(r3)
           r5 == Step8(r4)
           r6 == Step8(r5)
           r7 == Step8(r6)
<1>1. Loop(r, 8) = Step8(r7)
  BY DEF Loop
<1> HIDE DEF r1, r2, r3, r4, r5, r6, r7
<1>2. r1 \in SUBSET (0 .. 7)
  BY StepBits DEF r1
<1>3. r2 \in SUBSET (0 .. 7)
  BY <1>2, StepBits DEF r2
<1>4. r3 \in SUBSET (0 .. 7)
  BY <1>3, StepBits DEF r3
<1>5. r4 \in SUBSET (0 .. 7)
  BY <1>4, StepBits DEF r4
<1>6. r5 \in SUBSET (0 .. 7)
  BY <1>5, StepBits DEF r5
<1>7. r6 \in SUBSET (0 .. 7)
  BY <1>6, StepBits DEF r6
<1>8. r7 \in SUBSET (0 .. 7)
  BY <1>7, StepBits DEF r7
<1> QED
  BY <1>1, <1>2, <1>3, <1>4, <1>5, <1>6, <1>7, <1>8, StepBits DEF r1, r2, r3, r4, r5, r6, r7

\* The table, entry by entry.
LEMMA Entries ==
    ASSUME NEW r \in SUBSET (0 .. 7)
    PROVE  crc8_table[Number(r) + 1] = Number(Loop(r, 8))
BY LoopBits DEF Number, crc8_table

\* The bits of a number are had back from it.
LEMMA BitsOfNumber ==
    ASSUME NEW r \in SUBSET (0 .. 7)
    PROVE  {i \in 0 .. 7 : (Number(r) \div 2^i) % 2 = 1} = r
<1> DEFINE bit(i) == IF i \in r THEN 1 ELSE 0
<1>1. \A i \in 0 .. 7 : bit(i) \in {0, 1} /\ (bit(i) = 1 <=> i \in r)
  OBVIOUS
<1>2. Number(r) = bit(0) + 2 * bit(1) + 4 * bit(2) + 8 * bit(3) + 16 * bit(4) + 32 * bit(5)
                  + 64 * bit(6) + 128 * bit(7)
  BY DEF Number
<1> HIDE DEF bit
<1>3. \A i \in 0 .. 7 : (Number(r) \div 2^i) % 2 = bit(i)
  <2>1. (Number(r) \div 2^0) % 2 = bit(0)
    BY <1>1, <1>2
  <2>2. (Number(r) \div 2^1) % 2 = bit(1)
    BY <1>1, <1>2
  <2>3. (Number(r) \div 2^2) % 2 = bit(2)
    BY <1>1, <1>2
  <2>4. (Number(r) \div 2^3) % 2 = bit(3)
    BY <1>1, <1>2
  <2>5. (Number(r) \div 2^4) % 2 = bit(4)
    BY <1>1, <1>2
  <2>6. (Number(r) \div 2^5) % 2 = bit(5)
    BY <1>1, <1>2
  <2>7. (Number(r) \div 2^6) % 2 = bit(6)
    BY <1>1, <1>2
  <2>8. (Number(r) \div 2^7) % 2 = bit(7)
    BY <1>1, <1>2
  <2>9. \A i \in 0 .. 7 : i = 0 \/ i = 1 \/ i = 2 \/ i = 3 \/ i = 4 \/ i = 5 \/ i = 6 \/ i = 7
    OBVIOUS
  <2> QED
    BY <2>1, <2>2, <2>3, <2>4, <2>5, <2>6, <2>7, <2>8, <2>9, Zenon
<1> QED
  BY <1>1, <1>3

\* The table's module takes the frame through the same steps.
LEMMA TableTakesSteps == TableSpec => Spec
<1>1. TableInit => Init
  BY DEF TableInit
<1>2. [TableNext]_<<vars, crc>> => [Next]_vars
  BY DEF TableNext
<1> QED
  BY <1>1, <1>2, PTL DEF TableSpec, Spec

LEMMA TableStep ==
    ASSUME CrcInv, TableInv, [TableNext]_<<vars, crc>>
    PROVE  TableInv'
<1> SUFFICES ASSUME alg' = crc8 PROVE crc' = Number(Loop(sent', left'))
  BY DEF TableInv
<1>1. alg' = alg /\ alg = crc8 /\ crc = Number(Loop(sent, left))
  BY DEF TableInv, TableNext, Next, TakeByte, Shift, Compare, vars
<1>2. /\ alg.width = 8 /\ alg.poly = {0, 1, 2} /\ sent \in SUBSET (0 .. 7) /\ left \in 0 .. 8
      /\ msg \in Seq(Byte) /\ n \in Nat
  <2>1. msg \in Seq(Byte)
    BY CrcAssumption DEF CrcInv, TypeOK
  <2>2. Len(msg) \in Nat
    BY <2>1
  <2> QED
    BY <1>1, <2>1, <2>2 DEF crc8, CrcInv, TypeOK, Bits
<1>3. ASSUME NEW e \in ByteErrors, TakeByte(e), TableNext
      PROVE  crc' = Number(Loop(sent', left'))
  <2> DEFINE b == msg[n + 1]
             x == Xor(sent, b)
  <2>1. b \in SUBSET (0 .. 7)
    <3>1. msg \in Seq(Byte) /\ n + 1 \in 1 .. Len(msg)
      BY <1>2, <1>3 DEF TakeByte
    <3>2. b \in Byte
      BY <3>1
    <3> QED
      BY <3>2 DEF Byte
  <2>2. n' = n + 1 /\ left = 0 /\ left' = 8 /\ sent' = x
    <3>1. Aligned(b) = b
      BY <1>2, <2>1 DEF Aligned
    <3> QED
      BY <1>3, <3>1 DEF TakeByte
  <2>3. crc = Number(sent)
    BY <1>1, <2>2 DEF Loop
  <2>4. x \in SUBSET (0 .. 7)
    BY <1>2, <2>1 DEF Xor
  <2>5. crc' = Lookup(crc, b)
    BY <1>1, <1>2, <1>3, <2>2 DEF TableNext
  <2>6. Lookup(crc, b) = crc8_table[Number(x) + 1]
    BY <1>2, <2>3, BitsOfNumber DEF Lookup, Exclusive
  <2> HIDE DEF x
  <2> QED
    BY <2>2, <2>4, <2>5, <2>6, Entries
<1>4. ASSUME Shift, TableNext PROVE crc' = Number(Loop(sent', left'))
  <2>1. left \in 1 .. 8 /\ left' = left - 1 /\ n' = n /\ sent' = Step(sent)
    BY <1>2, <1>4 DEF Shift
  <2>2. Step(sent) = Step8(sent)
    BY <1>2 DEF Step, Step8, Shl
  <2>3. Loop(sent, left) = Loop(Step8(sent), left - 1)
    BY <2>1, OneStepLess
  <2> QED
    BY <1>1, <1>4, <2>1, <2>2, <2>3 DEF TableNext
<1>5. ASSUME NEW e, Compare(e), TableNext PROVE crc' = Number(Loop(sent', left'))
  BY <1>1, <1>5 DEF Compare, TableNext
<1>6. CASE UNCHANGED <<vars, crc>>
  BY <1>1, <1>6 DEF vars
<1> QED
  BY <1>3, <1>4, <1>5, <1>6 DEF TableNext, Next

\* ap_crc8's table is the loop with its polynomial, for every message.
THEOREM TableAlwaysLoop == TableSpec => []TableIsLoop
<1>1. TableInit => TableInv
  BY DEF TableInit, Init, TableInv, Number, Loop, crc8
<1>2. TableInv => TableIsLoop
  BY DEF TableInv, TableIsLoop, Loop
<1>3. TableSpec => []CrcInv
  BY TableTakesSteps, CrcInvariant, PTL
<1>4. CrcInv /\ TableInv /\ [TableNext]_<<vars, crc>> => TableInv'
  BY TableStep
<1> QED
  BY <1>1, <1>2, <1>3, <1>4, PTL DEF TableSpec
===============================================================================
