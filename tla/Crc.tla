---------------------------------- MODULE Crc ----------------------------------
(***************************************************************************)
(* The two CRCs of the firmware, bit by bit: al1_crc16_ccitt_update over   *)
(* the covered bytes of a link frame, and the CRC-8 that ap_crc8 looks up  *)
(* in its table.  The sender of a frame and its receiver run the same loop *)
(* over the same number of bytes; the wire disturbs some of the bits, and  *)
(* the receiver compares its register with the check it received.          *)
(*                                                                         *)
(* A register and a byte are sets of bits, bit 0 the lowest.  The wire's   *)
(* disturbance is a burst: no two disturbed bits are further apart than a  *)
(* register is wide.                                                       *)
(***************************************************************************)
EXTENDS Integers, Sequences, FiniteSets

CONSTANTS
    Algs,          \* the CRCs: [width, poly, init]
    Messages,      \* bound: the covered bytes of a frame
    ByteErrors,    \* bound: disturbances of a byte
    CheckErrors    \* bound: disturbances of a check

Byte == SUBSET (0 .. 7)

IsAlg(a) ==
    /\ a.width \in Nat /\ a.width >= 8
    /\ a.poly \subseteq 0 .. a.width - 1 /\ 0 \in a.poly
    /\ a.init \subseteq 0 .. a.width - 1

ASSUME CrcAssumption ==
    /\ \A a \in Algs : IsAlg(a)
    /\ Messages \subseteq Seq(Byte) /\ ByteErrors \subseteq Byte

crc16_ccitt == [width |-> 16, poly |-> {0, 5, 12}, init |-> 0 .. 15]
crc8        == [width |-> 8, poly |-> {0, 1, 2}, init |-> {}]

VARIABLES
    alg,       \* which CRC
    msg,       \* the bytes it covers
    n,         \* how many of them have been taken
    left,      \* i: the iterations of the loop to come
    sent, got, \* crc, at the sender and at the receiver
    result,    \* "none" until the receiver has compared
    pending,   \* history: disturbed bits of the byte, not yet shifted out
    since      \* history: bits since the first disturbed one, up to the width

vars == <<alg, msg, n, left, sent, got, result, pending, since>>

Bits == 0 .. alg.width - 1

TypeOK ==
    /\ alg \in Algs /\ msg \in Messages
    /\ n \in 0 .. Len(msg) /\ left \in 0 .. 8
    /\ sent \subseteq Bits /\ got \subseteq Bits /\ pending \subseteq Bits
    /\ result \in {"none", "accepted", "rejected"}
    /\ since \in 0 .. alg.width

Init ==
    /\ alg \in Algs /\ msg \in Messages
    /\ n = 0 /\ left = 0
    /\ sent = alg.init /\ got = alg.init
    /\ result = "none"
    /\ pending = {} /\ since = 0

-----------------------------------------------------------------------------

Xor(a, b) == (a \ b) \cup (b \ a)

Shl_promoted(a) == {i + 1 : i \in a}         \* faulty: without the cast

\* (uint16_t)(crc << 1)
Shl(a) == {i + 1 : i \in a \ {alg.width - 1}}

Step_tests_late(r) ==                        \* faulty: shifts, then tests
    IF alg.width - 1 \in Shl(r) THEN Xor(Shl(r), alg.poly) ELSE Shl(r)

Step(r) == IF alg.width - 1 \in r THEN Xor(Shl(r), alg.poly) ELSE Shl(r)

\* A byte at the upper end of a register.
Aligned(b) == {i + alg.width - 8 : i \in b}

\* crc ^= byte << 8, undisturbed and disturbed.
TakeByte(e) ==
    /\ result = "none" /\ left = 0 /\ n < Len(msg)
    /\ n' = n + 1 /\ left' = 8
    /\ sent' = Xor(sent, Aligned(msg[n + 1]))
    /\ got' = Xor(got, Aligned(Xor(msg[n + 1], e)))
    /\ pending' = Aligned(e)
    /\ UNCHANGED <<alg, msg, result, since>>

Shift ==
    /\ left > 0
    /\ left' = left - 1
    /\ sent' = Step(sent) /\ got' = Step(got)
    /\ pending' = Shl(pending)
    /\ since' = IF since > 0 \/ alg.width - 1 \in pending
                THEN IF since = alg.width THEN since ELSE since + 1
                ELSE 0
    /\ UNCHANGED <<alg, msg, n, result>>

\* The check arrives, and is compared.
Compare(e) ==
    /\ result = "none" /\ left = 0 /\ n = Len(msg)
    /\ result' = IF got = Xor(sent, e) THEN "accepted" ELSE "rejected"
    /\ since' = IF since = 0 /\ e # {} THEN 1 ELSE since
    /\ UNCHANGED <<alg, msg, n, left, sent, got, pending>>

\* The wire, most significant bit first: what it disturbs next is within a
\* register's width of the first disturbed bit.
BurstInByte(e)  == since > 0 => \A i \in e : since + (7 - i) < alg.width
BurstInCheck(e) == e \subseteq Bits /\ (since > 0 => \A i \in e : since + (alg.width - 1 - i) < alg.width)

\* Of all disturbances of the check the one that hides what was disturbed
\* before is always among those considered.
Next ==
    \/ \E e \in ByteErrors : BurstInByte(e) /\ TakeByte(e)
    \/ Shift
    \/ \E e \in CheckErrors \cup {Xor(sent, got)} : BurstInCheck(e) /\ Compare(e)

Spec == Init /\ [][Next]_vars

-----------------------------------------------------------------------------

\* A frame with one burst anywhere, its check included, is never accepted, and
\* one without is always accepted: what crc_matches and ap_parse_byte's last
\* comparison are trusted for.
DetectsBursts ==
    /\ result = "accepted" => since = 0
    /\ result = "rejected" => since > 0
===============================================================================
