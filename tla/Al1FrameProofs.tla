---------------------------- MODULE Al1FrameProofs ----------------------------
(***************************************************************************)
(* Proofs about Al1Frame, for every radix, marker bytes and largest        *)
(* payload, and for every CRC al1_crc16_ccitt's loop can compute.           *)
(* What the parser has taken of a frame can be read off its variables      *)
(* (Taken); its CRC is of that (CrcInv), an undisturbed frame is that and  *)
(* the bytes on the wire (Halves), and the silence since the last SYNC     *)
(* byte is within it (QuietBound).                                         *)
(***************************************************************************)
EXTENDS Al1Frame, SequenceTheorems, WellFoundedInduction, TLAPS

Head2(h) == Append(<<VERSION>>, h.channel)
Head3(h) == Append(Head2(h), h.seq)
Head4(h, n) == Append(Head3(h), hi(n))
Head5(h, n) == Append(Head4(h, n), lo(n))

\* The covered bytes of the frame under way.
Taken ==
    CASE state = "CHANNEL" -> <<VERSION>>
      [] state = "SEQ"     -> Head2(head)
      [] state = "LEN_HI"  -> Head3(head)
      [] state = "LEN_LO"  -> Head4(head, len)
      [] state \in {"PAYLOAD", "CRC_HI", "CRC_LO"} -> Head5(head, len) \o payload
      [] OTHER -> << >>

\* All bytes of it.
Buffer ==
    IF state = "CRC_LO" THEN Append(<<SYNC>> \o Taken, hi(crc_rx)) ELSE <<SYNC>> \o Taken

Shape ==
    /\ state \notin {"PAYLOAD", "CRC_HI", "CRC_LO"} => payload = << >>
    /\ state = "LEN_LO" => \E b \in Byte : len = b * Radix
    /\ state = "PAYLOAD" => Len(payload) < len /\ len <= MaxPayload
    /\ state \in {"CRC_HI", "CRC_LO"} => Len(payload) = len /\ len <= MaxPayload
    /\ state = "CRC_LO" => \E b \in Byte : crc_rx = b * Radix

QuietBound ==
    /\ state = "VER" => quiet = 0
    /\ state = "CHANNEL" => quiet <= 1
    /\ state = "SEQ" => quiet <= 2
    /\ state = "LEN_HI" => quiet <= 3
    /\ state = "LEN_LO" => quiet <= 4
    /\ state = "PAYLOAD" => quiet <= 5 + Len(payload)
    /\ state = "CRC_HI" => quiet <= 5 + len
    /\ state = "CRC_LO" => quiet <= 6 + len

IInv == TypeOK /\ Shape /\ QuietBound

CrcIsFold ==
    /\ Crc(<< >>) = CrcInit
    /\ \A s \in Seq(Byte), b \in Byte : Crc(Append(s, b)) = CrcUpdate(Crc(s), b)

CrcInv == state \notin {"SYNC", "VER"} => crc_calc = Crc(Taken)

Built(f) == <<SYNC>> \o covered(f) \o <<hi(Crc(covered(f))), lo(Crc(covered(f)))>>

Halves ==
    aligned =>
        /\ sent \in Frames /\ Len(sent.payload) <= MaxPayload
        /\ wire # << >> =>
               \/ state \in {"SYNC", "VER"} /\ wire = Built(sent)
               \/ state # "SYNC" /\ Buffer \o wire = Built(sent)
        /\ wire = << >> => Delivered

-----------------------------------------------------------------------------

(***************************************************************************)
(* al1_crc16_ccitt: induction over the bytes it has taken.                 *)
(***************************************************************************)

\* A set of natural numbers that is not empty has a least member.
LEMMA Least ==
    ASSUME NEW T, T \subseteq Nat, T # {}
    PROVE  \E m \in T : \A k \in T : m <= k
  <1>1. PICK m \in T : \A k \in T : <<k, m>> \notin OpToRel(<, Nat)
    BY NatLessThanWellFounded, WFMin
  <1>2. \A k \in T : ~(k < m)
    BY <1>1 DEF OpToRel
  <1> QED
    BY <1>2

\* A set with 0 and the successor of each of its members has them all.
LEMMA AllNaturals ==
    ASSUME NEW T, T \subseteq Nat, 0 \in T, \A n \in T : n + 1 \in T
    PROVE  T = Nat
  <1> SUFFICES ASSUME Nat \ T # {} PROVE FALSE
    OBVIOUS
  <1>1. PICK m \in Nat \ T : \A k \in Nat \ T : m <= k
    BY Least
  <1>2. m # 0 /\ m - 1 \in Nat
    BY <1>1
  <1>3. m - 1 \in T
    BY <1>1, <1>2
  <1>4. (m - 1) + 1 = m
    BY <1>1
  <1> QED
    BY <1>1, <1>3, <1>4

\* r is the register after each of the first n bytes of s.
IsRun(r, s, n) == r = [i \in 0 .. n |-> IF i = 0 THEN CrcInit ELSE CrcUpdate(r[i - 1], s[i])]

LEMMA RunsExist ==
    ASSUME NEW s
    PROVE  \A n \in Nat : \E r : IsRun(r, s, n)
  <1> DEFINE T == {n \in Nat : \E r : IsRun(r, s, n)}
  <1>1. 0 \in T
    <2>1. IsRun([i \in 0 .. 0 |-> CrcInit], s, 0)
      BY DEF IsRun
    <2> QED
      BY <2>1
  <1>2. ASSUME NEW n \in T PROVE n + 1 \in T
    <2>1. PICK r : IsRun(r, s, n)
      OBVIOUS
    <2> DEFINE q == [i \in 0 .. n + 1 |-> IF i <= n THEN r[i] ELSE CrcUpdate(r[n], s[n + 1])]
    <2>2. ASSUME NEW i \in 0 .. n + 1 PROVE q[i] = IF i = 0 THEN CrcInit ELSE CrcUpdate(q[i - 1], s[i])
      <3>1. CASE i <= n
        <4>1. i \in 0 .. n /\ q[i] = r[i]
          BY <3>1
        <4>2. i # 0 => q[i - 1] = r[i - 1]
          BY <3>1
        <4>3. r[i] = IF i = 0 THEN CrcInit ELSE CrcUpdate(r[i - 1], s[i])
          BY <2>1, <4>1 DEF IsRun
        <4> QED
          BY <4>1, <4>2, <4>3
      <3>2. CASE ~(i <= n)
        <4>1. i = n + 1 /\ i # 0 /\ n \in Nat
          BY <3>2
        <4>2. q[i] = CrcUpdate(r[n], s[i]) /\ q[i - 1] = r[n]
          BY <4>1
        <4> QED
          BY <4>1, <4>2
      <3> QED
        BY <3>1, <3>2
    <2>3. IsRun(q, s, n + 1)
      BY <2>2 DEF IsRun
    <2> QED
      BY <2>3
  <1> HIDE DEF T
  <1>3. T = Nat
    <2>1. T \subseteq Nat
      BY DEF T
    <2> QED
      BY <1>1, <1>2, <2>1, AllNaturals
  <1> QED
    BY <1>3 DEF T

LEMMA RegistersRun ==
    ASSUME NEW s \in Seq(Byte)
    PROVE  IsRun(Registers(s), s, Len(s))
  <1>1. \E r : IsRun(r, s, Len(s))
    BY RunsExist, LenProperties
  <1>2. Registers(s) = CHOOSE r : IsRun(r, s, Len(s))
    BY DEF Registers, IsRun
  <1> QED
    BY <1>1, <1>2

\* The register after a byte.
LEMMA RunStep ==
    ASSUME NEW s \in Seq(Byte), NEW i \in 0 .. Len(s)
    PROVE  Registers(s)[i] = IF i = 0 THEN CrcInit ELSE CrcUpdate(Registers(s)[i - 1], s[i])
BY RegistersRun DEF IsRun

\* al1_crc16_ccitt folds al1_crc16_ccitt_update over its bytes.
LEMMA CrcFolds == CrcIsFold
  <1>1. Crc(<< >>) = CrcInit
    <2>1. << >> \in Seq(Byte) /\ Len(<< >>) = 0 /\ 0 \in 0 .. Len(<< >>)
      OBVIOUS
    <2> QED
      BY <2>1, RunStep DEF Crc
  <1>2. ASSUME NEW s \in Seq(Byte), NEW b \in Byte
        PROVE  Crc(Append(s, b)) = CrcUpdate(Crc(s), b)
    <2> DEFINE t == Append(s, b)
               T == {n \in Nat : n <= Len(s) => Registers(t)[n] = Registers(s)[n]}
    <2>1. /\ t \in Seq(Byte) /\ Len(s) \in Nat /\ Len(t) = Len(s) + 1 /\ t[Len(s) + 1] = b
          /\ \A i \in 1 .. Len(s) : t[i] = s[i]
      BY AppendProperties, LenProperties
    <2>2. 0 \in T
      <3>1. 0 \in 0 .. Len(s) /\ 0 \in 0 .. Len(t)
        BY <2>1
      <3> HIDE DEF t
      <3> QED
        BY <2>1, <3>1, RunStep
    <2>3. ASSUME NEW n \in T PROVE n + 1 \in T
      <3> SUFFICES ASSUME n + 1 <= Len(s) PROVE Registers(t)[n + 1] = Registers(s)[n + 1]
        OBVIOUS
      <3>1. n \in Nat /\ n + 1 \in 0 .. Len(s) /\ n + 1 \in 0 .. Len(t) /\ (n + 1) - 1 = n /\ n + 1 # 0
        BY <2>1
      <3>2. Registers(t)[n] = Registers(s)[n] /\ t[n + 1] = s[n + 1]
        BY <2>1, <3>1
      <3> HIDE DEF t
      <3>3. Registers(t)[n + 1] = CrcUpdate(Registers(t)[n], t[n + 1])
        BY <2>1, <3>1, RunStep
      <3>4. Registers(s)[n + 1] = CrcUpdate(Registers(s)[n], s[n + 1])
        BY <3>1, RunStep
      <3> QED
        BY <3>2, <3>3, <3>4
    <2>4. T = Nat
      <3>1. T \subseteq Nat
        OBVIOUS
      <3> HIDE DEF T
      <3> QED
        BY <2>2, <2>3, <3>1, AllNaturals
    <2>5. Registers(t)[Len(s)] = Registers(s)[Len(s)]
      BY <2>1, <2>4
    <2>6. Registers(t)[Len(s) + 1] = CrcUpdate(Registers(t)[Len(s)], b)
      <3>1. Len(s) + 1 \in 0 .. Len(t) /\ Len(s) + 1 # 0 /\ (Len(s) + 1) - 1 = Len(s)
        BY <2>1
      <3> HIDE DEF t
      <3> QED
        BY <2>1, <3>1, RunStep
    <2> QED
      BY <2>1, <2>5, <2>6 DEF Crc
  <1> QED
    BY <1>1, <1>2 DEF CrcIsFold

\* A CRC is a word.
LEMMA CrcIsWord ==
    ASSUME NEW s \in Seq(Byte)
    PROVE  Crc(s) \in Word
  <1> DEFINE T == {n \in Nat : n <= Len(s) => Registers(s)[n] \in Word}
  <1>1. Len(s) \in Nat /\ \A i \in 1 .. Len(s) : s[i] \in Byte
    BY LenProperties, ElementOfSeq
  <1>2. 0 \in T
    BY <1>1, RunStep, CrcAssumption
  <1>3. ASSUME NEW n \in T PROVE n + 1 \in T
    <2> SUFFICES ASSUME n + 1 <= Len(s) PROVE Registers(s)[n + 1] \in Word
      OBVIOUS
    <2>1. n \in Nat /\ n + 1 \in 0 .. Len(s) /\ (n + 1) - 1 = n /\ n + 1 # 0 /\ s[n + 1] \in Byte
      BY <1>1
    <2>2. Registers(s)[n + 1] = CrcUpdate(Registers(s)[n], s[n + 1])
      BY <2>1, RunStep
    <2>3. Registers(s)[n] \in Word
      BY <2>1
    <2> QED
      BY <2>1, <2>2, <2>3, CrcAssumption
  <1>4. T = Nat
    <2>1. T \subseteq Nat
      OBVIOUS
    <2> HIDE DEF T
    <2> QED
      BY <1>2, <1>3, <2>1, AllNaturals
  <1> QED
    BY <1>1, <1>4 DEF Crc

-----------------------------------------------------------------------------

\* Two bytes make a word, and can be had back from it.
LEMMA WordOfBytes ==
    ASSUME NEW a \in Byte, NEW b \in Byte
    PROVE  /\ a * Radix \in Word /\ a * Radix + b \in Word
           /\ hi(a * Radix + b) = a /\ lo(a * Radix + b) = b
           /\ hi(a * Radix) = a
  <1>1. /\ Radix \in Nat \ {0} /\ a \in Nat /\ b \in Nat /\ a <= Radix - 1 /\ b <= Radix - 1
    BY WireAssumption DEF Byte
  <1>2. a * Radix \in Nat /\ a * Radix <= (Radix - 1) * Radix
    BY <1>1
  <1>3. (Radix - 1) * Radix = Radix * Radix - Radix /\ Radix * Radix \in Nat
    BY <1>1
  <1>4. a * Radix + b \in Word /\ a * Radix \in Word
    BY <1>1, <1>2, <1>3 DEF Word
  <1>5. ASSUME NEW c \in Byte
        PROVE  (a * Radix + c) \div Radix = a /\ (a * Radix + c) % Radix = c
    BY <1>1 DEF Byte
  <1>6. 0 \in Byte /\ a * Radix + 0 = a * Radix
    BY <1>1, <1>2 DEF Byte
  <1>7. hi(a * Radix + b) = a /\ lo(a * Radix + b) = b
    BY <1>5 DEF hi, lo
  <1>8. hi(a * Radix) = a
    BY <1>5, <1>6 DEF hi
  <1> QED
    BY <1>4, <1>7, <1>8

LEMMA BytesOfWord ==
    ASSUME NEW n \in Word
    PROVE  /\ hi(n) \in Byte /\ lo(n) \in Byte
           /\ hi(n) * Radix + lo(n) = n
  <1>1. /\ Radix \in Nat \ {0} /\ n \in Nat /\ n <= Radix * Radix - 1
    BY WireAssumption DEF Word
  <1>2. /\ lo(n) \in 0 .. Radix - 1 /\ hi(n) \in Nat /\ n = Radix * hi(n) + lo(n)
    BY <1>1 DEF hi, lo
  <1>3. hi(n) < Radix
    BY <1>1, <1>2
  <1> QED
    BY <1>1, <1>2, <1>3 DEF Byte

\* What a byte changes keeps its type.
MachineType ==
    /\ state \in State
    /\ head \in [channel : Byte, seq : Byte]
    /\ len \in Word
    /\ payload \in Seq(Byte) /\ Len(payload) <= MaxPayload
    /\ crc_calc \in Word /\ crc_rx \in Word
    /\ event \in Event
    /\ quiet \in 0 .. MaxQuiet

LEMMA Small ==
    /\ 0 \in Byte /\ 0 \in Word /\ MaxPayload \in Nat /\ MaxQuiet = MaxPayload + 7
    /\ << >> \in Seq(Byte) /\ Len(<< >>) = 0
    /\ Radix \in Nat \ {0} /\ Byte \subseteq Nat /\ Word \subseteq Nat
  <1>1. Radix \in Nat \ {0} /\ MaxPayload \in Word
    BY WireAssumption
  <1>2. Radix * Radix >= 1
    BY <1>1
  <1> QED
    BY <1>1, <1>2 DEF Byte, Word, MaxQuiet

\* The counter of the silence.
LEMMA QuietStep ==
    ASSUME IInv, NEW b \in Byte, Feed(b)
    PROVE  /\ quiet' \in 0 .. MaxQuiet /\ quiet' <= quiet + 1 /\ quiet \in Nat
           /\ b = SYNC => quiet' = 0
  BY Small DEF IInv, TypeOK, Feed

LEMMA StepSync ==
    ASSUME IInv, NEW b \in Byte, Feed(b), state = "SYNC"
    PROVE  /\ (MachineType /\ Shape /\ QuietBound)'
           /\ state' = IF b = SYNC THEN "VER" ELSE "SYNC"
  <1>1. FeedSync(b)
    BY DEF Feed, al1_parser_feed, FeedVer, FeedHead, FeedLenLo, FeedPayload, FeedCrcHi, FeedCrcLo
  <1>2. /\ state' = IF b = SYNC THEN "VER" ELSE "SYNC"
        /\ UNCHANGED <<head, len, payload, crc_calc, crc_rx>> /\ event' = "none"
    BY <1>1 DEF FeedSync, fields, Report
  <1>3. MachineType'
    BY <1>2, QuietStep DEF MachineType, IInv, TypeOK, State, Event
  <1>4. Shape' /\ QuietBound'
    BY <1>2, QuietStep DEF IInv, Shape, QuietBound
  <1> QED
    BY <1>2, <1>3, <1>4

LEMMA StepVer ==
    ASSUME IInv, NEW b \in Byte, Feed(b), state = "VER"
    PROVE  /\ (MachineType /\ Shape /\ QuietBound)'
           /\ state' \in {"SYNC", "VER", "CHANNEL"}
           /\ b = SYNC => state' = "VER"
           /\ b = VERSION => state' = "CHANNEL"
           /\ state' = "CHANNEL" => b = VERSION /\ crc_calc' = CrcUpdate(CrcInit, b)
  <1>1. FeedVer(b)
    BY DEF Feed, al1_parser_feed, FeedSync, FeedHead, FeedLenLo, FeedPayload, FeedCrcHi, FeedCrcLo
  <1>2. /\ UNCHANGED <<head, len, payload, crc_rx>> /\ event' \in {"none", "ver_err"}
        /\ state' \in {"SYNC", "VER", "CHANNEL"}
        /\ b = SYNC => state' = "VER"
        /\ state' = "VER" => b = SYNC
        /\ b = VERSION <=> state' = "CHANNEL"
        /\ state' = "CHANNEL" => b = VERSION /\ crc_calc' = CrcUpdate(CrcInit, b)
        /\ state' # "CHANNEL" => crc_calc' = crc_calc
    BY <1>1, WireAssumption DEF FeedVer, Report
  <1>3. crc_calc' \in Word
    BY <1>2, CrcAssumption DEF IInv, TypeOK
  <1>4. MachineType'
    BY <1>2, <1>3, QuietStep DEF MachineType, IInv, TypeOK, State, Event
  <1>5. Shape' /\ QuietBound'
    BY <1>2, QuietStep DEF IInv, Shape, QuietBound
  <1> QED
    BY <1>2, <1>4, <1>5

\* A covered byte.
Covers(b) == Taken' = Append(Taken, b) /\ crc_calc' = CrcUpdate(crc_calc, b)

LEMMA StepHead ==
    ASSUME IInv, NEW b \in Byte, Feed(b), state \in {"CHANNEL", "SEQ", "LEN_HI"}
    PROVE  /\ (MachineType /\ Shape /\ QuietBound)'
           /\ state' = [CHANNEL |-> "SEQ", SEQ |-> "LEN_HI", LEN_HI |-> "LEN_LO"][state]
           /\ Covers(b)
  <1>1. FeedHead(b)
    BY DEF Feed, al1_parser_feed, FeedSync, FeedVer, FeedLenLo, FeedPayload, FeedCrcHi, FeedCrcLo
  <1>2. /\ UNCHANGED <<payload, crc_rx>> /\ event' = "none"
        /\ crc_calc' = CrcUpdate(crc_calc, b) /\ crc_calc' \in Word
        /\ head \in [channel : Byte, seq : Byte] /\ len \in Word
    BY <1>1, CrcAssumption DEF FeedHead, Covered, Report, IInv, TypeOK
  <1>3. CASE state = "CHANNEL"
    <2>1. state' = "SEQ" /\ head' = [head EXCEPT !.channel = b] /\ len' = len
      BY <1>1, <1>3 DEF FeedHead
    <2>2. head' \in [channel : Byte, seq : Byte] /\ head'.channel = b
      BY <1>2, <2>1
    <2>3. Taken' = Append(Taken, b)
      BY <1>3, <2>1, <2>2 DEF Taken, Head2
    <2>4. MachineType' /\ Shape' /\ QuietBound'
      BY <1>2, <1>3, <2>1, <2>2, QuietStep DEF MachineType, IInv, TypeOK, State, Event, Shape, QuietBound
    <2> QED
      BY <1>2, <1>3, <2>1, <2>3, <2>4 DEF Covers
  <1>4. CASE state = "SEQ"
    <2>1. state' = "LEN_HI" /\ head' = [head EXCEPT !.seq = b] /\ len' = len
      BY <1>1, <1>4 DEF FeedHead
    <2>2. head' \in [channel : Byte, seq : Byte] /\ head'.channel = head.channel /\ head'.seq = b
      BY <1>2, <2>1
    <2>3. Taken' = Append(Taken, b)
      BY <1>4, <2>1, <2>2 DEF Taken, Head2, Head3
    <2>4. MachineType' /\ Shape' /\ QuietBound'
      BY <1>2, <1>4, <2>1, <2>2, QuietStep DEF MachineType, IInv, TypeOK, State, Event, Shape, QuietBound
    <2> QED
      BY <1>2, <1>4, <2>1, <2>3, <2>4 DEF Covers
  <1>5. CASE state = "LEN_HI"
    <2>1. state' = "LEN_LO" /\ head' = head /\ len' = b * Radix
      BY <1>1, <1>5 DEF FeedHead
    <2>2. len' \in Word /\ hi(len') = b
      BY <2>1, WordOfBytes
    <2>3. Taken' = Append(Taken, b)
      BY <1>5, <2>1, <2>2 DEF Taken, Head4
    <2>4. MachineType' /\ Shape' /\ QuietBound'
      BY <1>2, <1>5, <2>1, <2>2, QuietStep DEF MachineType, IInv, TypeOK, State, Event, Shape, QuietBound
    <2> QED
      BY <1>2, <1>5, <2>1, <2>3, <2>4 DEF Covers
  <1> QED
    BY <1>3, <1>4, <1>5

\* Appending to the end of a concatenation.
LEMMA AppendConcat ==
    ASSUME NEW s \in Seq(Byte), NEW t \in Seq(Byte), NEW b \in Byte
    PROVE  s \o Append(t, b) = Append(s \o t, b) /\ s \o << >> = s
  <1>1. s \o Append(t, b) = Append(s \o t, b)
    <2> DEFINE l == s \o Append(t, b)
               r == Append(s \o t, b)
    <2>1. l \in Seq(Byte) /\ r \in Seq(Byte) /\ Len(l) = Len(r)
      OBVIOUS
    <2>2. \A i \in 1 .. Len(l) : l[i] = r[i]
      OBVIOUS
    <2> HIDE DEF l, r
    <2>3. l = r
      BY <2>1, <2>2, SeqEqual
    <2> QED
      BY <2>3 DEF l, r
  <1> QED
    BY <1>1, ConcatEmptySeq

\* The header is bytes.
LEMMA HeadBytes ==
    ASSUME IInv
    PROVE  /\ \A n \in Word : Head5(head, n) \in Seq(Byte) /\ Len(Head5(head, n)) = 5
           /\ \A b \in Byte : Head4(head, b * Radix) \in Seq(Byte)
           /\ Head3(head) \in Seq(Byte) /\ Head2(head) \in Seq(Byte) /\ <<VERSION>> \in Seq(Byte)
  <1>1. VERSION \in Byte /\ head.channel \in Byte /\ head.seq \in Byte
    BY WireAssumption DEF IInv, TypeOK
  <1>2. <<VERSION>> \in Seq(Byte) /\ Head2(head) \in Seq(Byte) /\ Head3(head) \in Seq(Byte)
        /\ Len(Head3(head)) = 3
    BY <1>1 DEF Head2, Head3
  <1>3. \A b \in Byte : Head4(head, b * Radix) \in Seq(Byte)
    BY <1>2, WordOfBytes DEF Head4
  <1>4. ASSUME NEW n \in Word
        PROVE  Head5(head, n) \in Seq(Byte) /\ Len(Head5(head, n)) = 5
    <2>1. hi(n) \in Byte /\ lo(n) \in Byte
      BY BytesOfWord
    <2>2. ASSUME NEW s \in Seq(Byte), NEW c \in Byte, NEW d \in Byte, Len(s) = 3
          PROVE  Append(Append(s, c), d) \in Seq(Byte) /\ Len(Append(Append(s, c), d)) = 5
      <3>1. Append(s, c) \in Seq(Byte) /\ Len(Append(s, c)) = Len(s) + 1
        BY AppendProperties
      <3> QED
        BY <2>2, <3>1, AppendProperties
    <2> QED
      BY <1>2, <2>1, <2>2 DEF Head5, Head4
  <1> QED
    BY <1>2, <1>3, <1>4

LEMMA StepLenLo ==
    ASSUME IInv, NEW b \in Byte, Feed(b), state = "LEN_LO"
    PROVE  /\ (MachineType /\ Shape /\ QuietBound)'
           /\ state' # "SYNC" => Covers(b) /\ state' \in {"PAYLOAD", "CRC_HI"}
           /\ len + b <= MaxPayload => state' # "SYNC"
  <1>1. FeedLenLo(b)
    BY DEF Feed, al1_parser_feed, FeedSync, FeedVer, FeedHead, FeedPayload, FeedCrcHi, FeedCrcLo
  <1>2. PICK a \in Byte : len = a * Radix
    BY DEF IInv, Shape
  <1>3. /\ len + b \in Word /\ hi(len + b) = a /\ lo(len + b) = b /\ hi(len) = a
        /\ len + b \in Nat
    BY <1>2, WordOfBytes, Small
  <1>4. CASE len + b > MaxPayload
    <2>1. Hunt /\ event' = "len_err"
      BY <1>1, <1>4 DEF FeedLenLo, too_long, Report
    <2>2. state' = "SYNC"
      BY <2>1 DEF Hunt
    <2>3. MachineType'
      BY <2>1, Small, QuietStep DEF Hunt, MachineType, State, Event
    <2>4. Shape' /\ QuietBound'
      BY <2>1 DEF Hunt, Shape, QuietBound
    <2> QED
      BY <1>3, <1>4, <2>2, <2>3, <2>4, Small
  <1>5. CASE ~(len + b > MaxPayload)
    <2>1. /\ len' = len + b /\ state' = IF len + b = 0 THEN "CRC_HI" ELSE "PAYLOAD"
          /\ crc_calc' = CrcUpdate(crc_calc, b)
          /\ UNCHANGED <<head, payload, crc_rx>> /\ event' = "none"
      BY <1>1, <1>5 DEF FeedLenLo, too_long, Covered, Report
    <2>2. payload = << >> /\ crc_calc' \in Word
      BY <2>1, CrcAssumption DEF IInv, Shape, TypeOK
    <2>3. MachineType'
      BY <1>3, <2>1, <2>2, QuietStep DEF MachineType, IInv, TypeOK, State, Event
    <2>4. Shape'
      BY <1>3, <1>5, <2>1, <2>2, Small DEF Shape
    <2>5. QuietBound'
      <3>1. quiet' \in Nat /\ quiet' <= 5
        BY QuietStep DEF IInv, QuietBound
      <3>2. Len(payload') = 0 /\ (state' = "CRC_HI" => len' = 0)
        BY <2>1, <2>2, Small
      <3> QED
        BY <2>1, <3>1, <3>2 DEF QuietBound
    <2>6. Taken' = Append(Taken, b)
      <3>1. Taken = Head4(head, len) /\ Taken' = Head5(head, len + b) \o << >>
        BY <2>1, <2>2 DEF Taken
      <3>2. Head5(head, len + b) = Append(Head4(head, len), b)
        BY <1>3 DEF Head5, Head4
      <3>3. Head5(head, len + b) \o << >> = Head5(head, len + b)
        BY <1>3, HeadBytes, ConcatEmptySeq
      <3> QED
        BY <3>1, <3>2, <3>3
    <2> QED
      BY <2>1, <2>3, <2>4, <2>5, <2>6 DEF Covers
  <1> QED
    BY <1>4, <1>5

LEMMA StepPayload ==
    ASSUME IInv, NEW b \in Byte, Feed(b), state = "PAYLOAD"
    PROVE  /\ (MachineType /\ Shape /\ QuietBound)'
           /\ state' \in {"PAYLOAD", "CRC_HI"} /\ Covers(b)
  <1>1. FeedPayload(b)
    BY DEF Feed, al1_parser_feed, FeedSync, FeedVer, FeedHead, FeedLenLo, FeedCrcHi, FeedCrcLo
  <1>2. /\ payload' = Append(payload, b) /\ crc_calc' = CrcUpdate(crc_calc, b)
        /\ state' = IF Len(payload) + 1 >= len THEN "CRC_HI" ELSE "PAYLOAD"
        /\ UNCHANGED <<head, len, crc_rx>> /\ event' = "none"
    BY <1>1 DEF FeedPayload, payload_ends, Covered, Report
  <1>3. /\ payload \in Seq(Byte) /\ Len(payload) < len /\ len <= MaxPayload /\ len \in Nat
        /\ MaxPayload \in Nat /\ Len(payload) \in Nat /\ len \in Word
    BY Small DEF IInv, TypeOK, Shape
  <1>4. payload' \in Seq(Byte) /\ Len(payload') = Len(payload) + 1
    BY <1>2, <1>3
  <1>5. crc_calc' \in Word
    BY <1>2, CrcAssumption DEF IInv, TypeOK
  <1>6. MachineType'
    BY <1>2, <1>3, <1>4, <1>5, QuietStep DEF MachineType, IInv, TypeOK, State, Event
  <1>7. Shape'
    BY <1>2, <1>3, <1>4 DEF Shape
  <1>8. QuietBound'
    BY <1>2, <1>3, <1>4, QuietStep DEF IInv, QuietBound
  <1>9. Taken' = Append(Taken, b)
    <2>1. Taken = Head5(head, len) \o payload /\ Taken' = Head5(head, len) \o Append(payload, b)
      BY <1>2 DEF Taken
    <2>2. Head5(head, len) \in Seq(Byte)
      BY <1>3, HeadBytes
    <2> QED
      BY <1>3, <2>1, <2>2, AppendConcat
  <1> QED
    BY <1>2, <1>6, <1>7, <1>8, <1>9 DEF Covers

LEMMA StepCrcHi ==
    ASSUME IInv, NEW b \in Byte, Feed(b), state = "CRC_HI"
    PROVE  /\ (MachineType /\ Shape /\ QuietBound)'
           /\ state' = "CRC_LO" /\ Taken' = Taken /\ crc_rx' = b * Radix
           /\ UNCHANGED <<head, len, payload, crc_calc>>
  <1>1. FeedCrcHi(b)
    BY DEF Feed, al1_parser_feed, FeedSync, FeedVer, FeedHead, FeedLenLo, FeedPayload, FeedCrcLo
  <1>2. /\ state' = "CRC_LO" /\ crc_rx' = b * Radix /\ crc_rx' \in Word
        /\ UNCHANGED <<head, len, payload, crc_calc>> /\ event' = "none"
    BY <1>1, WordOfBytes DEF FeedCrcHi, Report
  <1>3. MachineType'
    BY <1>2, QuietStep DEF MachineType, IInv, TypeOK, State, Event
  <1>4. Shape'
    BY <1>2 DEF IInv, Shape
  <1>5. QuietBound'
    <2>1. len \in Nat
      BY Small DEF IInv, TypeOK
    <2> QED
      BY <1>2, <2>1, QuietStep DEF IInv, QuietBound
  <1>6. Taken' = Taken
    BY <1>2 DEF Taken
  <1> QED
    BY <1>2, <1>3, <1>4, <1>5, <1>6

LEMMA StepCrcLo ==
    ASSUME IInv, NEW b \in Byte, Feed(b), state = "CRC_LO"
    PROVE  /\ (MachineType /\ Shape /\ QuietBound)'
           /\ state' = "SYNC"
           /\ crc_rx + b = crc_calc =>
                  /\ event' = "frame"
                  /\ delivered' = [channel |-> head.channel, seq |-> head.seq, payload |-> payload]
  <1>1. FeedCrcLo(b)
    BY DEF Feed, al1_parser_feed, FeedSync, FeedVer, FeedHead, FeedLenLo, FeedPayload, FeedCrcHi
  <1>2. /\ Hunt /\ state' = "SYNC" /\ event' \in {"frame", "crc_err"}
        /\ crc_rx + b = crc_calc =>
               /\ event' = "frame"
               /\ delivered' = [channel |-> head.channel, seq |-> head.seq, payload |-> payload]
    BY <1>1 DEF FeedCrcLo, crc_matches, Report, Hunt
  <1>3. MachineType'
    BY <1>2, Small, QuietStep DEF Hunt, MachineType, State, Event
  <1>4. Shape' /\ QuietBound'
    BY <1>2 DEF Hunt, Shape, QuietBound
  <1> QED
    BY <1>2, <1>3, <1>4

\* Every byte, whichever state it finds.
LEMMA StepAny ==
    ASSUME IInv, NEW b \in Byte, Feed(b)
    PROVE  (MachineType /\ Shape /\ QuietBound)'
  <1>1. state \in State
    BY DEF IInv, TypeOK
  <1> QED
    BY <1>1, StepSync, StepVer, StepHead, StepLenLo, StepPayload, StepCrcHi, StepCrcLo DEF State

\* What al1_frame_build leaves on the wire: bytes.
LEMMA Builds ==
    ASSUME NEW f \in Frames
    PROVE  LET w == al1_frame_build(f, Overhead + Len(f.payload))
           IN  /\ w \in Seq(Byte)
               /\ Len(f.payload) <= MaxPayload => w = Built(f) /\ w # << >>
               /\ Len(f.payload) > MaxPayload => w = << >>
  <1>1. /\ f.payload \in Seq(Byte) /\ f.channel \in Byte /\ f.seq \in Byte
        /\ Len(f.payload) \in Nat /\ MaxPayload \in Nat /\ MaxPayload \in Word
        /\ SYNC \in Byte /\ VERSION \in Byte
    BY FramesAssumption, WireAssumption, Small
  <1>2. ~(Overhead + Len(f.payload) < Overhead + Len(f.payload))
    BY <1>1 DEF Overhead
  <1>3. CASE Len(f.payload) > MaxPayload
    BY <1>1, <1>3, Small DEF al1_frame_build
  <1>4. CASE ~(Len(f.payload) > MaxPayload)
    <2>1. al1_frame_build(f, Overhead + Len(f.payload)) = Built(f)
      BY <1>2, <1>4 DEF al1_frame_build, Built
    <2>2. Len(f.payload) \in Word
      <3>1. Radix * Radix \in Nat
        BY Small
      <3> QED
        BY <1>1, <1>4, <3>1 DEF Word
    <2>3. hi(Len(f.payload)) \in Byte /\ lo(Len(f.payload)) \in Byte
      BY <2>2, BytesOfWord
    <2>4. <<VERSION, f.channel, f.seq, hi(Len(f.payload)), lo(Len(f.payload))>> \in Seq(Byte)
      BY <1>1, <2>3
    <2>5. covered(f) \in Seq(Byte)
      BY <1>1, <2>4 DEF covered
    <2>6. Crc(covered(f)) \in Word
      BY <2>5, CrcIsWord
    <2>7. hi(Crc(covered(f))) \in Byte /\ lo(Crc(covered(f))) \in Byte
      BY <2>6, BytesOfWord
    <2>8. Built(f) \in Seq(Byte) /\ Len(Built(f)) >= 3
      BY <1>1, <2>5, <2>7 DEF Built
    <2> QED
      BY <1>1, <1>4, <2>1, <2>8
  <1> QED
    BY <1>3, <1>4

-----------------------------------------------------------------------------

\* The part of the invariant that no CRC matters to.
LEMMA FrameInvariant == Spec => []IInv
  <1>1. Init => IInv
    <2> SUFFICES ASSUME Init PROVE IInv
      OBVIOUS
    <2>1. /\ state = "SYNC" /\ head = [channel |-> 0, seq |-> 0] /\ len = 0
          /\ payload = << >> /\ crc_calc = 0 /\ crc_rx = 0 /\ event = "none"
          /\ wire = << >> /\ aligned = FALSE /\ quiet = 0
      BY DEF Init, al1_parser_init
    <2>2. head \in [channel : Byte, seq : Byte]
      BY <2>1, Small
    <2>3. MaxPayload \in Nat /\ quiet \in 0 .. MaxQuiet /\ Len(payload) <= MaxPayload
      BY <2>1, Small
    <2>4. TypeOK
      BY <2>1, <2>2, <2>3, Small DEF TypeOK, State, Event
    <2>5. Shape /\ QuietBound
      BY <2>1 DEF Shape, QuietBound
    <2> QED
      BY <2>4, <2>5 DEF IInv
  <1>2. IInv /\ [Next]_vars => IInv'
    <2> SUFFICES ASSUME IInv, [Next]_vars PROVE IInv'
      OBVIOUS
    <2>1. ASSUME NEW f \in Frames, Send(f) PROVE IInv'
      <3>1. wire' \in Seq(Byte)
        BY <2>1, Builds DEF Send
      <3>2. aligned' \in BOOLEAN
        BY <2>1, Zenon DEF Send
      <3>3. UNCHANGED <<state, head, len, payload, crc_calc, crc_rx, event, quiet>>
        BY <2>1 DEF Send, parser, fields, output
      <3> QED
        BY <3>1, <3>2, <3>3 DEF IInv, TypeOK, Shape, QuietBound
    <2>2. CASE Arrives
      <3>1. Head(wire) \in Byte /\ Tail(wire) \in Seq(Byte)
        BY <2>2 DEF Arrives, IInv, TypeOK
      <3>2. (MachineType /\ Shape /\ QuietBound)'
        BY <2>2, <3>1, StepAny DEF Arrives
      <3> QED
        BY <2>2, <3>1, <3>2 DEF Arrives, IInv, TypeOK, MachineType
    <2>3. ASSUME NEW b \in Byte, Disturbed(b) PROVE IInv'
      <3>1. (MachineType /\ Shape /\ QuietBound)'
        BY <2>3, StepAny DEF Disturbed
      <3>2. wire' \in Seq(Byte) /\ aligned' = FALSE
        BY <2>3 DEF Disturbed, IInv, TypeOK
      <3> QED
        BY <3>1, <3>2 DEF IInv, TypeOK, MachineType
    <2>4. CASE Lost
      <3>1. wire' \in Seq(Byte) /\ aligned' = FALSE
        BY <2>4 DEF Lost, IInv, TypeOK
      <3>2. UNCHANGED <<state, head, len, payload, crc_calc, crc_rx, event, quiet>>
        BY <2>4 DEF Lost, parser, fields, output
      <3> QED
        BY <3>1, <3>2 DEF IInv, TypeOK, Shape, QuietBound
    <2>5. CASE UNCHANGED vars
      BY <2>5 DEF vars, parser, fields, output, IInv, TypeOK, Shape, QuietBound
    <2> QED
      BY <2>1, <2>2, <2>3, <2>4, <2>5 DEF Next
  <1> QED
    BY <1>1, <1>2, PTL DEF Spec

\* The parser's buffer never overruns and no field leaves its width, whatever
\* bytes arrive.
THEOREM TypeCorrect == Spec => []TypeOK
  <1>1. IInv => TypeOK
    BY DEF IInv
  <1> QED
    BY <1>1, FrameInvariant, PTL

\* A frame under way ends within the longest frame, whatever LEN said.
THEOREM AlwaysRecovers == Spec => []Recovers
  <1>1. IInv => Recovers
    <2> SUFFICES ASSUME IInv, quiet = MaxQuiet PROVE state = "SYNC"
      BY DEF Recovers
    <2>1. state \in State /\ MaxPayload \in Nat /\ MaxQuiet = MaxPayload + 7 /\ len \in Nat
      BY Small DEF IInv, TypeOK
    <2>2. state \notin {"VER", "CHANNEL", "SEQ", "LEN_HI", "LEN_LO"}
      BY <2>1 DEF IInv, QuietBound
    <2>3. state \notin {"PAYLOAD", "CRC_HI", "CRC_LO"}
      <3>1. Len(payload) \in Nat
        BY DEF IInv, TypeOK
      <3> QED
        BY <2>1, <3>1 DEF IInv, QuietBound, Shape
    <2> QED
      BY <2>1, <2>2, <2>3 DEF State
  <1> QED
    BY <1>1, FrameInvariant, PTL

-----------------------------------------------------------------------------

\* The header is five bytes in their order.
LEMMA HeadShape ==
    ASSUME IInv, NEW n \in Word
    PROVE  Head5(head, n) = <<VERSION, head.channel, head.seq, hi(n), lo(n)>>
  <1> DEFINE t == <<VERSION, head.channel, head.seq, hi(n), lo(n)>>
  <1>1. /\ VERSION \in Byte /\ head.channel \in Byte /\ head.seq \in Byte
        /\ hi(n) \in Byte /\ lo(n) \in Byte
    BY WireAssumption, BytesOfWord DEF IInv, TypeOK
  <1>2. ASSUME NEW a \in Byte, NEW b \in Byte, NEW c \in Byte, NEW d \in Byte, NEW e \in Byte
        PROVE  Append(Append(Append(Append(<<a>>, b), c), d), e) = <<a, b, c, d, e>>
    <2>1. Append(<<a>>, b) = <<a, b>>
      <3>1. Append(<<a>>, b) \in Seq(Byte) /\ <<a, b>> \in Seq(Byte)
        OBVIOUS
      <3>2. Len(Append(<<a>>, b)) = 2 /\ Len(<<a, b>>) = 2
        OBVIOUS
      <3>3. \A i \in 1 .. 2 : Append(<<a>>, b)[i] = <<a, b>>[i]
        OBVIOUS
      <3> QED
        BY <3>1, <3>2, <3>3, SeqEqual
    <2>2. Append(<<a, b>>, c) = <<a, b, c>>
      <3>1. Append(<<a, b>>, c) \in Seq(Byte) /\ <<a, b, c>> \in Seq(Byte)
        OBVIOUS
      <3>2. Len(Append(<<a, b>>, c)) = 3 /\ Len(<<a, b, c>>) = 3
        OBVIOUS
      <3>3. \A i \in 1 .. 3 : Append(<<a, b>>, c)[i] = <<a, b, c>>[i]
        OBVIOUS
      <3> QED
        BY <3>1, <3>2, <3>3, SeqEqual
    <2>3. Append(<<a, b, c>>, d) = <<a, b, c, d>>
      <3>1. Append(<<a, b, c>>, d) \in Seq(Byte) /\ <<a, b, c, d>> \in Seq(Byte)
        OBVIOUS
      <3>2. Len(Append(<<a, b, c>>, d)) = 4 /\ Len(<<a, b, c, d>>) = 4
        OBVIOUS
      <3>3. \A i \in 1 .. 4 : Append(<<a, b, c>>, d)[i] = <<a, b, c, d>>[i]
        OBVIOUS
      <3> QED
        BY <3>1, <3>2, <3>3, SeqEqual
    <2>4. Append(<<a, b, c, d>>, e) = <<a, b, c, d, e>>
      <3>1. Append(<<a, b, c, d>>, e) \in Seq(Byte) /\ <<a, b, c, d, e>> \in Seq(Byte)
        OBVIOUS
      <3>2. Len(Append(<<a, b, c, d>>, e)) = 5 /\ Len(<<a, b, c, d, e>>) = 5
        OBVIOUS
      <3>3. \A i \in 1 .. 5 : Append(<<a, b, c, d>>, e)[i] = <<a, b, c, d, e>>[i]
        OBVIOUS
      <3> QED
        BY <3>1, <3>2, <3>3, SeqEqual
    <2> QED
      BY <2>1, <2>2, <2>3, <2>4, Zenon
  <1> QED
    BY <1>1, <1>2 DEF Head5, Head4, Head3, Head2

\* The bytes of the frame under way.
LEMMA TakenShape ==
    ASSUME IInv
    PROVE  /\ Taken \in Seq(Byte)
           /\ state = "CHANNEL" => Len(Taken) = 1
           /\ state = "SEQ" => Len(Taken) = 2
           /\ state = "LEN_HI" => Len(Taken) = 3
           /\ state = "LEN_LO" => Len(Taken) = 4 /\ Taken[4] = hi(len)
           /\ state \in {"PAYLOAD", "CRC_HI", "CRC_LO"} =>
                  /\ Len(Taken) = 5 + Len(payload)
                  /\ Taken[2] = head.channel /\ Taken[3] = head.seq
                  /\ Taken[4] = hi(len) /\ Taken[5] = lo(len)
                  /\ \A i \in 1 .. Len(payload) : Taken[i + 5] = payload[i]
  <1>1. /\ VERSION \in Byte /\ head.channel \in Byte /\ head.seq \in Byte
        /\ hi(len) \in Byte /\ lo(len) \in Byte /\ len \in Word /\ payload \in Seq(Byte)
        /\ state \in State
    BY WireAssumption, BytesOfWord DEF IInv, TypeOK
  <1>3. <<VERSION>> \in Seq(Byte) /\ Len(<<VERSION>>) = 1
    BY <1>1
  <1>2. \A s \in Seq(Byte), b \in Byte : /\ Append(s, b) \in Seq(Byte)
                                         /\ Len(Append(s, b)) = Len(s) + 1
                                         /\ Append(s, b)[Len(s) + 1] = b
    OBVIOUS
  <1>4. Head2(head) \in Seq(Byte) /\ Len(Head2(head)) = 2
    BY <1>1, <1>2, <1>3 DEF Head2
  <1>5. Head3(head) \in Seq(Byte) /\ Len(Head3(head)) = 3
    <2>1. Head3(head) \in Seq(Byte) /\ Len(Head3(head)) = Len(Head2(head)) + 1
      BY <1>1, <1>2, <1>4, Zenon DEF Head3
    <2> QED
      BY <1>4, <2>1
  <1>6. Head4(head, len) \in Seq(Byte) /\ Len(Head4(head, len)) = 4 /\ Head4(head, len)[4] = hi(len)
    <2>1. /\ Head4(head, len) \in Seq(Byte) /\ Len(Head4(head, len)) = Len(Head3(head)) + 1
          /\ Head4(head, len)[Len(Head3(head)) + 1] = hi(len)
      BY <1>1, <1>2, <1>5, Zenon DEF Head4
    <2> QED
      BY <1>5, <2>1
  <1>7. CASE state \in {"PAYLOAD", "CRC_HI", "CRC_LO"}
    <2> DEFINE h == Head5(head, len)
    <2>1. h = <<VERSION, head.channel, head.seq, hi(len), lo(len)>>
      BY <1>1, HeadShape
    <2>2. /\ h \in Seq(Byte) /\ Len(h) = 5 /\ h[2] = head.channel /\ h[3] = head.seq
          /\ h[4] = hi(len) /\ h[5] = lo(len)
      BY <1>1, <2>1
    <2>3. Taken = h \o payload
      BY <1>7 DEF Taken
    <2> HIDE DEF h
    <2>4. h \o payload \in Seq(Byte) /\ Len(h \o payload) = Len(h) + Len(payload)
          /\ \A i \in 1 .. Len(h) + Len(payload) :
                 (h \o payload)[i] = IF i <= Len(h) THEN h[i] ELSE payload[i - Len(h)]
      BY <1>1, <2>2, ConcatProperties
    <2>5. /\ \A i \in 1 .. 5 : (h \o payload)[i] = h[i]
          /\ \A i \in 1 .. Len(payload) : (h \o payload)[i + 5] = payload[i]
      BY <1>1, <2>2, <2>4
    <2> QED
      BY <1>7, <2>2, <2>3, <2>4, <2>5
  <1>8. CASE state \in {"CHANNEL", "SEQ", "LEN_HI", "LEN_LO"}
    BY <1>3, <1>4, <1>5, <1>6, <1>8 DEF Taken
  <1>9. CASE state \in {"SYNC", "VER"}
    BY <1>9, Small DEF Taken
  <1> QED
    BY <1>1, <1>7, <1>8, <1>9 DEF State

\* A covered byte is one more byte of the frame under way.
LEMMA CrcStep ==
    ASSUME IInv, CrcInv, NEW b \in Byte, Feed(b)
    PROVE  CrcInv'
  <1>1. state \in State /\ Taken \in Seq(Byte)
    BY TakenShape DEF IInv, TypeOK
  <1>2. CASE state = "SYNC"
    BY <1>2, StepSync DEF CrcInv
  <1>3. CASE state = "VER"
    <2>1. state' \in {"SYNC", "VER"} \/ (state' = "CHANNEL" /\ b = VERSION
                                         /\ crc_calc' = CrcUpdate(CrcInit, b))
      BY <1>3, StepVer
    <2>2. CrcUpdate(CrcInit, VERSION) = Crc(<<VERSION>>)
      <3>1. Append(<< >>, VERSION) = <<VERSION>> /\ << >> \in Seq(Byte) /\ VERSION \in Byte
        BY WireAssumption
      <3>2. Crc(Append(<< >>, VERSION)) = CrcUpdate(Crc(<< >>), VERSION)
        BY <3>1, CrcFolds DEF CrcIsFold
      <3> QED
        BY <3>1, <3>2, CrcFolds DEF CrcIsFold
    <2>3. state' = "CHANNEL" => Taken' = <<VERSION>>
      BY DEF Taken
    <2> QED
      BY <2>1, <2>2, <2>3 DEF CrcInv
  <1>4. ASSUME state \notin {"SYNC", "VER"}, Covers(b)
        PROVE  CrcInv'
    BY <1>1, <1>4, CrcFolds DEF Covers, CrcInv, CrcIsFold
  <1>5. CASE state \in {"CHANNEL", "SEQ", "LEN_HI"}
    BY <1>4, <1>5, StepHead
  <1>6. CASE state = "LEN_LO"
    BY <1>4, <1>6, StepLenLo DEF CrcInv
  <1>7. CASE state = "PAYLOAD"
    BY <1>4, <1>7, StepPayload
  <1>8. CASE state = "CRC_HI"
    BY <1>8, StepCrcHi DEF CrcInv
  <1>9. CASE state = "CRC_LO"
    BY <1>9, StepCrcLo DEF CrcInv
  <1> QED
    BY <1>1, <1>2, <1>3, <1>5, <1>6, <1>7, <1>8, <1>9 DEF State

\* What the parser is about to deliver came with the CRC of all of it.
LEMMA CrcMeansConsistent ==
    ASSUME IInv, CrcInv
    PROVE  ConsistentCrc
  <1> SUFFICES ASSUME state \in {"CRC_HI", "CRC_LO"} PROVE ConsistentCrc
    BY DEF ConsistentCrc
  <1> DEFINE f == [channel |-> head.channel, seq |-> head.seq, payload |-> payload]
  <1>1. Len(payload) = len /\ len \in Word
    BY DEF IInv, TypeOK, Shape
  <1>2. Taken = <<VERSION, head.channel, head.seq, hi(len), lo(len)>> \o payload
    BY <1>1, HeadShape DEF Taken
  <1>3. f.channel = head.channel /\ f.seq = head.seq /\ f.payload = payload
    OBVIOUS
  <1>4. covered(f) = Taken
    BY <1>1, <1>2, <1>3, Zenon DEF covered
  <1> QED
    BY <1>1, <1>4 DEF CrcInv, ConsistentCrc

\* What a frame on the wire consists of.
LEMMA FrameShape ==
    ASSUME NEW f \in Frames, Len(f.payload) <= MaxPayload
    PROVE  /\ covered(f) \in Seq(Byte) /\ Built(f) \in Seq(Byte)
           /\ Len(f.payload) \in Word /\ Len(f.payload) \in Nat
           /\ Len(covered(f)) = Len(f.payload) + 5
           /\ Len(Built(f)) = Len(f.payload) + 8
           /\ Built(f)[1] = SYNC
           /\ \A i \in 1 .. Len(f.payload) + 5 : Built(f)[i + 1] = covered(f)[i]
           /\ Built(f)[Len(f.payload) + 7] = hi(Crc(covered(f)))
           /\ Built(f)[Len(f.payload) + 8] = lo(Crc(covered(f)))
           /\ covered(f)[1] = VERSION /\ covered(f)[2] = f.channel /\ covered(f)[3] = f.seq
           /\ covered(f)[4] = hi(Len(f.payload)) /\ covered(f)[5] = lo(Len(f.payload))
           /\ \A i \in 1 .. Len(f.payload) : covered(f)[i + 5] = f.payload[i]
           /\ Crc(covered(f)) \in Word
           /\ f = [channel |-> f.channel, seq |-> f.seq, payload |-> f.payload]
           /\ f.payload \in Seq(Byte)
  <1> DEFINE n == Len(f.payload)
             h == <<VERSION, f.channel, f.seq, hi(n), lo(n)>>
             c == covered(f)
             e == <<hi(Crc(c)), lo(Crc(c))>>
             s == <<SYNC>> \o c
  <1>1. /\ f.payload \in Seq(Byte) /\ f.channel \in Byte /\ f.seq \in Byte
        /\ n \in Nat /\ MaxPayload \in Nat /\ MaxPayload \in Word
        /\ SYNC \in Byte /\ VERSION \in Byte
        /\ f = [channel |-> f.channel, seq |-> f.seq, payload |-> f.payload]
    BY FramesAssumption, WireAssumption, Small
  <1>2. n \in Word
    <2>1. Radix * Radix \in Nat
      BY Small
    <2> QED
      BY <1>1, <2>1 DEF Word
  <1>3. hi(n) \in Byte /\ lo(n) \in Byte
    BY <1>2, BytesOfWord
  <1>4. Crc(c) \in Word
    <2>1. <<VERSION, f.channel, f.seq, hi(n), lo(n)>> \in Seq(Byte)
      BY <1>1, <1>3
    <2>2. c \in Seq(Byte)
      BY <1>1, <2>1 DEF covered
    <2> QED
      BY <2>2, CrcIsWord
  <1>5. hi(Crc(c)) \in Byte /\ lo(Crc(c)) \in Byte
    BY <1>4, BytesOfWord
  <1>6. /\ h \in Seq(Byte) /\ Len(h) = 5 /\ h[1] = VERSION /\ h[2] = f.channel /\ h[3] = f.seq
        /\ h[4] = hi(n) /\ h[5] = lo(n)
    BY <1>1, <1>3
  <1>7. c = h \o f.payload
    BY DEF covered
  <1>8. e \in Seq(Byte) /\ Len(e) = 2 /\ e[1] = hi(Crc(c)) /\ e[2] = lo(Crc(c))
    BY <1>5
  <1>9. Built(f) = s \o e
    BY DEF Built
  <1> HIDE DEF n, h, c, e, s
  <1>10. /\ c \in Seq(Byte) /\ Len(c) = 5 + n
         /\ \A i \in 1 .. 5 : c[i] = h[i]
         /\ \A i \in 1 .. n : c[i + 5] = f.payload[i]
    <2>1. /\ c \in Seq(Byte) /\ Len(c) = Len(h) + n
          /\ \A i \in 1 .. Len(h) + n : c[i] = IF i <= Len(h) THEN h[i] ELSE f.payload[i - Len(h)]
      BY <1>1, <1>6, <1>7, ConcatProperties DEF n
    <2>2. Len(h) + n = 5 + n /\ n \in Nat
      BY <1>1, <1>6
    <2>3. \A i \in 1 .. 5 : c[i] = h[i]
      BY <1>6, <2>1, <2>2
    <2>4. \A i \in 1 .. n : c[i + 5] = f.payload[i]
      <3>1. \A i \in 1 .. n : i + 5 \in 1 .. Len(h) + n /\ ~(i + 5 <= Len(h)) /\ (i + 5) - Len(h) = i
        BY <1>6, <2>2
      <3> QED
        BY <2>1, <3>1
    <2> QED
      BY <2>1, <2>2, <2>3, <2>4
  <1>11. /\ s \in Seq(Byte) /\ Len(s) = 1 + Len(c) /\ s[1] = SYNC
         /\ \A i \in 1 .. Len(c) : s[i + 1] = c[i]
    BY <1>1, <1>10 DEF s
  <1>12. /\ s \o e \in Seq(Byte) /\ Len(s \o e) = Len(s) + 2
         /\ \A i \in 1 .. Len(s) : (s \o e)[i] = s[i]
         /\ (s \o e)[Len(s) + 1] = e[1] /\ (s \o e)[Len(s) + 2] = e[2]
    <2>1. /\ s \o e \in Seq(Byte) /\ Len(s \o e) = Len(s) + Len(e)
          /\ \A i \in 1 .. Len(s) + Len(e) : (s \o e)[i] = IF i <= Len(s) THEN s[i] ELSE e[i - Len(s)]
      <3>1. s \in Seq(Byte) /\ e \in Seq(Byte)
        BY <1>8, <1>11
      <3> QED
        BY <3>1, ConcatProperties
    <2>2. Len(e) = 2 /\ Len(s) \in Nat
      BY <1>8, <1>11
    <2> QED
      BY <2>1, <2>2
  <1>13. Len(s) = n + 6
    BY <1>1, <1>10, <1>11
  <1>14. /\ Len(s \o e) = n + 8 /\ (s \o e)[1] = SYNC
         /\ (s \o e)[n + 7] = hi(Crc(c)) /\ (s \o e)[n + 8] = lo(Crc(c))
    BY <1>1, <1>8, <1>11, <1>12, <1>13
  <1>15. \A i \in 1 .. n + 5 : (s \o e)[i + 1] = c[i]
    <2>1. Len(c) = n + 5 /\ \A i \in 1 .. n + 5 : i + 1 \in 1 .. Len(s)
      BY <1>1, <1>10, <1>13
    <2> QED
      BY <1>11, <1>12, <2>1
  <1>16. Len(c) = n + 5
    BY <1>1, <1>10
  <1>17. c[1] = VERSION /\ c[2] = f.channel /\ c[3] = f.seq /\ c[4] = hi(n) /\ c[5] = lo(n)
    BY <1>6, <1>10
  <1> QED
    BY <1>1, <1>2, <1>4, <1>9, <1>10, <1>12, <1>14, <1>15, <1>16, <1>17 DEF n, c

\* A byte moves from the front of the wire to the end of the buffer.
LEMMA MoveByte ==
    ASSUME NEW s \in Seq(Byte), NEW f \in Seq(Byte), s # << >>
    PROVE  /\ Head(s) \in Byte /\ Tail(s) \in Seq(Byte)
           /\ Append(f, Head(s)) \o Tail(s) = f \o s
           /\ (f \o s)[Len(f) + 1] = Head(s)
           /\ \A i \in 1 .. Len(f) : (f \o s)[i] = f[i]
           /\ Len(f \o s) = Len(f) + Len(s)
           /\ Len(Tail(s)) = Len(s) - 1 /\ Len(s) \in Nat \ {0}
           /\ Tail(s) = << >> <=> Len(s) = 1
  <1>1. Head(s) \in Byte /\ Tail(s) \in Seq(Byte) /\ Len(Tail(s)) = Len(s) - 1
        /\ Len(s) \in Nat \ {0} /\ Head(s) = s[1]
    OBVIOUS
  <1>2. Len(f \o s) = Len(f) + Len(s) /\ (f \o s)[Len(f) + 1] = Head(s)
        /\ \A i \in 1 .. Len(f) : (f \o s)[i] = f[i]
    BY <1>1
  <1>3. Append(f, Head(s)) \o Tail(s) = f \o s
    <2> DEFINE l == Append(f, Head(s)) \o Tail(s)
               r == f \o s
    <2>1. l \in Seq(Byte) /\ r \in Seq(Byte) /\ Len(l) = Len(r)
      BY <1>1
    <2>2. ASSUME NEW i \in 1 .. Len(r) PROVE l[i] = r[i]
      <3>1. CASE i <= Len(f)
        BY <1>1, <3>1
      <3>2. CASE i = Len(f) + 1
        BY <1>1, <3>2
      <3>3. CASE i > Len(f) + 1
        BY <1>1, <3>3
      <3> QED
        BY <3>1, <3>2, <3>3
    <2> QED
      BY <2>1, <2>2
  <1>4. Tail(s) = << >> <=> Len(Tail(s)) = 0
    BY <1>1, EmptySeq
  <1> QED
    BY <1>1, <1>2, <1>3, <1>4

\* The parser's buffer, as far as its length goes.
LEMMA BufferShape ==
    ASSUME IInv, state # "SYNC"
    PROVE  /\ Buffer \in Seq(Byte)
           /\ \A i \in 1 .. Len(Taken) : Buffer[i + 1] = Taken[i]
           /\ state # "CRC_LO" => Buffer = <<SYNC>> \o Taken /\ Len(Buffer) = Len(Taken) + 1
           /\ state = "CRC_LO" => /\ Len(Buffer) = Len(Taken) + 2
                                  /\ Buffer[Len(Taken) + 2] = hi(crc_rx)
  <1> DEFINE s == <<SYNC>> \o Taken
  <1>1. SYNC \in Byte /\ Taken \in Seq(Byte) /\ crc_rx \in Word
    BY WireAssumption, TakenShape DEF IInv, TypeOK
  <1>2. /\ s \in Seq(Byte) /\ Len(s) = Len(Taken) + 1
        /\ \A i \in 1 .. Len(Taken) : s[i + 1] = Taken[i]
    BY <1>1
  <1>3. hi(crc_rx) \in Byte
    BY <1>1, BytesOfWord
  <1> HIDE DEF s
  <1>4. /\ Append(s, hi(crc_rx)) \in Seq(Byte) /\ Len(Append(s, hi(crc_rx))) = Len(s) + 1
        /\ \A i \in 1 .. Len(s) : Append(s, hi(crc_rx))[i] = s[i]
        /\ Append(s, hi(crc_rx))[Len(s) + 1] = hi(crc_rx)
    BY <1>2, <1>3, AppendProperties
  <1>5. CASE state = "CRC_LO"
    <2>1. Buffer = Append(s, hi(crc_rx))
      BY <1>5 DEF Buffer, s
    <2>2. Len(Taken) \in Nat /\ \A i \in 1 .. Len(Taken) : i + 1 \in 1 .. Len(s)
      BY <1>1, <1>2
    <2>3. \A i \in 1 .. Len(Taken) : Buffer[i + 1] = Taken[i]
      BY <1>2, <1>4, <2>1, <2>2
    <2>4. Len(s) + 1 = Len(Taken) + 2
      BY <1>2, <2>2
    <2> QED
      BY <1>4, <1>5, <2>1, <2>3, <2>4
  <1>6. CASE state # "CRC_LO"
    BY <1>2, <1>6 DEF Buffer, s
  <1> QED
    BY <1>5, <1>6

\* A byte that is taken goes to the end of the buffer.
LEMMA BufferStep ==
    ASSUME IInv, state # "SYNC", state # "CRC_LO", NEW b \in Byte, Feed(b), state' # "SYNC",
           \/ state' # "CRC_LO" /\ Taken' = Append(Taken, b)
           \/ state' = "CRC_LO" /\ Taken' = Taken /\ crc_rx' = b * Radix
    PROVE  Buffer' = Append(Buffer, b)
  <1>1. SYNC \in Byte /\ Taken \in Seq(Byte) /\ <<SYNC>> \in Seq(Byte)
    BY WireAssumption, TakenShape
  <1>2. Buffer = <<SYNC>> \o Taken
    BY DEF Buffer
  <1>3. CASE state' # "CRC_LO" /\ Taken' = Append(Taken, b)
    <2>1. Buffer' = <<SYNC>> \o Append(Taken, b)
      BY <1>3 DEF Buffer
    <2> QED
      BY <1>1, <1>2, <2>1, AppendConcat
  <1>4. CASE state' = "CRC_LO" /\ Taken' = Taken /\ crc_rx' = b * Radix
    <2>1. hi(crc_rx') = b
      BY <1>4, WordOfBytes
    <2> QED
      BY <1>2, <1>4, <2>1 DEF Buffer
  <1> QED
    BY <1>3, <1>4

\* A byte of an undisturbed frame: it stays undisturbed, and with the last byte
\* it is delivered.
LEMMA ArrivesHalves ==
    ASSUME IInv, CrcInv, Halves, Arrives, aligned
    PROVE  Halves'
  <1> DEFINE b == Head(wire)
             F == Built(sent)
             n == Len(sent.payload)
             c == covered(sent)
  <1>1. /\ sent \in Frames /\ n <= MaxPayload /\ wire # << >> /\ wire \in Seq(Byte)
        /\ Feed(b) /\ wire' = Tail(wire) /\ sent' = sent /\ aligned' = aligned
    BY DEF Halves, Arrives, IInv, TypeOK
  <1>2. /\ c \in Seq(Byte) /\ F \in Seq(Byte) /\ n \in Word /\ n \in Nat
        /\ Len(c) = n + 5 /\ Len(F) = n + 8 /\ F[1] = SYNC
        /\ \A i \in 1 .. n + 5 : F[i + 1] = c[i]
        /\ F[n + 7] = hi(Crc(c)) /\ F[n + 8] = lo(Crc(c)) /\ Crc(c) \in Word
    BY <1>1, FrameShape
  <1>3. /\ c[1] = VERSION /\ c[2] = sent.channel /\ c[3] = sent.seq
        /\ c[4] = hi(n) /\ c[5] = lo(n)
        /\ \A i \in 1 .. n : c[i + 5] = sent.payload[i]
        /\ sent = [channel |-> sent.channel, seq |-> sent.seq, payload |-> sent.payload]
        /\ sent.payload \in Seq(Byte)
    BY <1>1, FrameShape
  <1>4. /\ b \in Byte /\ Tail(wire) \in Seq(Byte) /\ Len(wire) \in Nat \ {0}
        /\ Tail(wire) = << >> <=> Len(wire) = 1
        /\ b = wire[1]
    BY <1>1, MoveByte
  <1>5. ASSUME state' # "SYNC", Tail(wire) # << >>, Buffer' \o Tail(wire) = F
        PROVE  Halves'
    BY <1>1, <1>5 DEF Halves
  <1>6. CASE state \in {"SYNC", "VER"} /\ wire = F
    <2>1. b = SYNC /\ Tail(wire) # << >>
      BY <1>2, <1>4, <1>6
    <2>2. state' = "VER"
      BY <1>1, <1>4, <1>6, <2>1, StepSync, StepVer
    <2>3. Buffer' = <<SYNC>>
      <3>1. Taken' = << >> /\ Buffer' = <<SYNC>> \o Taken'
        BY <2>2 DEF Taken, Buffer
      <3>2. <<SYNC>> \in Seq(Byte)
        BY WireAssumption
      <3> QED
        BY <3>1, <3>2, ConcatEmptySeq
    <2>4. <<SYNC>> \o Tail(wire) = wire
      <3>1. Append(<< >>, Head(wire)) \o Tail(wire) = << >> \o wire /\ << >> \o wire = wire
        BY <1>1, Small, MoveByte, ConcatEmptySeq
      <3>2. Append(<< >>, SYNC) = <<SYNC>>
        BY WireAssumption
      <3> QED
        BY <2>1, <3>1, <3>2
    <2> QED
      BY <1>5, <1>6, <2>1, <2>2, <2>3, <2>4
  <1>7. CASE state # "SYNC" /\ Buffer \o wire = F
    <2>0. Head(wire) = b
      OBVIOUS
    <2> HIDE DEF b, F, n, c
    <2>1. /\ Buffer \in Seq(Byte) /\ \A i \in 1 .. Len(Taken) : Buffer[i + 1] = Taken[i]
          /\ state # "CRC_LO" => Len(Buffer) = Len(Taken) + 1
          /\ state = "CRC_LO" => /\ Len(Buffer) = Len(Taken) + 2
                                 /\ Buffer[Len(Taken) + 2] = hi(crc_rx)
          /\ Taken \in Seq(Byte) /\ Len(Taken) \in Nat
      <3>1. Taken \in Seq(Byte)
        BY TakenShape
      <3>2. Len(Taken) \in Nat
        BY <3>1, LenProperties
      <3> QED
        BY <1>7, <3>1, <3>2, BufferShape
    <2>2. /\ Append(Buffer, b) \o Tail(wire) = F
          /\ F[Len(Buffer) + 1] = b
          /\ \A i \in 1 .. Len(Buffer) : F[i] = Buffer[i]
          /\ n + 8 = Len(Buffer) + Len(wire)
      <3>1. /\ Append(Buffer, Head(wire)) \o Tail(wire) = Buffer \o wire
            /\ (Buffer \o wire)[Len(Buffer) + 1] = Head(wire)
            /\ \A i \in 1 .. Len(Buffer) : (Buffer \o wire)[i] = Buffer[i]
            /\ Len(Buffer \o wire) = Len(Buffer) + Len(wire)
        BY <1>1, <2>1, MoveByte
      <3> QED
        BY <1>2, <1>7, <2>0, <3>1
    <2>3. \A i \in 1 .. Len(Taken) : i <= n + 5 => Taken[i] = c[i]
      <3>1. \A i \in 1 .. Len(Taken) : i + 1 \in 1 .. Len(Buffer) /\ F[i + 1] = Buffer[i + 1]
        <4>1. Len(Buffer) \in Nat /\ Len(Buffer) >= Len(Taken) + 1
          BY <2>1
        <4>2. \A i \in 1 .. Len(Taken) : i + 1 \in 1 .. Len(Buffer)
          BY <2>1, <4>1
        <4> QED
          BY <2>2, <4>2
      <3> QED
        BY <1>2, <2>1, <3>1
    <2>4. ASSUME state' # "SYNC", state # "CRC_LO", Len(Taken) < n + 6,
                 \/ state' # "CRC_LO" /\ Taken' = Append(Taken, b)
                 \/ state' = "CRC_LO" /\ Taken' = Taken /\ crc_rx' = b * Radix
          PROVE  Halves'
      <3>1. Buffer' = Append(Buffer, b)
        BY <1>1, <1>4, <1>7, <2>4, BufferStep
      <3>2. Tail(wire) # << >>
        <4>1. Len(Buffer) = Len(Taken) + 1
          BY <2>1, <2>4
        <4>2. Len(wire) # 1
          <5> DEFINE lb == Len(Buffer)
                     lt == Len(Taken)
                     lw == Len(wire)
          <5>1. lt < n + 6 /\ lb = lt + 1 /\ n + 8 = lb + lw /\ lt \in Nat /\ n \in Nat /\ lw \in Nat
            BY <1>2, <1>4, <2>1, <2>2, <2>4, <4>1
          <5> HIDE DEF lb, lt, lw
          <5>2. lw # 1
            BY <5>1
          <5> QED
            BY <5>2 DEF lw
        <4> QED
          BY <1>4, <4>2
      <3> QED
        BY <1>5, <2>2, <2>4, <3>1, <3>2
    <2>5. CASE state = "VER"
      <3>1. Taken = << >> /\ Len(Taken) = 0
        BY <2>5 DEF Taken
      <3>2. b = VERSION
        <4>1. Len(Buffer) = 1
          BY <2>1, <2>5, <3>1
        <4>2. F[1 + 1] = c[1]
          BY <1>2
        <4> QED
          BY <1>3, <2>2, <4>1, <4>2
      <3>3. state' = "CHANNEL"
        BY <1>1, <1>4, <2>5, <3>2, StepVer
      <3>4. Taken' = Append(Taken, b)
        BY <3>1, <3>2, <3>3 DEF Taken
      <3> QED
        BY <1>2, <2>4, <2>5, <3>1, <3>3, <3>4
    <2>6. CASE state \in {"CHANNEL", "SEQ", "LEN_HI"}
      <3>1. Covers(b) /\ state' \in {"SEQ", "LEN_HI", "LEN_LO"}
        BY <1>1, <1>4, <2>6, StepHead
      <3>2. Len(Taken) < n + 6
        <4>1. Len(Taken) = 1 \/ Len(Taken) = 2 \/ Len(Taken) = 3
          BY <2>6, TakenShape
        <4>2. \A k : k = 1 \/ k = 2 \/ k = 3 => k < n + 6
          BY <1>2
        <4> QED
          BY <4>1, <4>2
      <3> QED
        BY <1>2, <2>1, <2>4, <2>6, <3>1, <3>2 DEF Covers
    <2>7. CASE state = "LEN_LO"
      <3>1. Len(Taken) = 4 /\ Taken[4] = hi(len)
        BY <2>7, TakenShape
      <3>2. hi(len) = hi(n) /\ b = lo(n)
        <4>1. Taken[4] = c[4]
          BY <1>2, <2>3, <3>1
        <4>2. F[6] = b /\ F[6] = c[5]
          <5>1. Len(Buffer) + 1 = 6
            <6> DEFINE lt == Len(Taken)
            <6>1. Len(Buffer) = lt + 1 /\ lt = 4
              BY <2>1, <2>7, <3>1, Zenon
            <6> HIDE DEF lt
            <6>2. (lt + 1) + 1 = 6
              BY <6>1
            <6> QED
              BY <6>1, <6>2
          <5>2. F[6] = b
            BY <2>2, <5>1, Zenon
          <5>3. F[5 + 1] = c[5]
            BY <1>2
          <5> QED
            BY <5>2, <5>3
        <4> QED
          BY <1>3, <3>1, <4>1, <4>2
      <3>3. PICK a \in Byte : len = a * Radix
        BY <2>7 DEF IInv, Shape
      <3>4. len + b = n
        <4>1. hi(len) = a /\ hi(n) * Radix + lo(n) = n
          BY <1>2, <3>3, WordOfBytes, BytesOfWord
        <4> QED
          BY <3>2, <3>3, <4>1
      <3>5. state' # "SYNC"
        BY <1>1, <1>4, <2>7, <3>4, StepLenLo DEF n
      <3>6. Covers(b) /\ state' \in {"PAYLOAD", "CRC_HI"}
        BY <1>1, <1>4, <2>7, <3>5, StepLenLo
      <3> QED
        BY <1>2, <2>4, <2>7, <3>1, <3>6 DEF Covers
    <2>8. CASE state \in {"PAYLOAD", "CRC_HI", "CRC_LO"}
      <3>1. /\ Len(Taken) = 5 + Len(payload)
            /\ Taken[2] = head.channel /\ Taken[3] = head.seq
            /\ Taken[4] = hi(len) /\ Taken[5] = lo(len)
            /\ \A i \in 1 .. Len(payload) : Taken[i + 5] = payload[i]
        BY <2>8, TakenShape
      <3>2. payload \in Seq(Byte) /\ Len(payload) \in Nat /\ len \in Word /\ len \in Nat
        BY Small DEF IInv, TypeOK
      <3>3. len = n
        <4>1. hi(len) = hi(n) /\ lo(len) = lo(n)
          <5>1. Taken[4] = c[4] /\ Taken[5] = c[5]
            BY <1>2, <2>3, <3>1, <3>2
          <5> QED
            BY <1>3, <3>1, <5>1
        <4>2. hi(n) * Radix + lo(n) = n /\ hi(len) * Radix + lo(len) = len
          BY <1>2, <3>2, BytesOfWord
        <4> QED
          BY <4>1, <4>2
      <3>4. CASE state = "PAYLOAD"
        <4>1. Covers(b) /\ state' \in {"PAYLOAD", "CRC_HI"}
          BY <1>1, <1>4, <3>4, StepPayload
        <4>2. Len(Taken) < n + 6
          BY <1>2, <3>1, <3>2, <3>3, <3>4 DEF IInv, Shape
        <4> QED
          BY <2>4, <3>4, <4>1, <4>2 DEF Covers
      <3>5. CASE state = "CRC_HI"
        <4>1. state' = "CRC_LO" /\ Taken' = Taken /\ crc_rx' = b * Radix
          BY <1>1, <1>4, <3>5, StepCrcHi
        <4>2. Len(Taken) < n + 6
          BY <1>2, <3>1, <3>2, <3>3, <3>5 DEF IInv, Shape
        <4> QED
          BY <2>4, <3>5, <4>1, <4>2
      <3>6. CASE state = "CRC_LO"
        <4>1. Len(payload) = n /\ Len(Taken) = n + 5 /\ Len(Buffer) = n + 7
          <5>1. Len(payload) = len
            BY <3>6 DEF IInv, Shape
          <5> QED
            BY <1>2, <2>1, <3>1, <3>3, <3>6, <5>1
        <4>2. Taken = c
          <5>1. \A i \in 1 .. Len(Taken) : Taken[i] = c[i]
            BY <1>2, <2>3, <4>1
          <5> QED
            BY <1>2, <2>1, <4>1, <5>1, SeqEqual
        <4>3. payload = sent.payload /\ head.channel = sent.channel /\ head.seq = sent.seq
          <5>1. \A i \in 1 .. Len(payload) : payload[i] = sent.payload[i]
            BY <1>3, <3>1, <4>1, <4>2
          <5>2. Len(payload) = Len(sent.payload)
            BY <4>1 DEF n
          <5> QED
            BY <1>3, <3>1, <3>2, <4>2, <5>1, <5>2, SeqEqual
        <4>4. crc_rx + b = crc_calc
          <5>1. crc_calc = Crc(c)
            BY <3>6, <4>2 DEF CrcInv
          <5>2. hi(crc_rx) = hi(Crc(c)) /\ b = lo(Crc(c))
            <6>1. F[n + 7] = Buffer[n + 7] /\ F[n + 8] = b
              BY <1>2, <2>2, <4>1
            <6>2. Buffer[n + 7] = hi(crc_rx)
              BY <1>2, <2>1, <3>6, <4>1
            <6> QED
              BY <1>2, <6>1, <6>2
          <5>3. PICK a \in Byte : crc_rx = a * Radix
            BY <3>6 DEF IInv, Shape
          <5>4. hi(crc_rx) = a /\ hi(Crc(c)) * Radix + lo(Crc(c)) = Crc(c)
            BY <1>2, <5>3, WordOfBytes, BytesOfWord
          <5> QED
            BY <5>1, <5>2, <5>3, <5>4
        <4>5. event' = "frame" /\ delivered' = sent
          <5>1. /\ event' = "frame"
                /\ delivered' = [channel |-> head.channel, seq |-> head.seq, payload |-> payload]
            BY <1>1, <1>4, <3>6, <4>4, StepCrcLo
          <5> QED
            BY <1>3, <4>3, <5>1
        <4>6. Tail(wire) = << >>
          BY <1>2, <1>4, <2>2, <4>1
        <4> QED
          BY <1>1, <4>5, <4>6 DEF Halves, Delivered, n
      <3> QED
        BY <2>8, <3>4, <3>5, <3>6
    <2> QED
      BY <1>7, <2>5, <2>6, <2>7, <2>8 DEF IInv, TypeOK, State
  <1> QED
    BY <1>1, <1>6, <1>7 DEF Halves

\* What an undisturbed frame is made of, and the CRC of what is half received.
LEMMA HalvesInvariant == Spec => [](CrcInv /\ Halves)
  <1>1. Init => CrcInv /\ Halves
    BY DEF Init, al1_parser_init, CrcInv, Halves
  <1>2. IInv /\ CrcInv /\ Halves /\ [Next]_vars => (CrcInv /\ Halves)'
    <2> SUFFICES ASSUME IInv, CrcInv, Halves, [Next]_vars PROVE (CrcInv /\ Halves)'
      OBVIOUS
    <2>1. ASSUME NEW f \in Frames, Send(f) PROVE (CrcInv /\ Halves)'
      <3>1. UNCHANGED <<state, head, len, payload, crc_calc, crc_rx>> /\ sent' = f
            /\ wire' = al1_frame_build(f, Overhead + Len(f.payload))
        BY <2>1 DEF Send, parser, fields
      <3>2. CrcInv'
        BY <3>1 DEF CrcInv, Taken
      <3>3. aligned' => state \in {"SYNC", "VER"} /\ (wire' # << >> \/ Len(f.payload) <= MaxPayload)
        BY <2>1, Zenon DEF Send
      <3>4. Len(f.payload) \in Nat /\ MaxPayload \in Nat
        BY FramesAssumption, Small
      <3>5. aligned' => wire' # << >> /\ Len(f.payload) <= MaxPayload /\ wire' = Built(f)
        BY <3>1, <3>3, <3>4, Builds
      <3> QED
        BY <3>1, <3>2, <3>3, <3>5 DEF Halves
    <2>2. CASE Arrives
      <3>1. Head(wire) \in Byte
        BY <2>2 DEF Arrives, IInv, TypeOK
      <3>2. CrcInv'
        BY <2>2, <3>1, CrcStep DEF Arrives
      <3>3. Halves'
        BY <2>2, ArrivesHalves DEF Arrives, Halves
      <3> QED
        BY <3>2, <3>3
    <2>3. ASSUME NEW b \in Byte, Disturbed(b) PROVE (CrcInv /\ Halves)'
      BY <2>3, CrcStep DEF Disturbed, Halves
    <2>4. CASE Lost
      <3>1. UNCHANGED <<state, head, len, payload, crc_calc, crc_rx>> /\ aligned' = FALSE
        BY <2>4 DEF Lost, parser, fields
      <3> QED
        BY <3>1 DEF CrcInv, Taken, Halves
    <2>5. CASE UNCHANGED vars
      <3>1. UNCHANGED <<state, head, len, payload, crc_calc, crc_rx, event, delivered, wire, sent, aligned>>
        BY <2>5 DEF vars, parser, fields, output
      <3>2. CrcInv' /\ Buffer' = Buffer
        BY <3>1 DEF CrcInv, Buffer, Taken
      <3> QED
        BY <3>1, <3>2 DEF Halves, Delivered
    <2> QED
      BY <2>1, <2>2, <2>3, <2>4, <2>5 DEF Next
  <1> QED
    BY <1>1, <1>2, FrameInvariant, PTL DEF Spec

\* What is delivered is as long as its LEN said and came with the CRC of all
\* that it is made of, whatever bytes arrived before.
THEOREM AlwaysConsistentCrc == Spec => []ConsistentCrc
  <1>1. Spec => [](CrcInv /\ Halves)
    BY HalvesInvariant
  <1>2. IInv /\ CrcInv => ConsistentCrc
    BY CrcMeansConsistent
  <1> QED
    BY <1>1, <1>2, FrameInvariant, PTL

\* An undisturbed frame that begins while the parser hunts is delivered as it
\* was built, whatever bytes it is made of and whatever came before it.
THEOREM AlwaysDelivered == Spec => []Delivered
  <1>1. Spec => [](CrcInv /\ Halves)
    BY HalvesInvariant
  <1>2. Halves => Delivered
    BY DEF Halves, Delivered
  <1> QED
    BY <1>1, <1>2, PTL
===============================================================================
