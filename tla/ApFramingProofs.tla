--------------------------- MODULE ApFramingProofs ---------------------------
(***************************************************************************)
(* Proofs about ApFraming, for every alphabet, SYNC byte, largest LEN and  *)
(* CRC.  One inductive invariant carries all of its properties: the two    *)
(* machines go in step (Lockstep), the frame under way stands half in the  *)
(* reassembler's buffer and half in the stream (Halves), and the bytes     *)
(* since the last SYNC byte are all of this frame (QuietBound).            *)
(***************************************************************************)
EXTENDS ApFraming, SequenceTheorems, TLAPS

Lockstep ==
    \/ /\ r_state = "SYNC" /\ r_need = 0 /\ r_frame = << >>
       /\ p_state = "SYNC" /\ p_data = << >>
    \/ /\ r_state = "LEN" /\ r_need = 0 /\ r_frame = <<SYNC>>
       /\ p_state = "LEN" /\ p_data = << >>
    \/ /\ r_state = "DATA" /\ p_len \in 1 .. MaxLen
       /\ r_frame = <<SYNC, p_len>> \o p_data
       /\ Len(p_data) <= p_len /\ r_need = p_len + 1 - Len(p_data)
       /\ p_state = IF Len(p_data) < p_len THEN "DATA" ELSE "CRC"

Halves ==
    aligned => /\ packet # << >> /\ Len(packet) <= MaxLen
               /\ stream # << >> => r_frame \o stream = Frame(packet)
               /\ stream = << >> => Delivered

QuietBound ==
    /\ r_state = "LEN" => quiet = 0
    /\ r_state = "DATA" => quiet + r_need <= p_len + 2

IInv == TypeOK /\ Lockstep /\ ForwardsWhatParses /\ Halves /\ QuietBound

-----------------------------------------------------------------------------

\* What a frame consists of.
LEMMA FrameShape ==
    ASSUME NEW d \in Packets, Len(d) <= MaxLen
    PROVE  /\ d \in Seq(Byte) /\ Len(d) \in 1 .. MaxLen
           /\ Frame(d) \in Seq(Byte)
           /\ Len(Frame(d)) = Len(d) + 3
           /\ Frame(d)[1] = SYNC
           /\ Frame(d)[2] = Len(d)
           /\ \A i \in 1 .. Len(d) : Frame(d)[i + 2] = d[i]
           /\ Frame(d)[Len(d) + 3] = Crc(<<Len(d)>> \o d)
           /\ d # << >>
  BY PacketAssumption, ByteAssumption DEF Frame

\* The builder builds the frame of a packet that fits and nothing of any other:
\* what it builds has a LEN that did not wrap and a CRC over all of it.
LEMMA Builds ==
    ASSUME NEW d \in Packets, NEW size \in BufSizes
    PROVE  IF Fits(d, size)
           THEN ap_build_packet(d, size) = Frame(d) /\ Len(d) <= MaxLen
           ELSE ap_build_packet(d, size) = << >>
  <1>1. /\ d \in Seq(Byte) /\ Len(d) \in Nat /\ size \in Nat /\ MaxLen \in Nat
        /\ Uint8 \in Nat /\ MaxLen < Uint8
    <2>1. d \in Seq(Byte) /\ Len(d) >= 1 /\ BufSizes \subseteq Nat
          /\ Uint8 \in Nat /\ MaxLen < Uint8
      BY PacketAssumption
    <2>2. MaxLen \in Nat
      BY ByteAssumption
    <2> QED
      BY <2>1, <2>2, LenProperties
  <1>2. CASE Len(d) <= MaxLen
    <2>1. len_field(d) = Len(d)
      BY <1>1, <1>2 DEF len_field
    <2>2. SubSeq(<<Len(d)>> \o d, 1, Len(d) + 1) = <<Len(d)>> \o d
      <3> DEFINE s == <<Len(d)>> \o d
      <3>1. Len(d) \in Byte
        <4>1. Len(d) >= 1
          BY PacketAssumption
        <4>2. Len(d) \in 1 .. MaxLen
          BY <1>1, <1>2, <4>1
        <4> QED
          BY <4>2, ByteAssumption
      <3>2. s \in Seq(Byte) /\ Len(s) = Len(d) + 1
        BY <1>1, <3>1
      <3> HIDE DEF s
      <3>3. SubSeq(s, 1, Len(s)) = s
        BY <3>2
      <3> QED
        BY <3>2, <3>3 DEF s
    <2>3. built(d) = Frame(d)
      BY <2>1, <2>2 DEF built, crc_of_buf, Frame
    <2>4. Len(Frame(d)) = Len(d) + 3
      BY <1>2, FrameShape
    <2> QED
      BY <1>1, <1>2, <2>3, <2>4 DEF Fits, ap_build_packet
  <1>3. CASE ~(Len(d) <= MaxLen)
    BY <1>1, <1>3 DEF Fits, ap_build_packet
  <1> QED
    BY <1>2, <1>3

\* A byte of the stream moves from the front of it to the end of the buffer.
LEMMA MoveByte ==
    ASSUME NEW s \in Seq(Byte), NEW f \in Seq(Byte), s # << >>
    PROVE  /\ Head(s) \in Byte /\ Tail(s) \in Seq(Byte)
           /\ Append(f, Head(s)) \o Tail(s) = f \o s
           /\ (f \o s)[Len(f) + 1] = Head(s)
           /\ Tail(s) = << >> => Append(f, Head(s)) = f \o s
           /\ Len(f \o s) = Len(f) + Len(s)
           /\ Len(Tail(s)) = Len(s) - 1 /\ Len(s) \in Nat \ {0}
  <1>1. Head(s) \in Byte /\ Tail(s) \in Seq(Byte) /\ Len(Tail(s)) = Len(s) - 1
        /\ Len(s) \in Nat \ {0} /\ Head(s) = s[1]
    OBVIOUS
  <1>2. Len(f \o s) = Len(f) + Len(s) /\ (f \o s)[Len(f) + 1] = Head(s)
    BY <1>1
  <1>3. Append(f, Head(s)) \o Tail(s) = f \o s
    <2> DEFINE l == Append(f, Head(s)) \o Tail(s)
               r == f \o s
    <2>1. l \in Seq(Byte) /\ r \in Seq(Byte) /\ Len(l) = Len(r)
      BY <1>1
    <2>2. ASSUME NEW i \in 1 .. Len(r) PROVE l[i] = r[i]
      <3>1. CASE i <= Len(f)
        BY <1>1, <3>1
      <3>2. CASE i = Len(f) + 1
        BY <1>1, <3>2
      <3>3. CASE i > Len(f) + 1
        BY <1>1, <3>3
      <3> QED
        BY <3>1, <3>2, <3>3
    <2> QED
      BY <2>1, <2>2
  <1>4. Tail(s) = << >> => Append(f, Head(s)) = f \o s
    <2>1. Append(f, Head(s)) \in Seq(Byte)
      BY <1>1
    <2>2. Append(f, Head(s)) \o << >> = Append(f, Head(s))
      BY <2>1, ConcatEmptySeq
    <2> QED
      BY <1>3, <2>2
  <1> QED
    BY <1>1, <1>2, <1>3, <1>4

\* One byte more, at the end of a sequence.
LEMMA OneMoreByte ==
    ASSUME NEW f \in Seq(Byte), NEW b \in Byte
    PROVE  /\ Append(f, b) = f \o <<b>>
           /\ Append(f, b) # << >>
  <1>1. /\ Append(f, b) \in Seq(Byte) /\ f \o <<b>> \in Seq(Byte)
        /\ Len(Append(f, b)) = Len(f \o <<b>>) /\ Len(Append(f, b)) = Len(f) + 1
    OBVIOUS
  <1>2. \A i \in 1 .. Len(Append(f, b)) : Append(f, b)[i] = (f \o <<b>>)[i]
    OBVIOUS
  <1> QED
    BY <1>1, <1>2, SeqEqual

\* The first two bytes of a frame.
LEMMA TwoBytes ==
    ASSUME NEW s \in Byte, NEW b \in Byte
    PROVE  <<s, b>> \in Seq(Byte) /\ Append(<<s>>, b) = <<s, b>>
  <1>1. <<s, b>> \in Seq(Byte) /\ Len(<<s, b>>) = 2
    OBVIOUS
  <1>2. Append(<<s>>, b) \in Seq(Byte) /\ Len(Append(<<s>>, b)) = 2
    OBVIOUS
  <1>3. \A i \in 1 .. 2 : Append(<<s>>, b)[i] = <<s, b>>[i]
    OBVIOUS
  <1> QED
    BY <1>1, <1>2, <1>3, SeqEqual

\* The type of what a byte changes.
MachineType ==
    /\ r_state \in {"SYNC", "LEN", "DATA"}
    /\ r_need \in 0 .. (MaxLen + 1)
    /\ r_frame \in Seq(Byte) /\ forwarded \in Seq(Byte)
    /\ p_state \in {"SYNC", "LEN", "DATA", "CRC"}
    /\ p_len \in 0 .. MaxLen
    /\ p_data \in Seq(Byte) /\ pkt \in Seq(Byte)
    /\ result \in Result
    /\ quiet \in 0 .. (MaxLen + 2)

\* A byte in SYNC: both machines wait for the same byte.
LEMMA FeedSync ==
    ASSUME IInv, NEW b \in Byte, Feed(b), r_state = "SYNC"
    PROVE  /\ (MachineType /\ Lockstep /\ ForwardsWhatParses /\ QuietBound)'
           /\ b = SYNC => r_state' = "LEN" /\ r_frame' = Append(r_frame, b)
  <1>1. ReasmSync(b) /\ ParseSync(b)
    BY DEF Feed, ap_reasm_feed, ap_parse_byte, ReasmLen, ReasmData, ParseLen,
           ParseData, ParseCrc, IInv, Lockstep
  <1>2. /\ r_frame = << >> /\ p_data = << >> /\ r_need = 0 /\ p_state = "SYNC"
        /\ p_data' = << >> /\ r_need' = 0 /\ p_len' = p_len /\ pkt' = pkt
        /\ forwarded' = << >> /\ result' = "NEED_MORE"
    BY <1>1 DEF IInv, Lockstep, ReasmSync, ParseSync, Return, reasm, parser
  <1>3. quiet' \in 0 .. (MaxLen + 2) /\ (b = SYNC => quiet' = 0)
    BY ByteAssumption DEF Feed, IInv, TypeOK
  <1>4. CASE b = SYNC
    <2>1. r_state' = "LEN" /\ r_frame' = <<SYNC>> /\ p_state' = "LEN"
          /\ <<SYNC>> \in Seq(Byte) /\ Append(<< >>, SYNC) = <<SYNC>>
      BY <1>1, <1>4, ByteAssumption DEF ReasmSync, ParseSync
    <2>2. MachineType'
      BY <1>2, <1>3, <2>1 DEF MachineType, IInv, TypeOK, Result
    <2>3. (Lockstep /\ ForwardsWhatParses /\ QuietBound)'
      BY <1>2, <1>3, <1>4, <2>1 DEF Lockstep, ForwardsWhatParses, QuietBound
    <2> QED
      BY <1>2, <1>4, <2>1, <2>2, <2>3
  <1>5. CASE b # SYNC
    <2>1. r_state' = "SYNC" /\ r_frame' = << >> /\ p_state' = "SYNC"
      BY <1>1, <1>2, <1>5 DEF ReasmSync, ParseSync, reasm, parser
    <2>2. MachineType'
      BY <1>2, <1>3, <2>1 DEF MachineType, IInv, TypeOK, Result
    <2>3. (Lockstep /\ ForwardsWhatParses /\ QuietBound)'
      BY <1>2, <2>1 DEF Lockstep, ForwardsWhatParses, QuietBound
    <2> QED
      BY <1>5, <2>2, <2>3
  <1> QED
    BY <1>4, <1>5

\* The LEN byte: both machines take the same values for good.
LEMMA FeedLen ==
    ASSUME IInv, NEW b \in Byte, Feed(b), r_state = "LEN"
    PROVE  /\ (MachineType /\ Lockstep /\ ForwardsWhatParses /\ QuietBound)'
           /\ valid_len(b) => r_state' = "DATA" /\ r_frame' = Append(r_frame, b)
  <1>1. ReasmLen(b) /\ ParseLen(b)
    BY DEF Feed, ap_reasm_feed, ap_parse_byte, ReasmSync, ReasmData, ParseSync,
           ParseData, ParseCrc, IInv, Lockstep
  <1>2. /\ r_frame = <<SYNC>> /\ p_data = << >> /\ r_need = 0 /\ p_state = "LEN"
        /\ p_data' = << >> /\ pkt' = pkt /\ forwarded' = << >>
        /\ result' \in {"NEED_MORE", "ERR_LEN", "ERR_OVERFLOW"}
    BY <1>1 DEF IInv, Lockstep, ReasmLen, ParseLen, ParserHunts, Return
  <1>3. /\ quiet' \in 0 .. (MaxLen + 2) /\ quiet' <= 1
        /\ b \in Nat /\ MaxLen \in Nat
    BY ByteAssumption DEF Feed, IInv, TypeOK, QuietBound
  <1>4. CASE valid_len(b)
    <2>1. /\ r_state' = "DATA" /\ r_need' = b + 1 /\ r_frame' = Append(r_frame, b)
          /\ p_state' = "DATA" /\ p_len' = b /\ b \in 1 .. MaxLen
          /\ result' = "NEED_MORE"
      BY <1>1, <1>3, <1>4 DEF ReasmLen, ParseLen, valid_len, bytes_to_come, Return
    <2>2. /\ Append(r_frame, b) \in Seq(Byte)
          /\ r_frame' = <<SYNC, b>> \o p_data' /\ Len(p_data') = 0
      <3>1. SYNC \in Byte
        BY ByteAssumption
      <3>2. <<SYNC, b>> \in Seq(Byte) /\ Append(<<SYNC>>, b) = <<SYNC, b>>
        BY <3>1, TwoBytes
      <3>3. <<SYNC, b>> \o << >> = <<SYNC, b>>
        BY <3>2, ConcatEmptySeq
      <3> QED
        BY <1>2, <2>1, <3>2, <3>3
    <2>3. MachineType'
      BY <1>2, <1>3, <2>1, <2>2 DEF MachineType, IInv, TypeOK, Result
    <2>4. Lockstep'
      <3>1. r_need' = p_len' + 1 - Len(p_data') /\ Len(p_data') < p_len'
        BY <1>3, <2>1, <2>2
      <3> QED
        BY <1>3, <2>1, <2>2, <3>1 DEF Lockstep
    <2>5. ForwardsWhatParses'
      BY <1>2, <2>1 DEF ForwardsWhatParses
    <2>6. QuietBound'
      <3>1. r_need' = b + 1 /\ p_len' = b /\ r_state' # "LEN"
        BY <2>1
      <3>2. \A n \in Nat : n <= 1 => n + (b + 1) <= b + 2
        BY <1>3
      <3>3. quiet' \in Nat /\ quiet' <= 1
        BY <1>3
      <3>4. quiet' + r_need' <= p_len' + 2
        BY <3>1, <3>2, <3>3
      <3> QED
        BY <3>1, <3>4 DEF QuietBound
    <2> QED
      BY <2>1, <2>3, <2>4, <2>5, <2>6
  <1>5. CASE ~valid_len(b)
    <2>1. /\ r_state' = "SYNC" /\ r_need' = 0 /\ r_frame' = << >>
          /\ p_state' = "SYNC" /\ p_len' = 0
          /\ result' \in {"ERR_LEN", "ERR_OVERFLOW"}
      BY <1>1, <1>3, <1>5
      DEF ReasmLen, ReasmHunts, ParseLen, ParserHunts, valid_len, Return
    <2>2. MachineType'
      BY <1>2, <1>3, <2>1 DEF MachineType, IInv, TypeOK, Result
    <2>3. (Lockstep /\ ForwardsWhatParses /\ QuietBound)'
      BY <1>2, <2>1 DEF Lockstep, ForwardsWhatParses, QuietBound
    <2> QED
      BY <1>5, <2>2, <2>3
  <1> QED
    BY <1>4, <1>5

\* The arithmetic of a byte in DATA: n bytes are collected, m expected of the
\* LEN l, q is quiet and q2 the next value of quiet.
LEMMA Counting ==
    ASSUME NEW l \in Nat, NEW n \in Nat, n <= l, NEW m, m = l + 1 - n,
           NEW q \in Nat, q + m <= l + 2, NEW q2 \in Nat, q2 <= q + 1
    PROVE  /\ m \in Nat /\ m >= 1 /\ m <= l + 1
           /\ m = 1 <=> n = l
           /\ m # 1 => /\ n < l /\ n + 1 <= l /\ m - 1 = l + 1 - (n + 1)
                       /\ q2 + (m - 1) <= l + 2
                       /\ n + 1 >= l <=> ~(n + 1 < l)
  OBVIOUS

\* A byte in DATA: both machines see the last byte of the frame at once.
LEMMA FeedData ==
    ASSUME IInv, NEW b \in Byte, Feed(b), r_state = "DATA"
    PROVE  /\ (MachineType /\ Lockstep /\ ForwardsWhatParses /\ QuietBound)'
           /\ r_need = 1 <=> Len(p_data) = p_len
           /\ r_need # 1 => r_state' = "DATA" /\ r_frame' = Append(r_frame, b)
           /\ r_need = 1 => /\ forwarded' = Append(r_frame, b) /\ r_state' = "SYNC"
                            /\ b = Crc(<<p_len>> \o p_data)
                                   => result' = "COMPLETE" /\ pkt' = p_data
  <1>1. /\ ReasmData(b) /\ (ParseData(b) \/ ParseCrc(b))
        /\ p_len \in 1 .. MaxLen /\ r_frame = <<SYNC, p_len>> \o p_data
        /\ Len(p_data) <= p_len /\ r_need = p_len + 1 - Len(p_data)
        /\ p_state = IF Len(p_data) < p_len THEN "DATA" ELSE "CRC"
    BY DEF Feed, ap_reasm_feed, ap_parse_byte, ReasmSync, ReasmLen, ParseSync,
           ParseLen, IInv, Lockstep
  <1>2. /\ p_data \in Seq(Byte) /\ r_frame \in Seq(Byte) /\ pkt \in Seq(Byte)
        /\ MaxLen \in Nat /\ p_len \in Nat /\ p_len \in Byte /\ SYNC \in Byte
        /\ Len(p_data) \in Nat /\ quiet \in Nat /\ quiet + r_need <= p_len + 2
    BY <1>1, ByteAssumption DEF IInv, TypeOK, QuietBound
  <1>3. /\ quiet' \in 0 .. (MaxLen + 2) /\ quiet' \in Nat /\ quiet' <= quiet + 1
    BY <1>2 DEF Feed, IInv, TypeOK
  <1>4. /\ r_need \in Nat /\ r_need >= 1 /\ r_need <= p_len + 1
        /\ r_need = 1 <=> Len(p_data) = p_len
        /\ r_need # 1 => /\ Len(p_data) < p_len /\ Len(p_data) + 1 <= p_len
                         /\ r_need - 1 = p_len + 1 - (Len(p_data) + 1)
                         /\ quiet' + (r_need - 1) <= p_len + 2
                         /\ Len(p_data) + 1 >= p_len <=> ~(Len(p_data) + 1 < p_len)
    BY <1>1, <1>2, <1>3, Counting
  <1>5. /\ Append(r_frame, b) \in Seq(Byte) /\ Append(r_frame, b) # << >>
        /\ Append(r_frame, b) = r_frame \o <<b>>
        /\ Append(p_data, b) \in Seq(Byte) /\ Append(p_data, b) = p_data \o <<b>>
        /\ Len(Append(p_data, b)) = Len(p_data) + 1
    BY <1>2, OneMoreByte
  <1>6. CASE r_need = 1
    <2>1. /\ r_state' = "SYNC" /\ r_need' = 0 /\ r_frame' = << >>
          /\ forwarded' = Append(r_frame, b)
      BY <1>1, <1>6 DEF ReasmData, ReasmHunts
    <2>2. p_state = "CRC" /\ p_len = Len(p_data)
      BY <1>1, <1>2, <1>4, <1>6
    <2>3. /\ p_state' = "SYNC" /\ p_len' = 0 /\ p_data' = << >>
          /\ IF b = Crc(<<p_len>> \o p_data) THEN result' = "COMPLETE" /\ pkt' = p_data
                                             ELSE result' = "ERR_CRC" /\ pkt' = pkt
      BY <1>1, <2>2 DEF ParseData, ParseCrc, ParserHunts, Return
    <2>4. b = Crc(<<p_len>> \o p_data) => Append(r_frame, b) = Frame(p_data)
      BY <1>1, <1>5, <2>2 DEF Frame
    <2>5. MachineType'
      BY <1>2, <1>3, <1>5, <2>1, <2>3 DEF MachineType, Result
    <2>6. ForwardsWhatParses'
      BY <1>5, <2>1, <2>3, <2>4 DEF ForwardsWhatParses
    <2>7. (Lockstep /\ QuietBound)'
      BY <2>1, <2>3 DEF Lockstep, QuietBound
    <2> QED
      BY <1>4, <1>6, <2>1, <2>3, <2>5, <2>6, <2>7
  <1>7. CASE r_need # 1
    <2>1. /\ r_state' = "DATA" /\ r_need' = r_need - 1 /\ r_frame' = Append(r_frame, b)
          /\ forwarded' = << >>
      BY <1>1, <1>7 DEF ReasmData
    <2>2. p_state = "DATA"
      BY <1>1, <1>4, <1>7
    <2>3. /\ p_data' = Append(p_data, b) /\ p_len' = p_len /\ pkt' = pkt
          /\ p_state' = IF Len(p_data) + 1 >= p_len THEN "CRC" ELSE "DATA"
          /\ result' = "NEED_MORE"
      BY <1>1, <2>2 DEF ParseData, ParseCrc, Return
    <2>4. Append(r_frame, b) = <<SYNC, p_len>> \o Append(p_data, b)
      <3>1. <<SYNC, p_len>> \in Seq(Byte) /\ <<b>> \in Seq(Byte)
        BY <1>2, TwoBytes
      <3>2. (<<SYNC, p_len>> \o p_data) \o <<b>> = <<SYNC, p_len>> \o (p_data \o <<b>>)
        BY <1>2, <3>1, ConcatAssociative
      <3> QED
        BY <1>1, <1>5, <3>2
    <2>5. r_need - 1 \in 0 .. (MaxLen + 1)
      BY <1>1, <1>2, <1>4
    <2>6. MachineType'
      BY <1>1, <1>2, <1>3, <1>5, <2>1, <2>3, <2>5 DEF MachineType, Result
    <2>7. Lockstep'
      <3>1. Len(p_data') = Len(p_data) + 1
        BY <1>5, <2>3
      <3>2. /\ Len(p_data') <= p_len' /\ r_need' = p_len' + 1 - Len(p_data')
            /\ p_state' = IF Len(p_data') < p_len' THEN "DATA" ELSE "CRC"
        BY <1>4, <1>7, <2>1, <2>3, <3>1
      <3> QED
        BY <1>1, <2>1, <2>3, <2>4, <3>2 DEF Lockstep
    <2>8. ForwardsWhatParses'
      BY <2>1, <2>3 DEF ForwardsWhatParses
    <2>9. QuietBound'
      BY <1>4, <1>7, <2>1, <2>3 DEF QuietBound
    <2> QED
      BY <1>4, <1>7, <2>1, <2>6, <2>7, <2>8, <2>9
  <1> QED
    BY <1>6, <1>7

\* Every byte, whichever state it finds.
LEMMA FeedAny ==
    ASSUME IInv, NEW b \in Byte, Feed(b)
    PROVE  (MachineType /\ Lockstep /\ ForwardsWhatParses /\ QuietBound)'
  <1>1. r_state \in {"SYNC", "LEN", "DATA"}
    BY DEF IInv, TypeOK
  <1> QED
    BY <1>1, FeedSync, FeedLen, FeedData

\* A byte of an undisturbed frame: it stays undisturbed, and with the last byte
\* it is delivered.
LEMMA DeliverHalves ==
    ASSUME IInv, Deliver, aligned
    PROVE  Halves'
  <1> DEFINE b == Head(stream)
             F == Frame(packet)
             n == Len(packet)
  <1>1. /\ packet \in Packets /\ stream # << >> /\ r_frame \o stream = F
        /\ stream \in Seq(Byte) /\ r_frame \in Seq(Byte) /\ p_data \in Seq(Byte)
        /\ Feed(b) /\ stream' = Tail(stream) /\ packet' = packet /\ aligned' = aligned
    BY DEF IInv, TypeOK, Halves, Deliver
  <1>2. /\ b \in Byte /\ Tail(stream) \in Seq(Byte)
        /\ Append(r_frame, b) \o Tail(stream) = F
        /\ F[Len(r_frame) + 1] = b
        /\ Tail(stream) = << >> => Append(r_frame, b) = F
        /\ Len(F) = Len(r_frame) + Len(stream)
        /\ Len(Tail(stream)) = Len(stream) - 1 /\ Len(stream) \in Nat \ {0}
    BY <1>1, MoveByte
  <1>3. /\ packet \in Seq(Byte) /\ n \in 1 .. MaxLen /\ Len(F) = n + 3
        /\ F[1] = SYNC /\ F[2] = n
        /\ \A i \in 1 .. n : F[i + 2] = packet[i]
        /\ F[n + 3] = Crc(<<n>> \o packet) /\ packet # << >>
    BY <1>1, FrameShape DEF IInv, Halves
  <1>4. n \in Nat /\ n >= 1 /\ n <= MaxLen /\ MaxLen \in Nat
    BY <1>3, ByteAssumption
  <1>5. ASSUME Tail(stream) # << >>, r_frame' = Append(r_frame, b)
        PROVE  Halves'
    BY <1>1, <1>2, <1>3, <1>5 DEF IInv, Halves
  <1>0. Tail(stream) = << >> <=> Len(Tail(stream)) = 0
    BY <1>2, EmptySeq
  <1> HIDE DEF b, F, n
  <1>6. CASE r_state = "SYNC"
    <2>1. r_frame = << >> /\ Len(r_frame) = 0
      BY <1>6 DEF IInv, Lockstep
    <2>2. b = SYNC
      BY <1>2, <1>3, <2>1
    <2>3. r_frame' = Append(r_frame, b)
      BY <1>1, <1>2, <1>6, <2>2, FeedSync
    <2>4. Tail(stream) # << >>
      BY <1>0, <1>2, <1>3, <1>4, <2>1
    <2> QED
      BY <1>5, <2>3, <2>4
  <1>7. CASE r_state = "LEN"
    <2>1. r_frame = <<SYNC>> /\ Len(r_frame) = 1
      BY <1>7 DEF IInv, Lockstep
    <2>2. valid_len(b)
      BY <1>2, <1>3, <1>4, <2>1 DEF valid_len
    <2>3. r_frame' = Append(r_frame, b)
      BY <1>1, <1>2, <1>7, <2>2, FeedLen
    <2>4. Tail(stream) # << >>
      BY <1>0, <1>2, <1>3, <1>4, <2>1
    <2> QED
      BY <1>5, <2>3, <2>4
  <1>8. CASE r_state = "DATA"
    <2>1. /\ p_len \in 1 .. MaxLen /\ r_frame = <<SYNC, p_len>> \o p_data
          /\ Len(p_data) <= p_len /\ r_need = p_len + 1 - Len(p_data)
      BY <1>8 DEF IInv, Lockstep
    <2>2. p_len \in Byte /\ SYNC \in Byte /\ p_len \in Nat /\ Len(p_data) \in Nat
      BY <1>1, <2>1, ByteAssumption
    <2>3. /\ Len(r_frame) = 2 + Len(p_data) /\ r_frame[2] = p_len
          /\ \A i \in 1 .. Len(p_data) : r_frame[i + 2] = p_data[i]
      BY <1>1, <2>1, <2>2
    <2>4. \A i \in 1 .. Len(r_frame) : F[i] = r_frame[i]
      BY <1>1
    <2>5. p_len = n
      BY <1>3, <2>2, <2>3, <2>4
    <2>6. CASE r_need = 1
      <3>1. Len(p_data) = n /\ Len(Tail(stream)) = 0
        <4>1. Len(p_data) = p_len
          BY <1>1, <1>2, <1>8, <2>6, FeedData
        <4> QED
          BY <1>2, <1>3, <1>4, <2>3, <2>5, <4>1
      <3>2. Tail(stream) = << >>
        BY <1>0, <3>1
      <3>3. p_data = packet
        <4>1. \A i \in 1 .. n : p_data[i] = packet[i]
          BY <1>3, <1>4, <2>3, <2>4, <3>1
        <4> QED
          BY <1>1, <1>3, <3>1, <4>1, SeqEqual DEF n
      <3>4. b = Crc(<<p_len>> \o p_data)
        <4>1. Len(r_frame) + 1 = n + 3
          BY <1>4, <2>3, <3>1
        <4> QED
          BY <1>2, <1>3, <2>5, <3>3, <4>1
      <3>5. forwarded' = Append(r_frame, b) /\ result' = "COMPLETE" /\ pkt' = p_data
        BY <1>1, <1>2, <1>8, <2>6, <3>4, FeedData
      <3> QED
        BY <1>1, <1>2, <1>3, <3>2, <3>3, <3>5 DEF IInv, Halves, Delivered, F
    <2>7. CASE r_need # 1
      <3>1. r_frame' = Append(r_frame, b) /\ Len(p_data) # p_len
        BY <1>1, <1>2, <1>8, <2>7, FeedData
      <3>2. Tail(stream) # << >>
        BY <1>0, <1>2, <1>3, <1>4, <2>1, <2>2, <2>3, <2>5, <3>1
      <3> QED
        BY <1>5, <3>1, <3>2
    <2> QED
      BY <2>6, <2>7
  <1> QED
    BY <1>6, <1>7, <1>8 DEF IInv, TypeOK

-----------------------------------------------------------------------------

\* The inductive invariant.
LEMMA FramingInvariant == Spec => []IInv
  <1>1. Init => IInv
    <2> SUFFICES ASSUME Init PROVE IInv
      OBVIOUS
    <2>1. MaxLen \in Nat /\ << >> \in Seq(Byte)
      BY ByteAssumption
    <2>2. TypeOK
      <3>1. /\ 0 \in 0 .. (MaxLen + 1) /\ 0 \in 0 .. MaxLen
            /\ 0 \in 0 .. (MaxLen + 2)
        BY <2>1
      <3> QED
        BY <2>1, <3>1 DEF Init, ap_reasm_init, ap_parser_init, TypeOK, Result
    <2>3. Lockstep /\ ForwardsWhatParses /\ Halves /\ QuietBound
      BY DEF Init, ap_reasm_init, ap_parser_init, Lockstep, ForwardsWhatParses,
             Halves, QuietBound
    <2> QED
      BY <2>2, <2>3 DEF IInv
  <1>2. IInv /\ [Next]_vars => IInv'
    <2> SUFFICES ASSUME IInv, [Next]_vars PROVE IInv'
      OBVIOUS
    <2>1. ASSUME NEW d \in Packets, NEW size \in BufSizes, Send(d, size) PROVE IInv'
      <3>1. /\ stream' \in Seq(Byte)
            /\ aligned' => /\ stream' = Frame(d) /\ stream' # << >>
                           /\ Len(d) <= MaxLen /\ d # << >>
        <4>1. CASE Fits(d, size)
          <5>1. stream' = Frame(d) /\ Len(d) <= MaxLen
            BY <2>1, <4>1, Builds DEF Send
          <5>2. /\ Frame(d) \in Seq(Byte) /\ Len(Frame(d)) = Len(d) + 3
                /\ Len(d) \in Nat /\ d # << >>
            BY <5>1, FrameShape, LenProperties
          <5> QED
            BY <5>1, <5>2
        <4>2. CASE ~Fits(d, size)
          <5>1. ap_build_packet(d, size) = << >> /\ << >> \in Seq(Byte)
            BY <4>2, Builds
          <5>2. stream' = << >>
            BY <2>1, <5>1 DEF Send
          <5>3. ~aligned'
            BY <2>1, <4>2, <5>2, Zenon DEF Send
          <5> QED
            BY <5>1, <5>2, <5>3
        <4> QED
          BY <4>1, <4>2
      <3>2. (MachineType /\ Lockstep /\ ForwardsWhatParses /\ QuietBound)'
        BY <2>1 DEF Send, reasm, parser, IInv, TypeOK, MachineType, Lockstep,
                    ForwardsWhatParses, QuietBound
      <3>3. TypeOK'
        BY <2>1, <3>1, <3>2 DEF Send, MachineType, TypeOK
      <3>4. aligned' => r_frame' \o stream' = stream'
        BY <2>1, <3>1, ConcatEmptySeq DEF Send, reasm, IInv, Lockstep
      <3>5. Halves'
        BY <2>1, <3>1, <3>4 DEF Send, Halves
      <3> QED
        BY <3>2, <3>3, <3>5 DEF IInv
    <2>2. CASE Deliver
      <3>1. Head(stream) \in Byte /\ Tail(stream) \in Seq(Byte)
        BY <2>2 DEF Deliver, IInv, TypeOK
      <3>2. (MachineType /\ Lockstep /\ ForwardsWhatParses /\ QuietBound)'
        BY <2>2, <3>1, FeedAny DEF Deliver
      <3>3. TypeOK'
        BY <2>2, <3>1, <3>2 DEF Deliver, MachineType, IInv, TypeOK
      <3>4. Halves'
        BY <2>2, DeliverHalves DEF Deliver, Halves
      <3> QED
        BY <3>2, <3>3, <3>4 DEF IInv
    <2>3. ASSUME NEW k \in 1 .. Len(stream), Rejected(k) PROVE IInv'
      <3>1. (MachineType /\ Lockstep /\ ForwardsWhatParses /\ QuietBound)'
        BY <2>3 DEF Rejected, reasm, parser, IInv, TypeOK, MachineType, Lockstep,
                    ForwardsWhatParses, QuietBound
      <3>2. SubSeq(stream, k + 1, Len(stream)) \in Seq(Byte)
        BY DEF IInv, TypeOK
      <3> QED
        BY <2>3, <3>1, <3>2 DEF Rejected, MachineType, IInv, TypeOK, Halves
    <2>4. ASSUME NEW b \in Byte, Stray(b) PROVE IInv'
      <3>1. (MachineType /\ Lockstep /\ ForwardsWhatParses /\ QuietBound)'
        BY <2>4, FeedAny DEF Stray
      <3> QED
        BY <2>4, <3>1 DEF Stray, MachineType, IInv, TypeOK, Halves
    <2>5. CASE Reconnect
      <3>1. MaxLen \in Nat /\ << >> \in Seq(Byte)
        BY ByteAssumption
      <3>2. MachineType'
        BY <2>5, <3>1 DEF Reconnect, ReasmHunts, ParserHunts, Return, IInv, TypeOK,
                          Result, MachineType
      <3>3. (Lockstep /\ ForwardsWhatParses /\ QuietBound)'
        BY <2>5 DEF Reconnect, ReasmHunts, ParserHunts, Return, Lockstep,
                    ForwardsWhatParses, QuietBound
      <3> QED
        BY <2>5, <3>1, <3>2, <3>3 DEF Reconnect, MachineType, IInv, TypeOK, Halves
    <2>6. CASE UNCHANGED vars
      BY <2>6 DEF vars, reasm, parser, IInv, TypeOK, Lockstep, ForwardsWhatParses,
                  Halves, Delivered, QuietBound
    <2> QED
      BY <2>1, <2>2, <2>3, <2>4, <2>5, <2>6 DEF Next
  <1> QED
    BY <1>1, <1>2, PTL DEF Spec

\* Every variable of the two machines and of the client keeps its type; no
\* counter wraps.
THEOREM TypeCorrect == Spec => []TypeOK
  <1>1. IInv => TypeOK
    BY DEF IInv
  <1> QED
    BY <1>1, FramingInvariant, PTL

\* The bridge, which goes by LEN alone, forwards exactly what the protocol's
\* parser sees as a frame, for every stream of bytes.
THEOREM AlwaysForwardsWhatParses == Spec => []ForwardsWhatParses
  <1>1. IInv => ForwardsWhatParses
    BY DEF IInv
  <1> QED
    BY <1>1, FramingInvariant, PTL

\* A frame sent while none is half received arrives whole and parses.
THEOREM AlwaysDelivered == Spec => []Delivered
  <1>1. IInv => Delivered
    BY DEF IInv, Halves, Delivered
  <1> QED
    BY <1>1, FramingInvariant, PTL

\* Neither buffer overflows, whatever the stream.
THEOREM NeverOverflows == Spec => []NoOverflow
  <1>1. IInv => NoOverflow
    <2> SUFFICES ASSUME IInv PROVE NoOverflow
      OBVIOUS
    <2>1. /\ p_data \in Seq(Byte) /\ Len(p_data) \in Nat /\ MaxLen \in Nat \ {0}
          /\ SYNC \in Byte /\ Len(<< >>) = 0 /\ Len(<<SYNC>>) = 1
      BY ByteAssumption DEF IInv, TypeOK
    <2>2. CASE r_state # "DATA"
      <3>1. Len(r_frame) <= 1 /\ Len(r_frame) \in Nat /\ r_need = 0 /\ Len(p_data) = 0
            /\ p_state # "DATA"
        BY <2>1, <2>2 DEF IInv, Lockstep
      <3> QED
        BY <2>1, <3>1 DEF NoOverflow
    <2>3. CASE r_state = "DATA"
      <3>1. /\ p_len \in 1 .. MaxLen /\ r_frame = <<SYNC, p_len>> \o p_data
            /\ Len(p_data) <= p_len /\ r_need = p_len + 1 - Len(p_data)
            /\ p_state = IF Len(p_data) < p_len THEN "DATA" ELSE "CRC"
        BY <2>3 DEF IInv, Lockstep
      <3>2. Len(r_frame) = 2 + Len(p_data)
        BY <2>1, <3>1, ByteAssumption
      <3> QED
        BY <2>1, <3>1, <3>2 DEF NoOverflow
    <2> QED
      BY <2>2, <2>3
  <1> QED
    BY <1>1, FramingInvariant, PTL

\* A half-received frame is given up or ended within MaxLen + 2 bytes.
THEOREM AlwaysRecovers == Spec => []Recovers
  <1>1. IInv => Recovers
    <2> SUFFICES ASSUME IInv, quiet = MaxLen + 2 PROVE r_state = "SYNC"
      BY DEF Recovers
    <2>1. MaxLen \in Nat \ {0}
      BY ByteAssumption
    <2>2. r_state # "LEN"
      BY <2>1 DEF IInv, QuietBound
    <2>3. CASE r_state = "DATA"
      <3>1. /\ p_len \in 1 .. MaxLen /\ Len(p_data) <= p_len /\ Len(p_data) \in Nat
            /\ r_need = p_len + 1 - Len(p_data) /\ quiet + r_need <= p_len + 2
        BY <2>3 DEF IInv, TypeOK, Lockstep, QuietBound
      <3> QED
        BY <2>1, <3>1
    <2> QED
      BY <2>2, <2>3 DEF IInv, TypeOK
  <1> QED
    BY <1>1, FramingInvariant, PTL
=============================================================================
