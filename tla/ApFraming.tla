------------------------------- MODULE ApFraming -------------------------------
(***************************************************************************)
(* The byte stream of one BLE client and the two state machines that find  *)
(* Attentio Protocol frames in it: the bridge's reassembler (ap_reasm.c),  *)
(* which goes by the LEN byte alone and forwards whole frames, and the     *)
(* protocol's own parser (attentio_protocol.c), the STM32's authority on   *)
(* what a frame is.  Both are fed the same bytes.                          *)
(*                                                                         *)
(* A buffer is the sequence of the bytes below its index.  On the way back *)
(* to SYNC what is left in a buffer is dead, and empty here.  Counters     *)
(* that are only reported are left out.                                    *)
(***************************************************************************)
EXTENDS Naturals, Sequences

CONSTANTS
    Byte,      \* 0 .. 255
    SYNC,      \* AP_SYNC_BYTE
    MaxLen,    \* AP_MAX_PAYLOAD_SIZE + 1, the largest LEN
    Crc(_),    \* ap_crc8 of a sequence of bytes
    Uint8,     \* 256, the range of LEN
    Packets,   \* what clients want to send: CMD + PAYLOAD
    BufSizes   \* sizes of the buffers they build it in

ASSUME ByteAssumption ==
    /\ Byte \subseteq Nat /\ SYNC \in Byte
    /\ MaxLen \in Nat \ {0} /\ 1 .. MaxLen \subseteq Byte
ASSUME PacketAssumption ==
    /\ BufSizes \subseteq Nat /\ Uint8 \in Nat /\ MaxLen < Uint8
    /\ \A d \in Packets : /\ d \in Seq(Byte) /\ Len(d) >= 1
                          /\ Crc(<<Len(d)>> \o d) \in Byte

VARIABLES
    r_state, r_need, r_frame,        \* ap_reasm_t
    forwarded,                       \* the frame its callback got with the last
                                     \* byte, or << >>
    p_state, p_len, p_data,          \* ap_parser_t
    result,                          \* what ap_parse_byte returned for that byte
    pkt,                             \* the packet it delivered last
    stream,                          \* bytes of a frame the client still sends
    packet,                          \* history: the packet it sends, or << >>
    aligned,                         \* history: both were in SYNC before it
    quiet                            \* history: bytes since the last SYNC byte

reasm  == <<r_state, r_need, r_frame>>
parser == <<p_state, p_len, p_data>>
vars   == <<reasm, forwarded, parser, result, pkt, stream, packet, aligned, quiet>>

Result == {"NEED_MORE", "COMPLETE", "ERR_CRC", "ERR_LEN", "ERR_OVERFLOW"}

TypeOK ==
    /\ r_state \in {"SYNC", "LEN", "DATA"}
    /\ r_need \in 0 .. (MaxLen + 1)
    /\ r_frame \in Seq(Byte) /\ forwarded \in Seq(Byte)
    /\ p_state \in {"SYNC", "LEN", "DATA", "CRC"}
    /\ p_len \in 0 .. MaxLen
    /\ p_data \in Seq(Byte) /\ pkt \in Seq(Byte)
    /\ result \in Result
    /\ stream \in Seq(Byte)
    /\ packet \in Packets \cup {<< >>}
    /\ aligned \in BOOLEAN
    /\ quiet \in 0 .. (MaxLen + 2)

ap_reasm_init  == r_state = "SYNC" /\ r_need = 0 /\ r_frame = << >>
ap_parser_init == p_state = "SYNC" /\ p_len = 0 /\ p_data = << >>

Init ==
    /\ ap_reasm_init /\ forwarded = << >>
    /\ ap_parser_init /\ result = "NEED_MORE" /\ pkt = << >>
    /\ stream = << >> /\ packet = << >> /\ aligned = FALSE /\ quiet = 0

(***************************************************************************)
(* ap_reasm_feed, for one byte.                                            *)
(***************************************************************************)

valid_len_from_0(b) == b <= MaxLen                \* faulty: accepts LEN 0
valid_len_unbounded(b) == b >= 1                  \* faulty: overruns the buffer

valid_len(b) == b >= 1 /\ b <= MaxLen

bytes_to_come_2(b) == b + 2                       \* faulty: off by one

bytes_to_come(b) == b + 1                         \* CMD + PAYLOAD, and CRC

ReasmHunts ==
    r_state' = "SYNC" /\ r_need' = 0 /\ r_frame' = << >>

ReasmSync(b) ==
    /\ r_state = "SYNC"
    /\ IF b = SYNC
       THEN r_state' = "LEN" /\ r_frame' = <<b>> /\ UNCHANGED r_need
       ELSE UNCHANGED reasm
    /\ forwarded' = << >>

ReasmLen(b) ==
    /\ r_state = "LEN"
    /\ IF valid_len(b)
       THEN r_state' = "DATA" /\ r_need' = bytes_to_come(b) /\ r_frame' = Append(r_frame, b)
       ELSE ReasmHunts
    /\ forwarded' = << >>

ReasmData(b) ==
    /\ r_state = "DATA"
    /\ IF r_need = 1
       THEN ReasmHunts /\ forwarded' = Append(r_frame, b)
       ELSE /\ r_need' = r_need - 1
            /\ r_frame' = Append(r_frame, b)
            /\ forwarded' = << >>
            /\ UNCHANGED r_state

ap_reasm_feed(b) == ReasmSync(b) \/ ReasmLen(b) \/ ReasmData(b)

(***************************************************************************)
(* ap_parse_byte.                                                          *)
(***************************************************************************)

Return(code) == result' = code /\ UNCHANGED pkt

ParserHunts == p_state' = "SYNC" /\ p_len' = 0 /\ p_data' = << >>

ParseSync(b) ==
    /\ p_state = "SYNC"
    /\ IF b = SYNC THEN p_state' = "LEN" /\ UNCHANGED <<p_len, p_data>>
                   ELSE UNCHANGED parser
    /\ Return("NEED_MORE")

ParseLen(b) ==
    /\ p_state = "LEN"
    /\ \/ b = 0 /\ ParserHunts /\ Return("ERR_LEN")
       \/ b > MaxLen /\ ParserHunts /\ Return("ERR_OVERFLOW")
       \/ /\ b # 0 /\ b <= MaxLen
          /\ p_state' = "DATA" /\ p_len' = b /\ UNCHANGED p_data
          /\ Return("NEED_MORE")

ParseData(b) ==
    /\ p_state = "DATA"
    /\ p_data' = Append(p_data, b)
    /\ p_state' = IF Len(p_data) + 1 >= p_len THEN "CRC" ELSE "DATA"
    /\ UNCHANGED p_len
    /\ Return("NEED_MORE")

ParseCrc(b) ==
    /\ p_state = "CRC"
    /\ ParserHunts
    /\ IF b = Crc(<<p_len>> \o p_data) THEN result' = "COMPLETE" /\ pkt' = p_data
                                       ELSE Return("ERR_CRC")

ap_parse_byte(b) == ParseSync(b) \/ ParseLen(b) \/ ParseData(b) \/ ParseCrc(b)

(***************************************************************************)
(* The client.                                                             *)
(***************************************************************************)

\* A packet on the wire, as the protocol defines it.
Frame(d) == <<SYNC, Len(d)>> \o d \o <<Crc(<<Len(d)>> \o d)>>

\* The packets that have a frame, and one that the buffer has room for.
Fits(d, size) == Len(d) <= MaxLen /\ Len(Frame(d)) <= size

\* uint8_t len_field = 1 + payload_len
len_field(d) == Len(d) % Uint8

\* ap_crc8(&buf[1], (size_t)len_field + 1)
crc_of_buf(d) == Crc(SubSeq(<<len_field(d)>> \o d, 1, len_field(d) + 1))

built(d) == <<SYNC, len_field(d)>> \o d \o <<crc_of_buf(d)>>

\* faulty: only the room is checked
ap_build_packet_unchecked(d, size) ==
    IF size < Len(d) + 3 THEN << >> ELSE built(d)

ap_build_packet(d, size) ==
    IF size < Len(d) + 3 \/ Len(d) - 1 > MaxLen - 1 THEN << >> ELSE built(d)

Feed(b) ==
    /\ ap_reasm_feed(b)
    /\ ap_parse_byte(b)
    /\ quiet' = IF b = SYNC THEN 0 ELSE IF quiet < MaxLen + 2 THEN quiet + 1 ELSE quiet

\* The client starts to send a frame, in as many writes as it likes; nothing is
\* sent when the builder returns 0.
Send(d, size) ==
    /\ stream = << >>
    /\ stream' = ap_build_packet(d, size)
    /\ packet' = d
    /\ aligned' = /\ r_state = "SYNC" /\ p_state = "SYNC"
                  /\ stream' # << >> \/ Fits(d, size)
    /\ UNCHANGED <<reasm, forwarded, parser, result, pkt, quiet>>

Deliver ==
    /\ stream # << >>
    /\ Feed(Head(stream))
    /\ stream' = Tail(stream)
    /\ UNCHANGED <<packet, aligned>>

\* al1_gatt_access rejects a write, with as many bytes as it had; or the client
\* gives the rest of the frame up.
Rejected(k) ==
    /\ stream' = SubSeq(stream, k + 1, Len(stream))
    /\ packet' = << >> /\ aligned' = FALSE
    /\ UNCHANGED <<reasm, forwarded, parser, result, pkt, quiet>>

\* It sends a byte that belongs to no frame.
Stray(b) ==
    /\ stream = << >>
    /\ Feed(b)
    /\ packet' = << >> /\ aligned' = FALSE
    /\ UNCHANGED stream

\* It drops and another one connects: on_conn_evt initialises the slot again.
Reconnect ==
    /\ ReasmHunts /\ forwarded' = << >>
    /\ ParserHunts /\ Return("NEED_MORE")
    /\ stream' = << >> /\ packet' = << >> /\ aligned' = FALSE /\ quiet' = 0

Next ==
    \/ \E d \in Packets, size \in BufSizes : Send(d, size)
    \/ Deliver
    \/ \E k \in 1 .. Len(stream) : Rejected(k)
    \/ \E b \in Byte : Stray(b)
    \/ Reconnect

Spec == Init /\ [][Next]_vars

-----------------------------------------------------------------------------

\* The bridge forwards a frame with exactly the bytes at which the protocol's
\* parser finds one, whatever the stream: it loses none, invents none, and goes
\* by the same boundaries though it never looks at the CRC.  What the parser
\* takes for good is forwarded verbatim.
ForwardsWhatParses ==
    /\ forwarded # << >> <=> result \in {"COMPLETE", "ERR_CRC"}
    /\ result = "COMPLETE" => forwarded = Frame(pkt)

\* Whatever the builder builds, and everything that fits, arrives when it is
\* sent while nothing is half received: LEN cannot wrap, the frame is forwarded
\* verbatim and parses to the packet it was built from, though SYNC may occur
\* anywhere in it.
Delivered ==
    stream = << >> /\ aligned
        => forwarded = Frame(packet) /\ result = "COMPLETE" /\ pkt = packet

\* What is buffered and what is still expected fit into ap_reasm_t.frame
\* (AP_MAX_FRAME) and ap_parser_t.data (AP_MAX_PAYLOAD_SIZE + 1).
NoOverflow ==
    /\ Len(r_frame) + r_need <= MaxLen + 3
    /\ Len(p_data) + (IF p_state = "DATA" THEN 1 ELSE 0) <= MaxLen

\* There is no timeout, but a half-received frame cannot block for ever: after
\* MaxLen + 2 bytes without a SYNC byte the reassembler hunts again.
Recovers == quiet = MaxLen + 2 => r_state = "SYNC"
===============================================================================
