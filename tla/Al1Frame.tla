-------------------------------- MODULE Al1Frame --------------------------------
(***************************************************************************)
(* The frames of the UART link (al1_frame.c): what al1_frame_build puts    *)
(* on the wire and what al1_parser_feed makes of the bytes that arrive,    *)
(* some of them disturbed.  LEN and the CRC are two bytes each, the high   *)
(* one first.                                                              *)
(*                                                                         *)
(* The payload buffer is the sequence of the bytes below p->idx; what is   *)
(* left in a field on the way back to SYNC is dead, and reset here.  The   *)
(* statistics are left out but for the errors the parser reports, one per  *)
(* byte at most: event is the counter it bumped last.                      *)
(***************************************************************************)
EXTENDS Integers, Sequences

CONSTANTS
    Radix,            \* 256
    SYNC,             \* AL1_LINK_SYNC
    VERSION,          \* AL1_LINK_VERSION
    MaxPayload,       \* AL1_LINK_MAX_PAYLOAD
    CrcInit,          \* AL1_CRC16_INIT
    CrcUpdate(_, _),  \* al1_crc16_ccitt_update
    Frames            \* what is to be sent: [channel, seq, payload]

Byte == 0 .. (Radix - 1)
Word == 0 .. (Radix * Radix - 1)

ASSUME WireAssumption ==
    /\ Radix \in Nat \ {0}
    /\ SYNC \in Byte /\ VERSION \in Byte /\ SYNC # VERSION
    /\ MaxPayload \in Word
ASSUME CrcAssumption ==
    /\ CrcInit \in Word
    /\ \A crc \in Word, b \in Byte : CrcUpdate(crc, b) \in Word
ASSUME FramesAssumption ==
    Frames \subseteq [channel : Byte, seq : Byte, payload : Seq(Byte)]

NoFrame == [channel |-> 0, seq |-> 0, payload |-> << >>]

VARIABLES
    state,        \* p->state
    head,         \* p->channel and p->seq: [channel, seq]
    len,          \* p->len
    payload,      \* p->payload, p->idx bytes of it
    crc_calc,     \* p->crc_calc
    crc_rx,       \* p->crc_rx
    event,        \* the counter bumped with the last byte, or "none"
    delivered,    \* what the callback got with it, or NoFrame
    wire,         \* bytes of a frame still on their way
    sent,         \* history: that frame
    aligned,      \* history: it was hunted for when it began, and is undisturbed
    quiet         \* history: bytes since the last SYNC byte

fields == <<head, len, payload, crc_calc, crc_rx>>
parser == <<state, fields>>
output == <<event, delivered>>
vars   == <<parser, output, wire, sent, aligned, quiet>>

State == {"SYNC", "VER", "CHANNEL", "SEQ", "LEN_HI", "LEN_LO", "PAYLOAD", "CRC_HI", "CRC_LO"}
Event == {"none", "frame", "crc_err", "ver_err", "len_err"}

\* The longest silence after which the parser may still expect bytes.
MaxQuiet == MaxPayload + 7

TypeOK ==
    /\ state \in State
    /\ head \in [channel : Byte, seq : Byte]
    /\ len \in Word
    /\ payload \in Seq(Byte) /\ Len(payload) <= MaxPayload
    /\ crc_calc \in Word /\ crc_rx \in Word
    /\ event \in Event
    /\ wire \in Seq(Byte)
    /\ aligned \in BOOLEAN
    /\ quiet \in 0 .. MaxQuiet

al1_parser_init ==
    /\ state = "SYNC"
    /\ head = [channel |-> 0, seq |-> 0]
    /\ len = 0 /\ payload = << >> /\ crc_calc = 0 /\ crc_rx = 0

Init ==
    /\ al1_parser_init
    /\ event = "none" /\ delivered = NoFrame
    /\ wire = << >> /\ sent = NoFrame /\ aligned = FALSE /\ quiet = 0

(***************************************************************************)
(* al1_parser_feed, for one byte.                                          *)
(***************************************************************************)

Report(what) == event' = what /\ delivered' = NoFrame

Hunt ==
    /\ state' = "SYNC"
    /\ head' = [channel |-> 0, seq |-> 0]
    /\ len' = 0 /\ payload' = << >> /\ crc_calc' = 0 /\ crc_rx' = 0

Covered_not_len(b) ==                        \* faulty: leaves LEN_HI out
    crc_calc' = IF state = "LEN_HI" THEN crc_calc ELSE CrcUpdate(crc_calc, b)

Covered(b) == crc_calc' = CrcUpdate(crc_calc, b)

FeedSync(b) ==
    /\ state = "SYNC"
    /\ state' = IF b = SYNC THEN "VER" ELSE "SYNC"
    /\ UNCHANGED fields
    /\ Report("none")

FeedVer_hunts(b) ==                          \* faulty: a stray SYNC is skipped
    /\ state = "VER"
    /\ IF b = VERSION
       THEN state' = "CHANNEL" /\ crc_calc' = CrcUpdate(CrcInit, b) /\ Report("none")
       ELSE state' = "SYNC" /\ UNCHANGED crc_calc /\ Report("ver_err")
    /\ UNCHANGED <<head, len, payload, crc_rx>>

\* A stray SYNC counts as the start of a new frame.
FeedVer(b) ==
    /\ state = "VER"
    /\ IF b = VERSION
       THEN state' = "CHANNEL" /\ crc_calc' = CrcUpdate(CrcInit, b) /\ Report("none")
       ELSE /\ state' = IF b = SYNC THEN "VER" ELSE "SYNC"
            /\ UNCHANGED crc_calc
            /\ Report("ver_err")
    /\ UNCHANGED <<head, len, payload, crc_rx>>

FeedHead(b) ==
    /\ \/ /\ state = "CHANNEL" /\ state' = "SEQ"
          /\ head' = [head EXCEPT !.channel = b] /\ UNCHANGED len
       \/ /\ state = "SEQ" /\ state' = "LEN_HI"
          /\ head' = [head EXCEPT !.seq = b] /\ UNCHANGED len
       \/ /\ state = "LEN_HI" /\ state' = "LEN_LO"
          /\ len' = b * Radix /\ UNCHANGED head
    /\ Covered(b)
    /\ UNCHANGED <<payload, crc_rx>>
    /\ Report("none")

too_long_never(n) == FALSE                   \* faulty: overruns p->payload

too_long(n) == n > MaxPayload

FeedLenLo(b) ==
    /\ state = "LEN_LO"
    /\ LET n == len + b
       IN  IF too_long(n)
           THEN Hunt /\ Report("len_err")
           ELSE /\ len' = n
                /\ state' = IF n = 0 THEN "CRC_HI" ELSE "PAYLOAD"
                /\ Covered(b)
                /\ UNCHANGED <<head, payload, crc_rx>>
                /\ Report("none")

payload_ends_late(n) == n > len              \* faulty: off by one

payload_ends(n) == n >= len

FeedPayload(b) ==
    /\ state = "PAYLOAD"
    /\ payload' = Append(payload, b)
    /\ state' = IF payload_ends(Len(payload) + 1) THEN "CRC_HI" ELSE "PAYLOAD"
    /\ Covered(b)
    /\ UNCHANGED <<head, len, crc_rx>>
    /\ Report("none")

FeedCrcHi(b) ==
    /\ state = "CRC_HI"
    /\ state' = "CRC_LO"
    /\ crc_rx' = b * Radix
    /\ UNCHANGED <<head, len, payload, crc_calc>>
    /\ Report("none")

crc_matches(b) == crc_rx + b = crc_calc

FeedCrcLo(b) ==
    /\ state = "CRC_LO"
    /\ Hunt
    /\ IF crc_matches(b)
       THEN /\ event' = "frame"
            /\ delivered' = [channel |-> head.channel, seq |-> head.seq, payload |-> payload]
       ELSE Report("crc_err")

al1_parser_feed(b) ==
    \/ FeedSync(b) \/ FeedVer(b) \/ FeedHead(b) \/ FeedLenLo(b)
    \/ FeedPayload(b) \/ FeedCrcHi(b) \/ FeedCrcLo(b)

(***************************************************************************)
(* The wire.                                                               *)
(***************************************************************************)

\* al1_crc16_ccitt's crc after each of its bytes.
Registers(s) ==
    LET crc[i \in 0 .. Len(s)] == IF i = 0 THEN CrcInit ELSE CrcUpdate(crc[i - 1], s[i])
    IN  crc

Crc(s) == Registers(s)[Len(s)]

hi(n) == n \div Radix
lo(n) == n % Radix

\* What the CRC covers: VER .. PAYLOAD.
covered(f) ==
    <<VERSION, f.channel, f.seq, hi(Len(f.payload)), lo(Len(f.payload))>> \o f.payload

Overhead == 8                                \* AL1_LINK_OVERHEAD

al1_frame_build(f, cap) ==
    IF Len(f.payload) > MaxPayload \/ cap < Overhead + Len(f.payload)
    THEN << >>
    ELSE LET crc == Crc(covered(f)) IN <<SYNC>> \o covered(f) \o <<hi(crc), lo(crc)>>

Feed(b) ==
    /\ al1_parser_feed(b)
    /\ quiet' = IF b = SYNC THEN 0 ELSE IF quiet < MaxQuiet THEN quiet + 1 ELSE quiet

\* A frame goes out if it can be built; it is aligned when the parser hunts, or
\* takes its SYNC for the one to start from.
Send(f) ==
    /\ wire = << >>
    /\ wire' = al1_frame_build(f, Overhead + Len(f.payload))
    /\ sent' = f
    /\ aligned' = /\ state \in {"SYNC", "VER"}
                  /\ wire' # << >> \/ Len(f.payload) <= MaxPayload
    /\ UNCHANGED <<parser, output, quiet>>

Arrives ==
    /\ wire # << >>
    /\ Feed(Head(wire))
    /\ wire' = Tail(wire)
    /\ UNCHANGED <<sent, aligned>>

\* A byte arrives wrong, or between two frames.
Disturbed(b) ==
    /\ Feed(b)
    /\ wire' = IF wire = << >> THEN wire ELSE Tail(wire)
    /\ sent' = NoFrame
    /\ aligned' = FALSE

\* A byte is lost.
Lost ==
    /\ wire # << >>
    /\ wire' = Tail(wire)
    /\ sent' = NoFrame
    /\ aligned' = FALSE
    /\ UNCHANGED <<parser, output, quiet>>

Next ==
    \/ \E f \in Frames : Send(f)
    \/ Arrives
    \/ \E b \in Byte : Disturbed(b)
    \/ Lost

Spec == Init /\ [][Next]_vars

-----------------------------------------------------------------------------

\* A frame that begins while the parser hunts, a stray SYNC before it included,
\* is delivered as it was built, whatever bytes it is made of; every payload that
\* is not too long is built, and no other.
Delivered ==
    wire = << >> /\ aligned => event = "frame" /\ delivered = sent

\* A disturbed LEN makes the parser swallow what follows, without a timeout: but
\* at most the longest frame, after which it hunts again.
Recovers == quiet = MaxQuiet => state = "SYNC"

\* What is delivered is as long as its LEN said and came with the CRC of all
\* that it is made of.
ConsistentCrc ==
    state \in {"CRC_HI", "CRC_LO"} =>
        /\ Len(payload) = len
        /\ crc_calc = Crc(covered([channel |-> head.channel, seq |-> head.seq,
                                   payload |-> payload]))
===============================================================================
