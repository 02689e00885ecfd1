------------------------------ MODULE MCApFraming ------------------------------
(* Four bytes: 0 is no LEN, 1 and 2 are, 3 is too long, and SYNC, 1, is a  *)
(* good LEN but not the largest, as 0xA5 is.  Packets of 3 bytes have a    *)
(* LEN that is too long, packets of 4 one that wraps to 0, and those of 2  *)
(* may find one byte too few to be built in.                               *)
EXTENDS ApFraming, SequencesExt

MCByte == 0 .. 3

MCCrc(s) == FoldLeft(LAMBDA crc, b : (3 * crc + b + 1) % 4, 0, s)

MCPackets == UNION {[1 .. n -> MCByte] : n \in 1 .. 2}
                 \cup UNION {[1 .. n -> {1}] : n \in 3 .. 4}

MCBufSizes == {4, 7}
===============================================================================
