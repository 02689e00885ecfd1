------------------------------ MODULE MCAl1Frame ------------------------------
(* Bytes of three values: 1 is VERSION and 2 is SYNC, so that either occurs  *)
(* as a channel, a LEN, a payload and a CRC byte, too.  The longest payload  *)
(* has a LEN of two bytes, <<1, 0>>; one more byte is too long.              *)
EXTENDS Al1Frame

MCCrcUpdate(crc, b) == (2 * crc + b + 1) % 9

MCPayloads == UNION {[1 .. n -> 1 .. 2] : n \in 0 .. 2} \cup {<<1, 2, 0>>, <<2, 2, 2>>, <<1, 1, 1, 1>>}

MCFrames == [channel : {1}, seq : {2}, payload : MCPayloads]
===============================================================================
