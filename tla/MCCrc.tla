--------------------------------- MODULE MCCrc ---------------------------------
(* Every message of one byte, so that every entry of the table is used, and   *)
(* messages of three bytes, so that a burst may span them.                    *)
EXTENDS ApCrc8

MCAlgs == {crc8, crc16_ccitt}

Samples == {{}, 0 .. 7, {0, 2, 5, 7}}

MCMessages == {<<b>> : b \in Byte} \cup [1 .. 3 -> Samples]

MCByteErrors == {{}, {0}, {7}, {3, 4}, {0, 7}, 0 .. 6, 0 .. 7}

MCCheckErrors == {{}, {0}, {7}, {15}, 0 .. 7, 0 .. 15}
===============================================================================
