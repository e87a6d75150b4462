------------------------------ MODULE MCCrc16 ------------------------------
(* Bytes 0 and 1, so that a frame has no, one or 256 arguments and an        *)
(* argument no, one or 256 bytes: the first frames without and with one      *)
(* argument of one byte are walked to the end.  Errors that flip nothing,    *)
(* the first bit, which makes an argc of 1 a 0, and the last bit; 134 twice  *)
(* is what a receiver that has the checksum's bytes exchanged takes for it,  *)
(* and 2 and 33 at the two ends of a frame with an argument are what it      *)
(* misses with the last mask of crc16_add gone.                              *)
EXTENDS Crc16

Bits(n) == [i \in 0..15 |-> (n \div 2^i) % 2 = 1]

MCOctets == {Bits(n) : n \in {0, 1}}
MCErrors == {Bits(n) : n \in {0, 1, 2, 33, 128, 134}}
=============================================================================
