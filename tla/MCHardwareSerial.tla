-------------------------- MODULE MCHardwareSerial --------------------------
(***************************************************************************)
(* A ring of three slots whose ninth bits spread over two bytes, so that   *)
(* the indices wrap and the second byte of nrx_buffer is used, with two    *)
(* data bytes and enough characters to fill the ring and go round it.      *)
(***************************************************************************)
EXTENDS HardwareSerial

MCByte == {0, 1}
=============================================================================
