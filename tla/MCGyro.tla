------------------------------- MODULE MCGyro -------------------------------
(***************************************************************************)
(* A sensor that may be absent, whose registers hold one of two patterns,  *)
(* each the complement of the other in every bit (WHO_AM_I holds what the  *)
(* data sheet says).  One fault, at any byte of any transfer.              *)
(***************************************************************************)
EXTENDS Gyro

MCPattern(seed, sign) ==
  [a \in Byte |-> IF a = RA.WHO_AM_I THEN 104 ELSE (seed + sign * 37 * a) % 256]
MCPowerOn == {MCPattern(165, 1), MCPattern(90, -1)}
MCNoAdvance == {RA.MEM_R_W, RA.FIFO_R_W}
MCFewAccesses ==
  {r \in Accesses : r.name \in {"DeviceID", "SleepEnabled", "Rate", "Motion6"}}
=============================================================================
