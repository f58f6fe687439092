------------------------------ MODULE MCLogger ------------------------------
(***************************************************************************)
(* A few file numbers, an hour of six ticks, and enough time for the start *)
(* of a second hour after up to two disturbances (each cfg names its own   *)
(* bounds).                                                                *)
(***************************************************************************)
EXTENDS Logger
=============================================================================
