------------------------------ MODULE SdDriver ------------------------------
(***************************************************************************)
(* The card and its driver (module SdCard) with constants and state of     *)
(* their own, for module MCSdFile, which runs it beside the file system,   *)
(* and for module CardProofs.                                              *)
(***************************************************************************)
EXTENDS Integers

CONSTANTS CardModels, CardBlocks, BlockBytes, SectorMask

VARIABLES sdCard, sdType, sdStage, sdSeq, sdSlow

sdVars == <<sdCard, sdType, sdStage, sdSeq, sdSlow>>

Sd == INSTANCE SdCard WITH
  Models <- CardModels, Blocks <- CardBlocks,
  card <- sdCard, type <- sdType, stage <- sdStage, seq <- sdSeq, slow <- sdSlow

ASSUME CardAssumption == Sd!SdCardAssumption

DriverSpec == Sd!Spec

\* A call of the driver that answers TRUE has done what it says, and none
\* changes another block (SdCard!BlocksAreExact); for driver and card know of
\* each other what the calls suppose (SdCard!CardInv; Sd2Card.cpp).
BlocksAreExact == Sd!BlocksAreExact /\ Sd!CardInv

=============================================================================
