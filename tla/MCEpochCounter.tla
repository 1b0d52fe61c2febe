--------------------------- MODULE MCEpochCounter ---------------------------
(***************************************************************************)
(* Small instances of EpochCounter for TLC.                                *)
(***************************************************************************)
EXTENDS EpochCounter

CONSTANTS run, once
=============================================================================
