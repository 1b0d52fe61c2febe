---------------------------- MODULE MCStopService ----------------------------
(***************************************************************************)
(* Small instances of StopService for TLC.                                 *)
(***************************************************************************)
EXTENDS StopService, TLC

CONSTANTS c1, c2

MCRelease(d, e) == [device |-> d, epoch |-> e]

\* The operator released epoch 2 of this device, and epoch 4 of another one.
MCSigned == {MCRelease("A", 2), MCRelease("B", 4)}
\* The record file may also name epoch 4 of this device, which nobody signed.
MCRecords == MCSigned \union {MCRelease("A", 4)}

OneRelease == {MCRelease("A", 2)}
=============================================================================
