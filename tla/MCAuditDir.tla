----------------------------- MODULE MCAuditDir -----------------------------
(***************************************************************************)
(* Keep is 1: the second envelope prunes the first, and a third one shows   *)
(* what earlier prunings left. `run` alone meets two power cuts, a death    *)
(* between them, or deaths on both sides; beside `attest` it meets one of   *)
(* each. The log is saved beside one envelope.                             *)
(***************************************************************************)
EXTENDS AuditDir

Bound(stems, cuts, ends, calls, l) ==
  [stems |-> stems, cuts |-> cuts, ends |-> ends, calls |-> calls, log |-> l]

MCBounds ==
  {Bound(3, 2, 0, 0, NoLog), Bound(3, 1, 1, 0, NoLog), Bound(2, 2, 2, 0, NoLog),
   Bound(3, 0, 0, 1, NoLog), Bound(2, 1, 1, 1, NoLog), Bound(2, 0, 0, 2, NoLog),
   Bound(1, 1, 1, 1, Log)}
=============================================================================
