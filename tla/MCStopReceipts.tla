--------------------------- MODULE MCStopReceipts ---------------------------
(***************************************************************************)
(* Instances of StopReceipts for TLC. A history begins when the first      *)
(* challenge is chosen: what the device did before is its initial state.   *)
(***************************************************************************)
EXTENDS StopReceipts

CONSTANT First

MCInit == Init /\ Now.counter = 1
MCNext ==
  /\ Next
  /\ past' # past => asked[First] # 0
  /\ asked' # asked => asked'[First] # 0
MCSpec == MCInit /\ [][MCNext]_vars
=============================================================================
