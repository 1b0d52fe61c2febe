---------------------------- MODULE MCAgentCycle ----------------------------
(***************************************************************************)
(* Instances of AgentCycle for TLC. Over the selection "few" the bad state *)
(* has the digest of the good one: a digest says nothing without its       *)
(* selection.                                                              *)
(***************************************************************************)
EXTENDS AgentCycle

CONSTANTS run, once, good, bad, g, b

MCComposite ==
  [sel \in {"all", "few"} |->
     [s \in {good, bad} |-> IF sel = "all" /\ s = bad THEN b ELSE g]]

Edge   == [selection |-> "all", allowed |-> {g}, required |-> <<>>]
Server == [selection |-> "all", allowed |-> {g}, required |-> <<"CpuTee", "GpuAttest">>]
MCRefs == {Edge, Server}

\* `attest` may be run with another TACTIQ_PCR_SPEC than the service.
MCSpecOf == [a \in Agents |-> IF a = once THEN "few" ELSE "all"]
=============================================================================
