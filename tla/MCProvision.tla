---------------------------- MODULE MCProvision ----------------------------
(***************************************************************************)
(* Instance of Provision for TLC: commands and ids are interchangeable.    *)
(***************************************************************************)
EXTENDS Provision, TLC

Interchangeable == Permutations(Procs) \union Permutations(Ids)
=============================================================================
