---------------------------- MODULE MCDiscovery ----------------------------
(***************************************************************************)
(* Discovery for TLC's safety run.  Nothing tells two processes, two       *)
(* topics or two addresses apart.                                          *)
(***************************************************************************)
EXTENDS Discovery

Symmetry ==
    Permutations(Process) \cup Permutations(Topics) \cup Permutations(Addresses)
=============================================================================
