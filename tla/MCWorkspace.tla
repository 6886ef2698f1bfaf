---------------------------- MODULE MCWorkspace -----------------------------
(***************************************************************************)
(* Workspace.tla for TLC.  New providers are alike, so states that         *)
(* differ in which is which are one.                                       *)
(***************************************************************************)
EXTENDS Workspace

Symmetric == Permutations(Instances)
=============================================================================
