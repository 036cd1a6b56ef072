-------------------------- MODULE MCSessionHandle --------------------------
(* Instances of SessionHandle for TLC. *)
EXTENDS SessionHandle, TLC

CONSTANTS o1, o2, o3

MCCalls == {o1, o2, o3}
MCSymmetry == Permutations(MCCalls)

============================================================================
