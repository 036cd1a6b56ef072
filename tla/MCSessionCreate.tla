-------------------------- MODULE MCSessionCreate --------------------------
(* Instances of SessionCreate for TLC. *)
EXTENDS SessionCreate

MCSizes == {"vcpus"}

============================================================================
