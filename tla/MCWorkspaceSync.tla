-------------------------- MODULE MCWorkspaceSync --------------------------
(* One program, two keys, and somebody else who commits, for TLC.          *)
EXTENDS WorkspaceSync

MCPages == 0..1


============================================================================
