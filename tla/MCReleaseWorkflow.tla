------------------------- MODULE MCReleaseWorkflow -------------------------
(* Instances of ReleaseWorkflow for TLC. *)
EXTENDS ReleaseWorkflow

\* Two commits with a version each, and two of one version.
OneEach == <<1, 2>>
BothOne == <<1, 1>>

============================================================================
