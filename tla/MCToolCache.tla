---------------------------- MODULE MCToolCache ----------------------------
(* Small instances of ToolCache for TLC. *)
EXTENDS ToolCache, TLC

=============================================================================
