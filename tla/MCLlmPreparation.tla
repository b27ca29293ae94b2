------------------------- MODULE MCLlmPreparation --------------------------
(* Small instances of LlmPreparation for TLC. *)
EXTENDS LlmPreparation
=============================================================================
