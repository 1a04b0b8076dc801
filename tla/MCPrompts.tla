----------------------------- MODULE MCPrompts -----------------------------
(***************************************************************************)
(* Three commits, the second of which no allowed signer signed.             *)
(***************************************************************************)
EXTENDS Prompts

CONSTANT r1
=============================================================================
