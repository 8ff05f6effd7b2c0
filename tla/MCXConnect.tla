----------------------------- MODULE MCXConnect -----------------------------
(* Small instances of XConnect. *)
EXTENDS XConnect
=============================================================================
