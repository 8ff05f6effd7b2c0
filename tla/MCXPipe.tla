------------------------------ MODULE MCXPipe ------------------------------
(* Instances of XPipe for TLC.  Thread names are model values. *)
EXTENDS XPipe
=============================================================================
