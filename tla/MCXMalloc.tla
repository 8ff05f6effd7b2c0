----------------------------- MODULE MCXMalloc -----------------------------
(* Two threads and a page of five smallest blocks. *)
EXTENDS XMalloc
=============================================================================
