----------------------------- MODULE MCSessions -----------------------------
(* Sessions for TLC: tabs are model values. *)
EXTENDS Sessions
=============================================================================
