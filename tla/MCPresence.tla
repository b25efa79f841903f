----------------------------- MODULE MCPresence -----------------------------
(* Presence for TLC: connections and server processes are model values. *)
EXTENDS Presence
=============================================================================
