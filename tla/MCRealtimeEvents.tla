-------------------------- MODULE MCRealtimeEvents --------------------------
(* RealtimeEvents for TLC: clients, handlers and rows are model values. *)
EXTENDS RealtimeEvents
=============================================================================
